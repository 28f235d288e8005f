------------------------- MODULE PoolsBalance_proofs -------------------------
(***************************************************************************)
(* Each storage layout keeps the promises of the PoolLedger, for all       *)
(* tokens, amounts, widths and blocks, and so does a Pool that chooses     *)
(* among them, since the other layouts' storage stays as it is.            *)
(***************************************************************************)
EXTENDS PoolsBalance, FiniteSetTheorems, WellFoundedInduction, TLAPS

-----------------------------------------------------------------------------
(* Words: what is packed in one comes out of it again, at any width *)

\* Dividing q * n + r by n gives back q and r.
LEMMA Division ==
    ASSUME NEW n \in Nat \ {0}, NEW q \in Nat, NEW r \in 0..(n - 1)
    PROVE  (q * n + r) % n = r /\ (q * n + r) \div n = q
<1> DEFINE x == q * n + r
           d == x \div n
           m == x % n
<1>1. x \in Nat
  OBVIOUS
<1>2. d \in Int /\ m \in 0..(n - 1) /\ x = d * n + m
  BY <1>1
<1>3. ~(d > q)
  <2>1. SUFFICES ASSUME d >= q + 1 PROVE FALSE
    BY <1>2
  <2>2. d * n >= (q + 1) * n
    BY <1>2, <2>1
  <2>3. QED
    BY <1>2, <2>2
<1>4. ~(d < q)
  <2>1. SUFFICES ASSUME q >= d + 1 PROVE FALSE
    BY <1>2
  <2>2. q * n >= (d + 1) * n
    BY <1>2, <2>1
  <2>3. QED
    BY <1>2, <2>2
<1>5. d = q
  BY <1>2, <1>3, <1>4
<1>6. m = r
  BY <1>2, <1>5
<1>7. QED
  BY <1>5, <1>6

\* The quotient of a natural is a natural.
LEMMA Quotient ==
    ASSUME NEW n \in Nat \ {0}, NEW x \in Nat
    PROVE  x \div n \in Nat /\ x % n \in 0..(n - 1) /\ x = (x \div n) * n + (x % n)
<1> DEFINE d == x \div n
           m == x % n
<1>1. d \in Int /\ m \in 0..(n - 1) /\ x = d * n + m
  OBVIOUS
<1>2. ~(d < 0)
  <2>1. SUFFICES ASSUME d <= -1 PROVE FALSE
    BY <1>1
  <2>2. d * n <= (-1) * n
    BY <1>1, <2>1
  <2>3. QED
    BY <1>1, <2>2
<1>3. QED
  BY <1>1, <1>2

\* The three fields of a packed word are the ones that were packed.
LEMMA Fields ==
    ASSUME NEW least \in 0..(Limit - 1), NEW mid \in 0..(Limit - 1), NEW most \in Nat
    PROVE  /\ Pack(least, mid, most) \in Nat
           /\ Least(Pack(least, mid, most)) = least
           /\ Mid(Pack(least, mid, most)) = mid
           /\ Most(Pack(least, mid, most)) = most
<1> DEFINE high == most * Limit + mid
           word == high * Limit + least
<1>1. high \in Nat
  BY LimitAssumption
<1>2. word \in Nat
  <2> HIDE DEF high
  <2>1. QED
    BY <1>1, LimitAssumption
<1>3. high % Limit = mid /\ high \div Limit = most
  BY Division, LimitAssumption
<1>4. word % Limit = least /\ word \div Limit = high
  <2> HIDE DEF high
  <2>1. QED
    BY <1>1, Division, LimitAssumption
<1> HIDE DEF word
<1>5. Pack(least, mid, most) = word
  BY DEF Pack, word
<1>6. /\ Least(word) = least
      /\ Mid(word) = mid
      /\ Most(word) = most
  BY <1>3, <1>4 DEF Least, Mid, Most
<1>7. QED
  BY <1>2, <1>5, <1>6

\* A balance outside of the storage.
Balance == [cash : Int, managed : Int, changed : Nat]

\* toBalance loses nothing, and what does not overlap is no larger than it was.
THEOREM PackingIsFaithful ==
    ASSUME NEW b \in Balance, Fits(b)
    PROVE  /\ ToBalance(b) \in Nat
           /\ Unpacked(ToBalance(b)) = b
<1>1. b.cash \in 0..(Limit - 1) /\ b.managed \in 0..(Limit - 1) /\ b.changed \in Nat
  BY LimitAssumption DEF Fits, Total, Balance
<1>2. /\ ToBalance(b) \in Nat
      /\ Least(ToBalance(b)) = b.cash
      /\ Mid(ToBalance(b)) = b.managed
      /\ Most(ToBalance(b)) = b.changed
  BY <1>1, Fields DEF ToBalance
<1>3. b = [cash |-> b.cash, managed |-> b.managed, changed |-> b.changed]
  BY DEF Balance
<1>4. QED
  BY <1>2, <1>3 DEF Unpacked

\* The fields of any word are in their ranges, and make up the word.
LEMMA WordFields ==
    ASSUME NEW word \in Nat
    PROVE  /\ Least(word) \in 0..(Limit - 1)
           /\ Mid(word) \in 0..(Limit - 1)
           /\ Most(word) \in Nat
           /\ word = Pack(Least(word), Mid(word), Most(word))
<1> DEFINE high == word \div Limit
<1>1. high \in Nat /\ Least(word) \in 0..(Limit - 1) /\ word = high * Limit + Least(word)
  BY Quotient, LimitAssumption DEF Least
<1>2. Mid(word) = high % Limit /\ Most(word) = high \div Limit
  BY DEF Mid, Most
<1> HIDE DEF high
<1>3. Mid(word) \in 0..(Limit - 1) /\ Most(word) \in Nat /\ high = Most(word) * Limit + Mid(word)
  BY <1>1, <1>2, Quotient, LimitAssumption
<1>4. QED
  BY <1>1, <1>3 DEF Pack

\* isZero looks at the two amounts and not at the block.
THEOREM IsZeroIgnoresTheBlock ==
    ASSUME NEW word \in Nat
    PROVE  IsZero(word) <=> Least(word) = 0 /\ Mid(word) = 0
<1> DEFINE least == Least(word)
           mid == Mid(word)
           most == Most(word)
           square == Limit * Limit
           low == mid * Limit + least
<1>1. /\ least \in 0..(Limit - 1)
      /\ mid \in 0..(Limit - 1)
      /\ most \in Nat
      /\ word = (most * Limit + mid) * Limit + least
  BY WordFields DEF Pack
<1> HIDE DEF least, mid, most
<1>2. Limit \in Nat /\ Limit >= 1
  BY LimitAssumption
<1>3. square \in Nat /\ square >= 1
  <2>1. Limit * Limit >= 1 * 1
    BY <1>2
  <2>2. QED
    BY <1>2, <2>1
<1>4. low \in 0..(square - 1)
  <2>1. mid * Limit <= (Limit - 1) * Limit /\ mid * Limit >= 0
    BY <1>1, <1>2
  <2>2. (Limit - 1) * Limit = square - Limit
    BY <1>2
  <2>3. QED
    BY <1>1, <1>2, <2>1, <2>2
<1>5. word = most * square + low
  <2>1. (most * Limit + mid) * Limit = (most * Limit) * Limit + mid * Limit
    BY <1>1, <1>2
  <2>2. (most * Limit) * Limit = most * square
    BY <1>1, <1>2
  <2>3. QED
    BY <1>1, <1>2, <2>1, <2>2
<1>6. low = 0 <=> least = 0 /\ mid = 0
  <2>1. mid * Limit >= mid * 1
    BY <1>1, <1>2
  <2>2. QED
    BY <1>1, <1>2, <2>1
<1> HIDE DEF square, low
<1>7. word % square = low
  BY <1>1, <1>3, <1>4, <1>5, Division
<1>8. IsZero(word) <=> word % square = 0
  BY DEF IsZero, square
<1>9. QED
  BY <1>6, <1>7, <1>8 DEF least, mid

-----------------------------------------------------------------------------
(* Balances *)

\* What is read from a word is a balance.
LEMMA UnpackedIsBalance == ASSUME NEW word \in Nat PROVE Unpacked(word) \in Balance
BY WordFields, LimitAssumption DEF Unpacked, Balance

\* And so is what the mutations yield.
LEMMA Mutations ==
    ASSUME NEW b \in Balance, NEW n \in Int, NEW now \in Nat
    PROVE  /\ ChangeCash(b, n, now) \in Balance
           /\ CashToManaged(b, n) \in Balance
           /\ SetManaged(b, n, now) \in Balance
BY DEF ChangeCash, CashToManaged, SetManaged, Balance

\* The word of an empty balance.
LEMMA ZeroWord ==
    /\ Least(0) = 0 /\ Mid(0) = 0 /\ Most(0) = 0
    /\ Unpacked(0) = [cash |-> 0, managed |-> 0, changed |-> 0]
    /\ Fits(Unpacked(0))
<1>1. Pack(0, 0, 0) = 0
  BY LimitAssumption DEF Pack
<1>2. Least(0) = 0 /\ Mid(0) = 0 /\ Most(0) = 0
  BY <1>1, Fields, LimitAssumption
<1>3. QED
  BY <1>2, LimitAssumption DEF Unpacked, Fits, Total

\* A word of zeroes without a block is the zero word.
LEMMA OnlyZeroIsEmpty ==
    ASSUME NEW word \in Nat, IsZero(word), Most(word) = 0
    PROVE  word = 0
<1>1. Least(word) = 0 /\ Mid(word) = 0
  BY IsZeroIgnoresTheBlock
<1>2. word = Pack(0, 0, 0)
  BY <1>1, WordFields
<1>3. QED
  BY <1>2, LimitAssumption DEF Pack

Later(a, b) == IF a.changed > b.changed THEN a.changed ELSE b.changed

\* The two shared words of a Two Token Pool, and the balances read from them.
LEMMA SharedWords ==
    ASSUME NEW a \in Balance, NEW b \in Balance, Fits(a), Fits(b)
    PROVE  /\ ToSharedCash(a, b) \in Nat
           /\ Least(ToSharedCash(a, b)) = a.cash
           /\ Mid(ToSharedCash(a, b)) = b.cash
           /\ Most(ToSharedCash(a, b)) = Later(a, b)
           /\ ToSharedManaged(a, b) \in Nat
           /\ Least(ToSharedManaged(a, b)) = a.managed
           /\ Mid(ToSharedManaged(a, b)) = b.managed
           /\ Most(ToSharedManaged(a, b)) = 0
<1>1. /\ a.cash \in 0..(Limit - 1) /\ a.managed \in 0..(Limit - 1) /\ a.changed \in Nat
      /\ b.cash \in 0..(Limit - 1) /\ b.managed \in 0..(Limit - 1) /\ b.changed \in Nat
  BY LimitAssumption DEF Fits, Total, Balance
<1>2. Later(a, b) \in Nat
  BY <1>1 DEF Later
<1>3. ToSharedCash(a, b) = Pack(a.cash, b.cash, Later(a, b))
  BY DEF ToSharedCash, Later
<1>4. /\ ToSharedCash(a, b) \in Nat
      /\ Least(ToSharedCash(a, b)) = a.cash
      /\ Mid(ToSharedCash(a, b)) = b.cash
      /\ Most(ToSharedCash(a, b)) = Later(a, b)
  <2> DEFINE l == Later(a, b)
  <2> HIDE DEF l
  <2>1. l \in Nat
    BY <1>2 DEF l
  <2>2. /\ Pack(a.cash, b.cash, l) \in Nat
        /\ Least(Pack(a.cash, b.cash, l)) = a.cash
        /\ Mid(Pack(a.cash, b.cash, l)) = b.cash
        /\ Most(Pack(a.cash, b.cash, l)) = l
    BY <1>1, <2>1, Fields
  <2>3. l = Later(a, b)
    BY DEF l
  <2>4. QED
    BY <2>2, <2>3, <1>3
<1>5. 0 \in Nat
  OBVIOUS
<1>6. /\ ToSharedManaged(a, b) \in Nat
      /\ Least(ToSharedManaged(a, b)) = a.managed
      /\ Mid(ToSharedManaged(a, b)) = b.managed
      /\ Most(ToSharedManaged(a, b)) = 0
  BY <1>1, <1>5, Fields DEF ToSharedManaged
<1>7. QED
  BY <1>4, <1>6

-----------------------------------------------------------------------------
(* The block of the last change *)

\* No total of these balances changes without the block of the change, nor is a block taken back.
Recorded(before, after, now) ==
    \A t \in DOMAIN before \cap DOMAIN after :
        /\ after[t].changed >= before[t].changed
        /\ Total(after[t]) # Total(before[t]) => after[t].changed = now

\* Balances of blocks so far.
Dated(before, now) == \A t \in DOMAIN before : before[t] \in Balance /\ before[t].changed <= now

\* Balances that are replaced with a record of the block, or that keep block and total, are recorded.
LEMMA WriteIsRecorded ==
    ASSUME NEW now \in Nat, NEW before, Dated(before, now),
           NEW recorded \in BOOLEAN, NEW shared \in BOOLEAN, NEW new, NEW after,
           after = [t \in DOMAIN before |->
                       LET e == IF t \in DOMAIN new THEN new[t] ELSE before[t]
                       IN IF recorded /\ (t \in DOMAIN new \/ shared)
                          THEN [e EXCEPT !.changed = now] ELSE e],
           \A t \in DOMAIN new :
              /\ new[t] \in Balance
              /\ recorded \/ (new[t].changed = before[t].changed /\ Total(new[t]) = Total(before[t]))
    PROVE  Recorded(before, after, now)
<1> SUFFICES ASSUME NEW t \in DOMAIN before
             PROVE  /\ after[t].changed >= before[t].changed
                    /\ Total(after[t]) # Total(before[t]) => after[t].changed = now
  BY DEF Recorded
<1> DEFINE e == IF t \in DOMAIN new THEN new[t] ELSE before[t]
<1>1. before[t] \in Balance /\ before[t].changed <= now /\ before[t].changed \in Nat
  BY DEF Dated, Balance
<1>2. e \in Balance
  BY <1>1
<1>3. after[t] = IF recorded /\ (t \in DOMAIN new \/ shared) THEN [e EXCEPT !.changed = now] ELSE e
  OBVIOUS
<1>4. CASE recorded /\ (t \in DOMAIN new \/ shared)
  <2> HIDE DEF e
  <2>1. after[t].changed = now
    BY <1>2, <1>3, <1>4 DEF Balance
  <2> QED  BY <1>1, <2>1
<1>5. CASE ~(recorded /\ (t \in DOMAIN new \/ shared))
  <2>1. after[t] = e
    BY <1>3, <1>5
  <2>2. e.changed = before[t].changed /\ Total(e) = Total(before[t])
    BY <1>5
  <2> QED  BY <1>1, <2>1, <2>2
<1> QED  BY <1>4, <1>5

-----------------------------------------------------------------------------
(* Minimal Swap Info layout: what is stored *)

\* What is stored, between any two steps.  A deregistered token's word is zero
\* altogether, its block included: that is what lets it start anew.
MinimalStorageOK ==
    /\ block \in 1..MaxBlock
    /\ tokens \in SUBSET Tokens
    /\ balances \in [Tokens -> Nat]
    /\ \A t \in Tokens : Fits(Unpacked(balances[t])) /\ Unpacked(balances[t]).changed <= block
    /\ \A t \in Tokens : t \notin tokens => balances[t] = 0

\* What a hook that is running was called with.
MinimalCallOK == MinimalReadIsCurrent

MinimalIInv == MinimalStorageOK /\ MinimalCallOK

-----------------------------------------------------------------------------
(* Minimal Swap Info layout: lemmas *)

\* A word that is stored after a mutation.
LEMMA StoredWord ==
    ASSUME NEW b \in Balance, Fits(b)
    PROVE  ToBalance(b) \in Nat /\ Unpacked(ToBalance(b)) = b /\ Fits(Unpacked(ToBalance(b)))
BY PackingIsFaithful

-----------------------------------------------------------------------------
(* Minimal Swap Info layout: the inductive invariant *)

\* Before the first call.
LEMMA MinimalInitIInv == MinimalInit => MinimalIInv /\ MinimalLedger!Init
<1>1. MinimalInit => MinimalIInv
  BY ZeroWord, PoolAssumption DEF MinimalInit, MinimalIInv, MinimalStorageOK, MinimalCallOK,
       MinimalReadIsCurrent, NoCall
<1>2. MinimalInit => MinimalLedger!Init
  BY DEF MinimalInit, MinimalLedger!Init, MinimalLedger!Empty
<1>3. QED
  BY <1>1, <1>2

\* What is stored stays right while other blocks come.
LEMMA MinimalStorageStays ==
    ASSUME MinimalStorageOK, UNCHANGED <<balances, tokens>>, block' \in 1..MaxBlock, block <= block'
    PROVE  MinimalStorageOK'
<1>1. \A t \in Tokens : Unpacked(balances[t]).changed <= block'
  <2> TAKE t \in Tokens
  <2>1. balances[t] \in Nat /\ Unpacked(balances[t]).changed <= block
    BY DEF MinimalStorageOK
  <2>2. Unpacked(balances[t]).changed \in Nat /\ block \in Nat
    BY <2>1, WordFields DEF Unpacked, MinimalStorageOK
  <2> QED  BY <2>1, <2>2
<1> QED  BY <1>1 DEF MinimalStorageOK

\* Writing balances that fit to registered tokens, when the call is over.
LEMMA WriteKeepsIInv ==
    ASSUME MinimalIInv, NEW T \in SUBSET tokens, NEW new \in [T -> Balance],
           \A t \in T : Fits(new[t]) /\ new[t].changed <= block,
           balances' = [t \in Tokens |-> IF t \in T THEN ToBalance(new[t]) ELSE balances[t]],
           call' = NoCall, UNCHANGED <<block, tokens>>
    PROVE  MinimalIInv'
<1>1. \A t \in Tokens : /\ balances'[t] \in Nat /\ Fits(Unpacked(balances'[t]))
                        /\ Unpacked(balances'[t]).changed <= block
  BY StoredWord DEF MinimalIInv, MinimalStorageOK
<1>2. \A t \in Tokens : t \notin tokens => balances'[t] = 0
  BY DEF MinimalIInv, MinimalStorageOK
<1>3. QED
  BY <1>1, <1>2 DEF MinimalIInv, MinimalStorageOK, MinimalCallOK, MinimalReadIsCurrent, NoCall

\* Each step keeps the invariant.
LEMMA MinimalNextIInv == MinimalIInv /\ [MinimalNext]_minimalVars => MinimalIInv'
<1> SUFFICES ASSUME MinimalIInv, [MinimalNext]_minimalVars PROVE MinimalIInv'
  OBVIOUS
<1>1. CASE UNCHANGED minimalVars
  BY <1>1 DEF MinimalIInv, MinimalStorageOK, MinimalCallOK, MinimalReadIsCurrent, minimalVars
<1>2. CASE MinimalNewBlock
  <2>1. UNCHANGED <<balances, tokens>> /\ block' \in 1..MaxBlock /\ block <= block' /\ call' = NoCall
    BY <1>2, PoolAssumption DEF MinimalNewBlock, Idle, MinimalIInv, MinimalStorageOK
  <2> QED  BY <2>1, MinimalStorageStays DEF MinimalIInv, MinimalCallOK, MinimalReadIsCurrent, NoCall
<1>3. ASSUME NEW toks \in SUBSET Tokens, MinimalRegisterTokens(toks) PROVE MinimalIInv'
  BY <1>3 DEF MinimalIInv, MinimalStorageOK, MinimalCallOK, MinimalReadIsCurrent,
       MinimalRegisterTokens, Idle, NoCall
<1>4. ASSUME NEW toks \in SUBSET Tokens, MinimalDeregisterTokens(toks) PROVE MinimalIInv'
  <2>1. \A t \in Tokens : /\ balances'[t] \in Nat /\ Fits(Unpacked(balances'[t]))
                          /\ Unpacked(balances'[t]).changed <= block
    BY <1>4, ZeroWord DEF MinimalIInv, MinimalStorageOK, MinimalDeregisterTokens
  <2>2. \A t \in Tokens : t \notin tokens' => balances'[t] = 0
    BY <1>4 DEF MinimalIInv, MinimalStorageOK, MinimalDeregisterTokens
  <2>3. QED
    BY <1>4, <2>1, <2>2 DEF MinimalIInv, MinimalStorageOK, MinimalCallOK, MinimalReadIsCurrent,
         MinimalDeregisterTokens, Idle, NoCall
<1>5. ASSUME NEW tokenIn \in Tokens, NEW tokenOut \in Tokens, MinimalCallOnSwap(tokenIn, tokenOut)
      PROVE  MinimalIInv'
  <2>1. tokenIn \in tokens /\ tokenOut \in tokens
    <3>1. IsZero(0)
      BY IsZeroIgnoresTheBlock, ZeroWord DEF Unpacked
    <3>2. QED
      BY <1>5, <3>1 DEF MinimalCallOnSwap, MinimalFound, MinimalIInv, MinimalStorageOK, MinimalCallOK
  <2>2. QED
    BY <1>5, <2>1 DEF MinimalCallOnSwap, MinimalIInv, MinimalStorageOK, MinimalCallOK,
         MinimalReadIsCurrent
<1>6. ASSUME NEW amountIn \in Amounts, NEW amountOut \in Amounts,
             MinimalOnSwapReturned(amountIn, amountOut)
      PROVE  MinimalIInv'
  <2> DEFINE in == ChangeCash(Unpacked(call.balanceIn), amountIn, block)
             out == ChangeCash(Unpacked(call.balanceOut), -amountOut, block)
             T == {call.tokenIn, call.tokenOut}
             new == [t \in T |-> IF t = call.tokenIn THEN in ELSE out]
  <2>1. /\ call.tokenIn # call.tokenOut /\ T \in SUBSET tokens
        /\ call.balanceIn \in Nat /\ call.balanceOut \in Nat
    BY <1>6 DEF MinimalOnSwapReturned, MinimalIInv, MinimalStorageOK, MinimalCallOK,
         MinimalReadIsCurrent
  <2>2. in \in Balance /\ out \in Balance
    <3>1. amountIn \in Int /\ -amountOut \in Int /\ block \in Nat
      BY <1>6, PoolAssumption DEF MinimalIInv, MinimalStorageOK
    <3>2. Unpacked(call.balanceIn) \in Balance /\ Unpacked(call.balanceOut) \in Balance
      BY <2>1, UnpackedIsBalance
    <3>3. QED
      BY <3>1, <3>2, Mutations
  <2>3. new \in [T -> Balance] /\ \A t \in T : Fits(new[t]) /\ new[t].changed <= block
    <3>1. in.changed <= block /\ out.changed <= block
      BY DEF ChangeCash, MinimalIInv, MinimalStorageOK
    <3> QED  BY <1>6, <2>2, <3>1 DEF MinimalOnSwapReturned
  <2>4. balances' = [t \in Tokens |-> IF t \in T THEN ToBalance(new[t]) ELSE balances[t]]
    BY <1>6, <2>1 DEF MinimalOnSwapReturned, MinimalIInv, MinimalStorageOK
  <2> HIDE DEF new, T
  <2>5. QED
    BY <1>6, <2>1, <2>3, <2>4, WriteKeepsIInv DEF MinimalOnSwapReturned
<1>7. CASE MinimalCallOnJoinOrExit
  BY <1>7 DEF MinimalCallOnJoinOrExit, MinimalIInv, MinimalStorageOK, MinimalCallOK,
       MinimalReadIsCurrent
<1>8. ASSUME call.fn = "joinOrExit",
             NEW difference \in [DOMAIN call.balances -> Differences],
             MinimalOnJoinOrExitReturned(difference)
      PROVE  MinimalIInv'
  <2> DEFINE new == [t \in tokens |-> ChangeCash(Unpacked(balances[t]), difference[t], block)]
  <2>1. call.balances = [t \in tokens |-> balances[t]]
    BY <1>8 DEF MinimalIInv, MinimalStorageOK, MinimalCallOK, MinimalReadIsCurrent
  <2>2. DOMAIN call.balances = tokens
    BY <2>1
  <2>3. new \in [tokens -> Balance]
    <3>1. \A d \in Differences : d \in Int
      <4>1. \A n \in Amounts : n \in Int /\ -n \in Int
        BY PoolAssumption
      <4>2. QED
        BY <4>1 DEF Differences
    <3>2. \A t \in tokens : difference[t] \in Int
      BY <1>8, <2>2, <3>1
    <3>3. \A t \in tokens : Unpacked(balances[t]) \in Balance
      BY UnpackedIsBalance DEF MinimalIInv, MinimalStorageOK
    <3>4. block \in Nat
      BY DEF MinimalIInv, MinimalStorageOK
    <3>5. QED
      BY <3>2, <3>3, <3>4, Mutations
  <2>4. /\ \A t \in tokens : Fits(new[t])
        /\ balances' = [t \in Tokens |-> IF t \in tokens THEN ToBalance(new[t]) ELSE balances[t]]
    BY <1>8, <2>1, <2>2 DEF MinimalOnJoinOrExitReturned
  <2>5. \A t \in tokens : new[t].changed <= block
    BY DEF ChangeCash, MinimalIInv, MinimalStorageOK
  <2> HIDE DEF new
  <2>6. QED
    BY <1>8, <2>3, <2>4, <2>5, WriteKeepsIInv DEF MinimalOnJoinOrExitReturned
<1>9. CASE MinimalRevert
  BY <1>9 DEF MinimalRevert, MinimalIInv, MinimalStorageOK, MinimalCallOK, MinimalReadIsCurrent, NoCall
<1>10. ASSUME NEW t \in Tokens, NEW new \in Balance, new.changed <= block, MinimalUpdate(t, new)
       PROVE  MinimalIInv'
  <2> DEFINE one == [u \in {t} |-> new]
  <2>1. /\ {t} \in SUBSET tokens /\ one \in [{t} -> Balance]
        /\ \A u \in {t} : Fits(one[u]) /\ one[u].changed <= block
    BY <1>10 DEF MinimalUpdate
  <2>2. balances' = [u \in Tokens |-> IF u \in {t} THEN ToBalance(one[u]) ELSE balances[u]]
    BY <1>10 DEF MinimalUpdate, MinimalIInv, MinimalStorageOK
  <2> HIDE DEF one
  <2>3. QED
    BY <1>10, <2>1, <2>2, WriteKeepsIInv DEF MinimalUpdate, Idle
<1>11. ASSUME NEW t \in Tokens, NEW n \in Amounts,
              MinimalWithdrawPoolBalance(t, n) \/ MinimalDepositPoolBalance(t, n) \/ MinimalUpdateManagedBalance(t, n)
       PROVE  MinimalIInv'
  <2>1. /\ Unpacked(balances[t]) \in Balance /\ n \in Int /\ -n \in Int /\ block \in Nat
        /\ Unpacked(balances[t]).changed <= block
    BY <1>11, UnpackedIsBalance, PoolAssumption DEF MinimalIInv, MinimalStorageOK
  <2>2. /\ CashToManaged(Unpacked(balances[t]), n).changed <= block
        /\ CashToManaged(Unpacked(balances[t]), -n).changed <= block
        /\ SetManaged(Unpacked(balances[t]), n, block).changed <= block
    BY <2>1 DEF CashToManaged, SetManaged
  <2>3. QED
    BY <1>10, <1>11, <2>1, <2>2, Mutations
       DEF MinimalWithdrawPoolBalance, MinimalDepositPoolBalance, MinimalUpdateManagedBalance
<1>12. QED
  BY <1>1, <1>2, <1>3, <1>4, <1>5, <1>6, <1>7, <1>8, <1>9, <1>11 DEF MinimalNext

\* The inductive invariant holds in every reachable state.
THEOREM MinimalInvariance == MinimalSpec => []MinimalIInv
BY MinimalInitIInv, MinimalNextIInv, PTL DEF MinimalSpec

\* What follows from it about the storage.
LEMMA MinimalStorageParts == MinimalStorageOK => MinimalTypeOK /\ MinimalNonZeroIsRegistered
<1>1. IsZero(0)
  BY IsZeroIgnoresTheBlock, ZeroWord DEF Unpacked
<1>2. QED
  BY <1>1 DEF MinimalStorageOK, MinimalTypeOK, MinimalNonZeroIsRegistered, Fits

\* A word that is not zero is proof that the token is registered: the getter's
\* shortcut is right.
THEOREM ShortcutIsRight == MinimalSpec => []MinimalNonZeroIsRegistered
<1>1. MinimalIInv => MinimalNonZeroIsRegistered
  BY MinimalStorageParts DEF MinimalIInv
<1>2. QED
  BY <1>1, MinimalInvariance, PTL

\* What a hook was called with is still stored when it returns.
THEOREM HooksSeeCurrentBalances == MinimalSpec => []MinimalReadIsCurrent
<1>1. MinimalIInv => MinimalReadIsCurrent
  BY DEF MinimalIInv, MinimalStorageOK, MinimalCallOK
<1>2. QED
  BY <1>1, MinimalInvariance, PTL

\* The types, and no total of 2^112 or more.
THEOREM MinimalTypeCorrect == MinimalSpec => []MinimalTypeOK
<1>1. MinimalIInv => MinimalTypeOK
  BY MinimalStorageParts DEF MinimalIInv
<1>2. QED
  BY <1>1, MinimalInvariance, PTL

-----------------------------------------------------------------------------
(* Minimal Swap Info layout: refinement *)

MinimalBar == [t \in tokens |-> Unpacked(balances[t])]

\* Writing balances of this block looks to the PoolLedger like a recorded Write.
LEMMA RecordedWriteRefines ==
    ASSUME MinimalIInv, NEW T \in SUBSET tokens, NEW new \in [T -> Balance],
           \A t \in T : Fits(new[t]),
           balances' = [t \in Tokens |-> IF t \in T THEN ToBalance(new[t]) ELSE balances[t]],
           UNCHANGED <<block, tokens>>,
           NEW old, DOMAIN old = T,
           \A t \in T : old[t] =
              [cash |-> new[t].cash, managed |-> new[t].managed, changed |-> MinimalBar[t].changed],
           \A t \in T : new[t].changed = block
    PROVE  MinimalLedger!Write(old, TRUE)
<1>1. \A t \in T : MinimalLedger!Sound(old[t])
  BY DEF MinimalLedger!Sound, MinimalLedger!TotalOf, Fits, Total
<1>2. \A t \in T : Unpacked(balances'[t]) = new[t]
  BY PackingIsFaithful DEF MinimalIInv, MinimalStorageOK
<1>3. \A t \in tokens \ T : Unpacked(balances'[t]) = Unpacked(balances[t])
  BY DEF MinimalIInv, MinimalStorageOK
<1>4. \A t \in T : [old[t] EXCEPT !.changed = block] = new[t]
  BY DEF Balance
<1>5. MinimalBar' = [t \in tokens |-> IF t \in T THEN new[t] ELSE Unpacked(balances[t])]
  BY <1>2, <1>3 DEF MinimalBar
<1>6. QED
  BY <1>1, <1>4, <1>5 DEF MinimalLedger!Write, MinimalLedger!Registered, MinimalBar

\* Writing balances that keep their block looks like one that is not recorded.
LEMMA UnrecordedWriteRefines ==
    ASSUME MinimalIInv, NEW T \in SUBSET tokens, NEW new \in [T -> Balance],
           \A t \in T : Fits(new[t]),
           balances' = [t \in Tokens |-> IF t \in T THEN ToBalance(new[t]) ELSE balances[t]],
           UNCHANGED <<block, tokens>>,
           NEW old, DOMAIN old = T,
           \A t \in T : old[t] =
              [cash |-> new[t].cash, managed |-> new[t].managed, changed |-> MinimalBar[t].changed],
           \A t \in T : new[t].changed = MinimalBar[t].changed
    PROVE  MinimalLedger!Write(old, FALSE)
<1>1. \A t \in T : MinimalLedger!Sound(old[t])
  BY DEF MinimalLedger!Sound, MinimalLedger!TotalOf, Fits, Total
<1>2. \A t \in T : Unpacked(balances'[t]) = new[t]
  BY PackingIsFaithful DEF MinimalIInv, MinimalStorageOK
<1>3. \A t \in tokens \ T : Unpacked(balances'[t]) = Unpacked(balances[t])
  BY DEF MinimalIInv, MinimalStorageOK
<1>4. \A t \in T : old[t] = new[t]
  BY DEF Balance
<1>5. MinimalBar' = [t \in tokens |-> IF t \in T THEN new[t] ELSE Unpacked(balances[t])]
  BY <1>2, <1>3 DEF MinimalBar
<1>6. QED
  BY <1>1, <1>4, <1>5 DEF MinimalLedger!Write, MinimalLedger!Registered, MinimalBar

\* Each step of the layout is a step of the PoolLedger, or none at all: the
\* first half of a swap, a join or an exit, or a revert.
LEMMA MinimalStepRefines == MinimalIInv /\ [MinimalNext]_minimalVars => [MinimalLedger!Next]_<<block, MinimalBar>>
<1> SUFFICES ASSUME MinimalIInv, [MinimalNext]_minimalVars PROVE [MinimalLedger!Next]_<<block, MinimalBar>>
  OBVIOUS
<1>1. CASE UNCHANGED minimalVars
  BY <1>1 DEF minimalVars, MinimalBar
<1>2. CASE MinimalNewBlock
  BY <1>2 DEF MinimalNewBlock, MinimalLedger!Next, MinimalLedger!NewBlock, MinimalBar
<1>3. ASSUME NEW toks \in SUBSET Tokens, MinimalRegisterTokens(toks) PROVE MinimalLedger!Next
  <2>1. \A t \in toks : Unpacked(balances[t]) = MinimalLedger!Empty
    BY <1>3, ZeroWord DEF MinimalRegisterTokens, MinimalIInv, MinimalStorageOK, MinimalLedger!Empty
  <2>2. MinimalBar' = [t \in tokens \cup toks |-> IF t \in toks THEN MinimalLedger!Empty ELSE MinimalBar[t]]
    BY <1>3, <2>1 DEF MinimalRegisterTokens, MinimalBar
  <2>3. MinimalLedger!Register(toks)
    BY <1>3, <2>2 DEF MinimalRegisterTokens, MinimalLedger!Register, MinimalLedger!Registered,
         MinimalBar
  <2>4. QED
    BY <2>3 DEF MinimalLedger!Next
<1>4. ASSUME NEW toks \in SUBSET Tokens, MinimalDeregisterTokens(toks) PROVE MinimalLedger!Next
  <2>1. \A t \in toks : MinimalLedger!TotalOf(Unpacked(balances[t])) = 0
    BY <1>4, IsZeroIgnoresTheBlock DEF MinimalDeregisterTokens, MinimalIInv, MinimalStorageOK,
         MinimalLedger!TotalOf, Unpacked
  <2>2. MinimalBar' = [t \in tokens \ toks |-> MinimalBar[t]]
    BY <1>4 DEF MinimalDeregisterTokens, MinimalBar, MinimalIInv, MinimalStorageOK
  <2>3. MinimalLedger!Deregister(toks)
    BY <1>4, <2>1, <2>2 DEF MinimalDeregisterTokens, MinimalLedger!Deregister,
         MinimalLedger!Registered, MinimalBar
  <2>4. QED
    BY <2>3 DEF MinimalLedger!Next
<1>5. ASSUME NEW tokenIn \in Tokens, NEW tokenOut \in Tokens, MinimalCallOnSwap(tokenIn, tokenOut)
      PROVE  UNCHANGED <<block, MinimalBar>>
  BY <1>5 DEF MinimalCallOnSwap, MinimalBar
<1>6. ASSUME NEW amountIn \in Amounts, NEW amountOut \in Amounts,
             MinimalOnSwapReturned(amountIn, amountOut)
      PROVE  MinimalLedger!Next
  <2> DEFINE in == ChangeCash(Unpacked(call.balanceIn), amountIn, block)
             out == ChangeCash(Unpacked(call.balanceOut), -amountOut, block)
             T == {call.tokenIn, call.tokenOut}
             new == [t \in T |-> IF t = call.tokenIn THEN in ELSE out]
             old == [t \in T |-> IF t = call.tokenIn THEN MinimalLedger!Moved(MinimalBar[t], amountIn, 0)
                                                     ELSE MinimalLedger!Moved(MinimalBar[t], -amountOut, 0)]
  <2>1. /\ call.tokenIn # call.tokenOut /\ T \in SUBSET tokens
        /\ call.balanceIn = balances[call.tokenIn] /\ call.balanceOut = balances[call.tokenOut]
        /\ call.balanceIn \in Nat /\ call.balanceOut \in Nat
    BY <1>6 DEF MinimalOnSwapReturned, MinimalIInv, MinimalStorageOK, MinimalCallOK,
         MinimalReadIsCurrent
  <2>2. in \in Balance /\ out \in Balance
    <3>1. amountIn \in Int /\ -amountOut \in Int /\ block \in Nat
      BY <1>6, PoolAssumption DEF MinimalIInv, MinimalStorageOK
    <3>2. Unpacked(call.balanceIn) \in Balance /\ Unpacked(call.balanceOut) \in Balance
      BY <2>1, UnpackedIsBalance
    <3>3. QED
      BY <3>1, <3>2, Mutations
  <2>3. new \in [T -> Balance] /\ \A t \in T : Fits(new[t])
    BY <1>6, <2>2 DEF MinimalOnSwapReturned
  <2>4. balances' = [t \in Tokens |-> IF t \in T THEN ToBalance(new[t]) ELSE balances[t]]
    BY <1>6, <2>1 DEF MinimalOnSwapReturned, MinimalIInv, MinimalStorageOK
  <2>5. \A t \in T : MinimalBar[t] = Unpacked(IF t = call.tokenIn THEN call.balanceIn ELSE call.balanceOut)
    BY <2>1 DEF MinimalBar
  <2>6. \A t \in T : old[t] =
           [cash |-> new[t].cash, managed |-> new[t].managed, changed |-> MinimalBar[t].changed]
    BY <2>1, <2>2, <2>5 DEF MinimalLedger!Moved, ChangeCash, Balance
  <2>7. \A t \in T : new[t].changed = block
    BY DEF ChangeCash
  <2>8. MinimalLedger!Write(old, TRUE)
    <3> HIDE DEF new, old, T
    <3>1. DOMAIN old = T
      BY DEF old
    <3>2. QED
      BY <1>6, <2>1, <2>3, <2>4, <2>6, <2>7, <3>1, RecordedWriteRefines DEF MinimalOnSwapReturned
  <2>9. MinimalLedger!Swap(call.tokenIn, call.tokenOut, amountIn, amountOut)
    BY <2>1, <2>8 DEF MinimalLedger!Swap, MinimalLedger!Registered, MinimalBar
  <2>10. QED
    BY <1>6, <2>1, <2>9 DEF MinimalLedger!Next, MinimalIInv, MinimalStorageOK
<1>7. CASE MinimalCallOnJoinOrExit
  BY <1>7 DEF MinimalCallOnJoinOrExit, MinimalBar
<1>8. ASSUME call.fn = "joinOrExit",
             NEW difference \in [DOMAIN call.balances -> Differences],
             MinimalOnJoinOrExitReturned(difference)
      PROVE  MinimalLedger!Next
  <2> DEFINE new == [t \in tokens |-> ChangeCash(Unpacked(balances[t]), difference[t], block)]
             old == [t \in tokens |-> MinimalLedger!Moved(MinimalBar[t], difference[t], 0)]
  <2>1. call.balances = [t \in tokens |-> balances[t]]
    BY <1>8 DEF MinimalIInv, MinimalStorageOK, MinimalCallOK, MinimalReadIsCurrent
  <2>2. DOMAIN call.balances = tokens
    BY <2>1
  <2>3. new \in [tokens -> Balance]
    <3>1. \A d \in Differences : d \in Int
      <4>1. \A n \in Amounts : n \in Int /\ -n \in Int
        BY PoolAssumption
      <4>2. QED
        BY <4>1 DEF Differences
    <3>2. \A t \in tokens : difference[t] \in Int
      BY <1>8, <2>2, <3>1
    <3>3. \A t \in tokens : Unpacked(balances[t]) \in Balance
      BY UnpackedIsBalance DEF MinimalIInv, MinimalStorageOK
    <3>4. block \in Nat
      BY DEF MinimalIInv, MinimalStorageOK
    <3>5. QED
      BY <3>2, <3>3, <3>4, Mutations
  <2>4. /\ \A t \in tokens : Fits(new[t])
        /\ balances' = [t \in Tokens |-> IF t \in tokens THEN ToBalance(new[t]) ELSE balances[t]]
    BY <1>8, <2>1, <2>2 DEF MinimalOnJoinOrExitReturned
  <2>5. \A t \in tokens : old[t] =
           [cash |-> new[t].cash, managed |-> new[t].managed, changed |-> MinimalBar[t].changed]
    BY <2>3 DEF MinimalLedger!Moved, ChangeCash, Balance, MinimalBar
  <2>6. \A t \in tokens : new[t].changed = block
    BY DEF ChangeCash
  <2>7. MinimalLedger!Write(old, TRUE)
    <3> HIDE DEF new, old
    <3>1. DOMAIN old = tokens /\ tokens \in SUBSET tokens
      BY DEF old
    <3>2. QED
      BY <1>8, <2>3, <2>4, <2>5, <2>6, <3>1, RecordedWriteRefines DEF MinimalOnJoinOrExitReturned
  <2>8. tokens # {}
    BY <1>8 DEF MinimalIInv, MinimalStorageOK, MinimalCallOK, MinimalReadIsCurrent
  <2>9. MinimalLedger!JoinOrExit(difference)
    BY <1>8, <2>2, <2>7, <2>8 DEF MinimalLedger!JoinOrExit, MinimalLedger!Registered, MinimalBar
  <2>10. QED
    BY <1>8, <2>2, <2>9 DEF MinimalLedger!Next, MinimalLedger!Registered,
         MinimalLedger!Differences, Differences, MinimalBar
<1>9. CASE MinimalRevert
  BY <1>9 DEF MinimalRevert, MinimalBar
<1>11. ASSUME NEW t \in Tokens, NEW n \in Amounts, MinimalWithdrawPoolBalance(t, n)
      PROVE  MinimalLedger!Next
  <2> DEFINE new == [u \in {t} |-> CashToManaged(Unpacked(balances[t]), n)]
             old == [u \in {t} |-> MinimalLedger!Moved(MinimalBar[t], -n, n)]
  <2>1. t \in tokens /\ UNCHANGED <<block, tokens>>
    BY <1>11 DEF MinimalWithdrawPoolBalance, MinimalUpdate
  <2>2. Unpacked(balances[t]) \in Balance /\ n \in Int /\ -n \in Int /\ block \in Nat
    BY <1>11, UnpackedIsBalance, PoolAssumption DEF MinimalIInv, MinimalStorageOK
  <2>3. new \in [{t} -> Balance]
    BY <2>2, Mutations
  <2>4. /\ \A u \in {t} : Fits(new[u])
        /\ balances' = [u \in Tokens |-> IF u \in {t} THEN ToBalance(new[u]) ELSE balances[u]]
    BY <1>11 DEF MinimalWithdrawPoolBalance, MinimalUpdate, MinimalIInv, MinimalStorageOK
  <2>5. MinimalBar[t] = Unpacked(balances[t])
    BY <2>1 DEF MinimalBar
  <2>6. \A u \in {t} : old[u] =
           [cash |-> new[u].cash, managed |-> new[u].managed, changed |-> MinimalBar[u].changed]
    BY <2>2, <2>5 DEF MinimalLedger!Moved, CashToManaged, Balance
  <2>7. \A u \in {t} : new[u].changed = MinimalBar[u].changed
    BY <2>5 DEF CashToManaged
  <2>8. MinimalLedger!Write(old, FALSE)
    <3> HIDE DEF new, old
    <3>1. DOMAIN old = {t}
      BY DEF old
    <3>2. QED
      BY <2>1, <2>3, <2>4, <2>6, <2>7, <3>1, UnrecordedWriteRefines
  <2>9. MinimalLedger!Withdraw(t, n)
    BY <2>1, <2>8 DEF MinimalLedger!Withdraw, MinimalLedger!Registered, MinimalBar
  <2>10. QED
    BY <1>11, <2>9 DEF MinimalLedger!Next
<1>12. ASSUME NEW t \in Tokens, NEW n \in Amounts, MinimalDepositPoolBalance(t, n)
      PROVE  MinimalLedger!Next
  <2> DEFINE new == [u \in {t} |-> CashToManaged(Unpacked(balances[t]), -n)]
             old == [u \in {t} |-> MinimalLedger!Moved(MinimalBar[t], n, -n)]
  <2>1. t \in tokens /\ UNCHANGED <<block, tokens>>
    BY <1>12 DEF MinimalDepositPoolBalance, MinimalUpdate
  <2>2. Unpacked(balances[t]) \in Balance /\ n \in Int /\ -n \in Int /\ block \in Nat
    BY <1>12, UnpackedIsBalance, PoolAssumption DEF MinimalIInv, MinimalStorageOK
  <2>3. new \in [{t} -> Balance]
    BY <2>2, Mutations
  <2>4. /\ \A u \in {t} : Fits(new[u])
        /\ balances' = [u \in Tokens |-> IF u \in {t} THEN ToBalance(new[u]) ELSE balances[u]]
    BY <1>12 DEF MinimalDepositPoolBalance, MinimalUpdate, MinimalIInv, MinimalStorageOK
  <2>5. MinimalBar[t] = Unpacked(balances[t])
    BY <2>1 DEF MinimalBar
  <2>6. \A u \in {t} : old[u] =
           [cash |-> new[u].cash, managed |-> new[u].managed, changed |-> MinimalBar[u].changed]
    BY <2>2, <2>5 DEF MinimalLedger!Moved, CashToManaged, Balance
  <2>7. \A u \in {t} : new[u].changed = MinimalBar[u].changed
    BY <2>5 DEF CashToManaged
  <2>8. MinimalLedger!Write(old, FALSE)
    <3> HIDE DEF new, old
    <3>1. DOMAIN old = {t}
      BY DEF old
    <3>2. QED
      BY <2>1, <2>3, <2>4, <2>6, <2>7, <3>1, UnrecordedWriteRefines
  <2>9. MinimalLedger!Deposit(t, n)
    BY <2>1, <2>8 DEF MinimalLedger!Deposit, MinimalLedger!Registered, MinimalBar
  <2>10. QED
    BY <1>12, <2>9 DEF MinimalLedger!Next
<1>13. ASSUME NEW t \in Tokens, NEW n \in Amounts, MinimalUpdateManagedBalance(t, n)
      PROVE  MinimalLedger!Next
  <2> DEFINE new == [u \in {t} |-> SetManaged(Unpacked(balances[t]), n, block)]
             old == [u \in {t} |-> [MinimalBar[t] EXCEPT !.managed = n]]
  <2>1. t \in tokens /\ UNCHANGED <<block, tokens>>
    BY <1>13 DEF MinimalUpdateManagedBalance, MinimalUpdate
  <2>2. Unpacked(balances[t]) \in Balance /\ n \in Int /\ -n \in Int /\ block \in Nat
    BY <1>13, UnpackedIsBalance, PoolAssumption DEF MinimalIInv, MinimalStorageOK
  <2>3. new \in [{t} -> Balance]
    BY <2>2, Mutations
  <2>4. /\ \A u \in {t} : Fits(new[u])
        /\ balances' = [u \in Tokens |-> IF u \in {t} THEN ToBalance(new[u]) ELSE balances[u]]
    BY <1>13 DEF MinimalUpdateManagedBalance, MinimalUpdate, MinimalIInv, MinimalStorageOK
  <2>5. MinimalBar[t] = Unpacked(balances[t])
    BY <2>1 DEF MinimalBar
  <2>6. \A u \in {t} : old[u] =
           [cash |-> new[u].cash, managed |-> new[u].managed, changed |-> MinimalBar[u].changed]
    BY <2>2, <2>5 DEF MinimalLedger!Moved, SetManaged, Balance
  <2>7. \A u \in {t} : new[u].changed = block
    BY <2>5 DEF SetManaged
  <2>8. MinimalLedger!Write(old, TRUE)
    <3> HIDE DEF new, old
    <3>1. DOMAIN old = {t}
      BY DEF old
    <3>2. QED
      BY <2>1, <2>3, <2>4, <2>6, <2>7, <3>1, RecordedWriteRefines
  <2>9. MinimalLedger!Report(t, n)
    BY <2>1, <2>8 DEF MinimalLedger!Report, MinimalLedger!Registered, MinimalBar
  <2>10. QED
    BY <1>13, <2>9 DEF MinimalLedger!Next
<1>14. QED
  BY <1>1, <1>2, <1>3, <1>4, <1>5, <1>6, <1>7, <1>8, <1>9, <1>11, <1>12, <1>13 DEF MinimalNext

\* Each step records the changes of totals, in the ledger that the layout stands for.
LEMMA MinimalStepIsRecorded ==
    ASSUME MinimalIInv, [MinimalLedger!Next]_<<block, MinimalBar>>
    PROVE  Recorded(MinimalBar, MinimalBar', block)
<1>1. block \in Nat
  BY DEF MinimalIInv, MinimalStorageOK
<1>2. Dated(MinimalBar, block)
  BY UnpackedIsBalance DEF Dated, MinimalBar, MinimalIInv, MinimalStorageOK
<1>3. \A t \in DOMAIN MinimalBar : MinimalBar[t] \in Balance
  BY <1>2 DEF Dated
<1>4. ASSUME NEW new, NEW recorded \in BOOLEAN, MinimalLedger!Write(new, recorded),
             \A t \in DOMAIN new :
                /\ new[t] \in Balance
                /\ recorded \/ (new[t].changed = MinimalBar[t].changed /\ Total(new[t]) = Total(MinimalBar[t]))
      PROVE  Recorded(MinimalBar, MinimalBar', block)
  <2>1. MinimalBar' = [t \in DOMAIN MinimalBar |->
                   LET e == IF t \in DOMAIN new THEN new[t] ELSE MinimalBar[t]
                   IN IF recorded /\ (t \in DOMAIN new \/ FALSE)
                      THEN [e EXCEPT !.changed = block] ELSE e]
    BY <1>4 DEF MinimalLedger!Write, MinimalLedger!Registered, MinimalBar
  <2> QED  BY <1>1, <1>2, <1>4, <2>1, WriteIsRecorded
<1>5. ASSUME \A t \in DOMAIN MinimalBar \cap DOMAIN MinimalBar' : MinimalBar'[t] = MinimalBar[t]
      PROVE  Recorded(MinimalBar, MinimalBar', block)
  BY <1>3, <1>5 DEF Recorded, Balance
<1>6. CASE UNCHANGED MinimalBar
  BY <1>5, <1>6
<1>7. ASSUME NEW toks, MinimalLedger!Register(toks) PROVE Recorded(MinimalBar, MinimalBar', block)
  <2>1. /\ toks \cap DOMAIN MinimalBar = {}
        /\ MinimalBar' = [t \in DOMAIN MinimalBar \cup toks |-> IF t \in toks THEN MinimalLedger!Empty ELSE MinimalBar[t]]
    BY <1>7 DEF MinimalLedger!Register, MinimalLedger!Registered, MinimalBar
  <2> QED  BY <1>5, <2>1
<1>8. ASSUME NEW toks, MinimalLedger!Deregister(toks) PROVE Recorded(MinimalBar, MinimalBar', block)
  <2>1. MinimalBar' = [t \in DOMAIN MinimalBar \ toks |-> MinimalBar[t]]
    BY <1>8 DEF MinimalLedger!Deregister, MinimalLedger!Registered, MinimalBar
  <2> QED  BY <1>5, <2>1
<1>9. ASSUME NEW t \in DOMAIN MinimalBar, NEW cash \in Int, NEW managed \in Int
      PROVE  /\ MinimalLedger!Moved(MinimalBar[t], cash, managed) \in Balance
             /\ cash + managed = 0 => LET new == MinimalLedger!Moved(MinimalBar[t], cash, managed)
                                      IN new.changed = MinimalBar[t].changed /\ Total(new) = Total(MinimalBar[t])
  BY <1>3 DEF MinimalLedger!Moved, Balance, Total
<1>10. \A n \in Amounts : n \in Int /\ -n \in Int /\ n + (-n) = 0 /\ (-n) + n = 0
  BY PoolAssumption
<1>11. ASSUME NEW tokenIn, NEW tokenOut, NEW amountIn \in Amounts, NEW amountOut \in Amounts,
              MinimalLedger!Swap(tokenIn, tokenOut, amountIn, amountOut)
       PROVE  Recorded(MinimalBar, MinimalBar', block)
  <2> DEFINE minus == -amountOut
             new == [t \in {tokenIn, tokenOut} |->
                        IF t = tokenIn THEN MinimalLedger!Moved(MinimalBar[t], amountIn, 0)
                                       ELSE MinimalLedger!Moved(MinimalBar[t], minus, 0)]
  <2>1. {tokenIn, tokenOut} \subseteq DOMAIN MinimalBar /\ MinimalLedger!Write(new, TRUE)
    BY <1>11 DEF MinimalLedger!Swap, MinimalLedger!Registered, MinimalBar
  <2>2. amountIn \in Int /\ minus \in Int /\ 0 \in Int
    BY <1>10
  <2> HIDE DEF minus
  <2>3. \A t \in DOMAIN new : new[t] \in Balance
    BY <1>9, <2>1, <2>2
  <2> HIDE DEF new
  <2> QED  BY <1>4, <2>1, <2>3
<1>12. ASSUME NEW difference \in [DOMAIN MinimalBar -> MinimalLedger!Differences], MinimalLedger!JoinOrExit(difference)
       PROVE  Recorded(MinimalBar, MinimalBar', block)
  <2> DEFINE new == [t \in DOMAIN MinimalBar |-> MinimalLedger!Moved(MinimalBar[t], difference[t], 0)]
  <2>1. MinimalLedger!Write(new, TRUE)
    BY <1>12 DEF MinimalLedger!JoinOrExit, MinimalLedger!Registered, MinimalBar
  <2>2. \A t \in DOMAIN MinimalBar : difference[t] \in Int
    BY <1>10 DEF MinimalLedger!Differences
  <2>3. \A t \in DOMAIN new : new[t] \in Balance
    <3> TAKE t \in DOMAIN MinimalBar
    <3> DEFINE d == difference[t]
    <3>1. d \in Int /\ 0 \in Int /\ new[t] = MinimalLedger!Moved(MinimalBar[t], d, 0)
      BY <2>2
    <3> HIDE DEF d
    <3> QED  BY <1>9, <3>1
  <2> HIDE DEF new
  <2> QED  BY <1>4, <2>1, <2>3
<1>13. ASSUME NEW t, NEW n \in Amounts, MinimalLedger!Withdraw(t, n) \/ MinimalLedger!Deposit(t, n)
       PROVE  Recorded(MinimalBar, MinimalBar', block)
  <2> DEFINE minus == -n
             new(x, y) == [u \in {t} |-> MinimalLedger!Moved(MinimalBar[t], x, y)]
  <2>1. t \in DOMAIN MinimalBar /\ (MinimalLedger!Write(new(minus, n), FALSE) \/ MinimalLedger!Write(new(n, minus), FALSE))
    BY <1>13 DEF MinimalLedger!Withdraw, MinimalLedger!Deposit, MinimalLedger!Registered, MinimalBar
  <2>2. n \in Int /\ minus \in Int /\ minus + n = 0 /\ n + minus = 0
    BY <1>10
  <2> HIDE DEF minus
  <2>3. ASSUME NEW x \in Int, NEW y \in Int, x + y = 0, MinimalLedger!Write(new(x, y), FALSE)
        PROVE  Recorded(MinimalBar, MinimalBar', block)
    <3> DEFINE one == new(x, y)
    <3>1. \A u \in DOMAIN one : /\ one[u] \in Balance /\ one[u].changed = MinimalBar[u].changed
                                /\ Total(one[u]) = Total(MinimalBar[u])
      BY <1>9, <2>1, <2>3
    <3> HIDE DEF one
    <3> QED  BY <1>4, <2>3, <3>1 DEF one
  <2> HIDE DEF new
  <2> QED  BY <2>1, <2>2, <2>3
<1>14. ASSUME NEW t, NEW n \in Amounts, MinimalLedger!Report(t, n)
       PROVE  Recorded(MinimalBar, MinimalBar', block)
  <2> DEFINE new == [u \in {t} |-> [MinimalBar[t] EXCEPT !.managed = n]]
  <2>1. t \in DOMAIN MinimalBar /\ MinimalLedger!Write(new, TRUE)
    BY <1>14 DEF MinimalLedger!Report, MinimalLedger!Registered, MinimalBar
  <2>2. \A u \in DOMAIN new : new[u] \in Balance
    BY <1>3, <1>10, <2>1 DEF Balance
  <2> HIDE DEF new
  <2> QED  BY <1>4, <2>1, <2>2
<1>15. CASE MinimalLedger!NewBlock
  BY <1>6, <1>15 DEF MinimalLedger!NewBlock, MinimalBar
<1> QED
  BY <1>6, <1>7, <1>8, <1>11, <1>12, <1>13, <1>14, <1>15
     DEF MinimalLedger!Next, MinimalLedger!Registered, MinimalBar

\* The Minimal Swap Info layout implements the PoolLedger.
THEOREM MinimalRefinement == MinimalSpec => MinimalKeepsLedger
BY MinimalInitIInv, MinimalInvariance, MinimalStepRefines, PTL DEF MinimalSpec,
     MinimalKeepsLedger, MinimalLedger!Spec, MinimalLedger!vars, MinimalBar

-----------------------------------------------------------------------------
(* Two Token layout: what is stored *)

Words == [sharedCash : Nat, sharedManaged : Nat]
NoWords == [sharedCash |-> 0, sharedManaged |-> 0]

\* A pair's words: two balances that fit, of a block so far; no block is stored
\* with the managed balances.
WordsOK(pair) ==
    /\ Fits(BalanceA(pair)) /\ Fits(BalanceB(pair))
    /\ BalanceA(pair).changed <= block
    /\ Most(pairBalances[pair].sharedManaged) = 0

\* Both tokens or none, the lower address first.
PairOK ==
    \/ tokenA = NoToken /\ tokenB = NoToken
    \/ tokenA \in Tokens /\ tokenB \in Tokens /\ tokenA < tokenB

\* A pair that is not the registered one has no words at all, blocks included: that is
\* what lets a pair start anew.
OthersAreEmpty ==
    \A pair \in Pairs : tokenA = NoToken \/ pair # <<tokenA, tokenB>> => pairBalances[pair] = NoWords

\* What is stored, between any two steps.
TwoTokenStorageOK ==
    /\ block \in 1..MaxBlock
    /\ PairOK
    /\ pairBalances \in [Pairs -> Words]
    /\ \A pair \in Pairs : WordsOK(pair)
    /\ OthersAreEmpty

\* What a hook that is running was called with.
TwoTokenCallOK == TwoTokenReadIsCurrent /\ (call.fn = "swap" => call.inIsA \in BOOLEAN)

TwoTokenIInv == TwoTokenStorageOK /\ TwoTokenCallOK

\* What getPoolTokens tells.
TwoTokenBar == [t \in {u \in Tokens : IsRegistered(u)} |-> BalanceOf(t)]

-----------------------------------------------------------------------------
(* Two Token layout: lemmas *)

\* What is read of a pair are two balances with one block.
LEMMA PairBalances ==
    ASSUME TwoTokenStorageOK, NEW pair \in Pairs
    PROVE  /\ pairBalances[pair].sharedCash \in Nat /\ pairBalances[pair].sharedManaged \in Nat
           /\ BalanceA(pair) \in Balance /\ BalanceB(pair) \in Balance
           /\ BalanceA(pair).changed = BalanceB(pair).changed
           /\ BalanceA(pair).changed \in 0..block
<1>1. pairBalances[pair].sharedCash \in Nat /\ pairBalances[pair].sharedManaged \in Nat
  BY DEF TwoTokenStorageOK, Words
<1>2. /\ Least(pairBalances[pair].sharedCash) \in Nat /\ Mid(pairBalances[pair].sharedCash) \in Nat
      /\ Most(pairBalances[pair].sharedCash) \in Nat
      /\ Least(pairBalances[pair].sharedManaged) \in Nat /\ Mid(pairBalances[pair].sharedManaged) \in Nat
  BY <1>1, WordFields
<1>3. BalanceA(pair).changed <= block /\ block \in Nat
  BY DEF TwoTokenStorageOK, WordsOK
<1> QED
  BY <1>1, <1>2, <1>3
     DEF BalanceA, BalanceB, FromSharedToBalanceA, FromSharedToBalanceB, Balance

\* The words of nothing.
LEMMA NoWordsAreEmpty ==
    ASSUME NEW pair, pairBalances[pair] = NoWords
    PROVE  /\ BalanceA(pair) = [cash |-> 0, managed |-> 0, changed |-> 0]
           /\ BalanceB(pair) = [cash |-> 0, managed |-> 0, changed |-> 0]
           /\ IsZero(pairBalances[pair].sharedCash) /\ IsZero(pairBalances[pair].sharedManaged)
<1>1. IsZero(0)
  BY IsZeroIgnoresTheBlock, ZeroWord
<1> QED
  BY <1>1, ZeroWord DEF NoWords, BalanceA, BalanceB, FromSharedToBalanceA, FromSharedToBalanceB

\* What is stored stays right while other blocks come.
LEMMA TwoTokenStorageStays ==
    ASSUME TwoTokenStorageOK, UNCHANGED <<tokenA, tokenB, pairBalances>>, block' \in 1..MaxBlock, block <= block'
    PROVE  TwoTokenStorageOK'
<1>1. \A pair \in Pairs : WordsOK(pair)'
  <2> TAKE pair \in Pairs
  <2>1. WordsOK(pair) /\ BalanceA(pair).changed \in Nat
    BY PairBalances DEF TwoTokenStorageOK
  <2>2. BalanceA(pair)' = BalanceA(pair) /\ BalanceB(pair)' = BalanceB(pair)
    BY DEF BalanceA, BalanceB
  <2>3. block \in Nat /\ block' \in Nat
    BY DEF TwoTokenStorageOK
  <2> QED  BY <2>1, <2>2, <2>3 DEF WordsOK
<1> QED  BY <1>1 DEF TwoTokenStorageOK, PairOK, OthersAreEmpty

\* A pair that the getter accepts is the registered one.
LEMMA FoundIsRegistered ==
    ASSUME TwoTokenIInv, NEW x \in Tokens, NEW y \in Tokens, x # y, TwoTokenFound(Sorted(x, y))
    PROVE  /\ tokenA \in Tokens /\ tokenB \in Tokens
           /\ Sorted(x, y) = <<tokenA, tokenB>> /\ {x, y} = {tokenA, tokenB}
<1> DEFINE pair == Sorted(x, y)
<1>1. pair \in Pairs /\ (pair = <<x, y>> \/ pair = <<y, x>>)
  BY DEF Sorted, Pairs
<1>2. x \in Nat /\ y \in Nat /\ x # NoToken /\ y # NoToken
  BY PoolAssumption
<1>3. CASE pairBalances[pair] = NoWords
  <2>1. IsRegistered(x) /\ IsRegistered(y)
    BY <1>1, <1>3, NoWordsAreEmpty DEF TwoTokenFound
  <2>2. tokenA \in Tokens /\ tokenB \in Tokens /\ tokenA < tokenB /\ {x, y} = {tokenA, tokenB}
    BY <2>1, <1>2 DEF TwoTokenIInv, TwoTokenStorageOK, PairOK, IsRegistered
  <2>3. tokenA \in Nat /\ tokenB \in Nat
    BY <2>2, PoolAssumption
  <2>4. (x = tokenA /\ y = tokenB) \/ (x = tokenB /\ y = tokenA)
    BY <2>2
  <2> QED  BY <1>2, <2>2, <2>3, <2>4 DEF Sorted
<1>4. CASE pairBalances[pair] # NoWords
  <2>1. tokenA # NoToken /\ pair = <<tokenA, tokenB>>
    BY <1>1, <1>4 DEF TwoTokenIInv, TwoTokenStorageOK, OthersAreEmpty
  <2>2. tokenA \in Tokens /\ tokenB \in Tokens
    BY <2>1 DEF TwoTokenIInv, TwoTokenStorageOK, PairOK
  <2>3. {x, y} = {tokenA, tokenB}
    BY <1>1, <2>1
  <2> QED  BY <2>1, <2>2, <2>3
<1> QED  BY <1>3, <1>4

\* Two balances in the words of the registered pair.
Writes(a, b) ==
    pairBalances' = [pairBalances EXCEPT ![<<tokenA, tokenB>>] =
        [sharedCash |-> ToSharedCash(a, b), sharedManaged |-> ToSharedManaged(a, b)]]

Stamped(a, b, e) == [cash |-> e.cash, managed |-> e.managed, changed |-> Later(a, b)]

\* What is written is what is read next, and the invariant holds.
LEMMA WritesKeepIInv ==
    ASSUME TwoTokenIInv, tokenA # NoToken, UNCHANGED <<block, tokenA, tokenB>>, call' = NoCall,
           NEW a \in Balance, NEW b \in Balance, Fits(a), Fits(b),
           a.changed <= block, b.changed <= block, Writes(a, b)
    PROVE  /\ TwoTokenIInv'
           /\ TwoTokenBar' = [t \in {tokenA, tokenB} |-> IF t = tokenA THEN Stamped(a, b, a) ELSE Stamped(a, b, b)]
<1> DEFINE pair == <<tokenA, tokenB>>
<1>1. tokenA \in Tokens /\ tokenB \in Tokens /\ tokenA < tokenB /\ pair \in Pairs
  BY DEF TwoTokenIInv, TwoTokenStorageOK, PairOK, Pairs
<1>2. tokenA \in Nat /\ tokenB \in Nat /\ tokenA # NoToken /\ tokenB # NoToken /\ tokenA # tokenB
  BY <1>1, PoolAssumption
<1>3. /\ pairBalances'[pair].sharedCash = ToSharedCash(a, b)
      /\ pairBalances'[pair].sharedManaged = ToSharedManaged(a, b)
      /\ pairBalances'[pair] \in Words
  BY <1>1, SharedWords DEF Writes, TwoTokenIInv, TwoTokenStorageOK, Words
<1>4. \A p \in Pairs : p # pair => pairBalances'[p] = pairBalances[p]
  BY DEF Writes, TwoTokenIInv, TwoTokenStorageOK
<1>5. pairBalances' \in [Pairs -> Words]
  BY <1>1, <1>3 DEF Writes, TwoTokenIInv, TwoTokenStorageOK
<1>6. /\ BalanceA(pair)' = Stamped(a, b, a) /\ BalanceB(pair)' = Stamped(a, b, b)
      /\ Most(pairBalances'[pair].sharedManaged) = 0
  BY <1>3, SharedWords
     DEF BalanceA, BalanceB, FromSharedToBalanceA, FromSharedToBalanceB, Stamped
<1>7. WordsOK(pair)'
  <2>1. Fits(Stamped(a, b, a)) /\ Fits(Stamped(a, b, b)) /\ Later(a, b) <= block
    BY DEF Fits, Total, Stamped, Later
  <2> QED  BY <1>6, <2>1 DEF WordsOK, Stamped
<1>8. \A p \in Pairs : WordsOK(p)'
  <2>1. \A p \in Pairs : p # pair => WordsOK(p)'
    BY <1>4 DEF TwoTokenIInv, TwoTokenStorageOK, WordsOK, BalanceA, BalanceB
  <2> QED  BY <1>7, <2>1
<1>9. OthersAreEmpty'
  BY <1>4 DEF TwoTokenIInv, TwoTokenStorageOK, OthersAreEmpty, Pairs
<1>10. TwoTokenIInv'
  BY <1>1, <1>5, <1>8, <1>9 DEF TwoTokenIInv, TwoTokenStorageOK, TwoTokenCallOK, PairOK,
       TwoTokenReadIsCurrent, NoCall
<1>11. {u \in Tokens : IsRegistered(u)'} = {tokenA, tokenB}
  BY <1>1, <1>2 DEF IsRegistered
<1> QED  BY <1>6, <1>10, <1>11 DEF TwoTokenBar, BalanceOf

-----------------------------------------------------------------------------
(* Two Token layout: steps *)

\* The two entries of the ledger.
LEMMA RegisteredPair ==
    ASSUME TwoTokenIInv, tokenA # NoToken
    PROVE  /\ tokenA \in Tokens /\ tokenB \in Tokens /\ tokenA # tokenB
           /\ <<tokenA, tokenB>> \in Pairs
           /\ {u \in Tokens : IsRegistered(u)} = {tokenA, tokenB}
           /\ TwoTokenBar = [t \in {tokenA, tokenB} |-> IF t = tokenA THEN BalanceA(<<tokenA, tokenB>>)
                                                              ELSE BalanceB(<<tokenA, tokenB>>)]
<1>1. tokenA \in Tokens /\ tokenB \in Tokens /\ tokenA < tokenB /\ <<tokenA, tokenB>> \in Pairs
  BY DEF TwoTokenIInv, TwoTokenStorageOK, PairOK, Pairs
<1>2. tokenA \in Nat /\ tokenB \in Nat /\ tokenA # NoToken /\ tokenB # NoToken /\ tokenA # tokenB
  BY <1>1, PoolAssumption
<1>3. {u \in Tokens : IsRegistered(u)} = {tokenA, tokenB}
  BY <1>1, <1>2 DEF IsRegistered
<1> QED  BY <1>1, <1>2, <1>3 DEF TwoTokenBar, BalanceOf

\* Before the first call.
LEMMA TwoTokenInitIInv == TwoTokenInit => TwoTokenIInv /\ TwoTokenLedger!Init
<1> SUFFICES ASSUME TwoTokenInit PROVE TwoTokenIInv /\ TwoTokenLedger!Init
  OBVIOUS
<1>1. \A pair \in Pairs : pairBalances[pair] = NoWords
  BY DEF TwoTokenInit, NoWords
<1>2. \A pair \in Pairs : WordsOK(pair)
  BY <1>1, NoWordsAreEmpty, ZeroWord, LimitAssumption
     DEF WordsOK, TwoTokenInit, NoWords, Fits, Total
<1>3. TwoTokenIInv
  BY <1>1, <1>2, PoolAssumption
     DEF TwoTokenInit, TwoTokenIInv, TwoTokenStorageOK, TwoTokenCallOK, PairOK, Words,
          OthersAreEmpty, TwoTokenReadIsCurrent, NoCall
<1>4. TwoTokenBar = [t \in {} |-> TwoTokenLedger!Empty]
  BY DEF TwoTokenBar, IsRegistered, TwoTokenInit
<1> QED  BY <1>3, <1>4 DEF TwoTokenLedger!Init, TwoTokenInit, TwoTokenBar

\* Writing two balances of this block is a recorded write of the ledger.
LEMMA RecordedWrite ==
    ASSUME TwoTokenIInv, tokenA # NoToken, UNCHANGED <<block, tokenA, tokenB>>, call' = NoCall,
           NEW a \in Balance, NEW b \in Balance, Fits(a), Fits(b), Writes(a, b),
           a.changed <= block, b.changed <= block, Later(a, b) = block,
           NEW old, DOMAIN old \subseteq {tokenA, tokenB},
           \A t \in DOMAIN old : LET e == IF t = tokenA THEN a ELSE b
                                 IN old[t] = [cash |-> e.cash, managed |-> e.managed,
                                              changed |-> TwoTokenBar[t].changed],
           \A t \in {tokenA, tokenB} \ DOMAIN old :
              LET e == IF t = tokenA THEN a ELSE b
              IN TwoTokenBar[t] = [cash |-> e.cash, managed |-> e.managed, changed |-> TwoTokenBar[t].changed]
    PROVE  TwoTokenIInv' /\ TwoTokenLedger!Write(old, TRUE)
<1> DEFINE new(t) == IF t = tokenA THEN Stamped(a, b, a) ELSE Stamped(a, b, b)
<1>1. TwoTokenIInv' /\ TwoTokenBar' = [t \in {tokenA, tokenB} |-> new(t)]
  BY WritesKeepIInv
<1>2. DOMAIN TwoTokenBar = {tokenA, tokenB}
  BY RegisteredPair
<1>3. \A t \in DOMAIN old : TwoTokenLedger!Sound(old[t])
  BY DEF TwoTokenLedger!Sound, TwoTokenLedger!TotalOf, Fits, Total
<1>4. \A t \in {tokenA, tokenB} :
         new(t) = [(IF t \in DOMAIN old THEN old[t] ELSE TwoTokenBar[t]) EXCEPT !.changed = block]
  <2> TAKE t \in {tokenA, tokenB}
  <2> DEFINE e == IF t = tokenA THEN a ELSE b
             was == IF t \in DOMAIN old THEN old[t] ELSE TwoTokenBar[t]
  <2>1. was = [cash |-> e.cash, managed |-> e.managed, changed |-> TwoTokenBar[t].changed]
    OBVIOUS
  <2>2. new(t) = [cash |-> e.cash, managed |-> e.managed, changed |-> block]
    BY DEF Stamped
  <2> HIDE DEF was, new, e
  <2>3. new(t) = [was EXCEPT !.changed = block]
    BY <2>1, <2>2
  <2> QED  BY <2>3 DEF was
<1> QED  BY <1>1, <1>2, <1>3, <1>4 DEF TwoTokenLedger!Write, TwoTokenLedger!Registered, TwoTokenBar

\* Writing one balance of the same block is a write that is not recorded.
LEMMA UnrecordedWrite ==
    ASSUME TwoTokenIInv, tokenA # NoToken, UNCHANGED <<block, tokenA, tokenB>>, call' = NoCall,
           NEW a \in Balance, NEW b \in Balance, Fits(a), Fits(b), Writes(a, b),
           a.changed = b.changed, a.changed <= block,
           NEW old, DOMAIN old \subseteq {tokenA, tokenB},
           \A u \in DOMAIN old : old[u] = IF u = tokenA THEN a ELSE b,
           \A u \in {tokenA, tokenB} \ DOMAIN old : TwoTokenBar[u] = IF u = tokenA THEN a ELSE b
    PROVE  TwoTokenIInv' /\ TwoTokenLedger!Write(old, FALSE)
<1> DEFINE e(u) == IF u = tokenA THEN Stamped(a, b, a) ELSE Stamped(a, b, b)
<1>1. TwoTokenIInv' /\ TwoTokenBar' = [u \in {tokenA, tokenB} |-> e(u)]
  BY WritesKeepIInv
<1>2. DOMAIN TwoTokenBar = {tokenA, tokenB}
  BY RegisteredPair
<1>3. \A u \in DOMAIN old : TwoTokenLedger!Sound(old[u])
  BY DEF TwoTokenLedger!Sound, TwoTokenLedger!TotalOf, Fits, Total
<1>4. \A u \in {tokenA, tokenB} : e(u) = IF u \in DOMAIN old THEN old[u] ELSE TwoTokenBar[u]
  BY DEF Stamped, Later, Balance
<1> QED  BY <1>1, <1>2, <1>3, <1>4 DEF TwoTokenLedger!Write, TwoTokenLedger!Registered, TwoTokenBar

\* The pair appears at zero.
LEMMA TwoTokenRegisterTokensRefines ==
    ASSUME TwoTokenIInv, NEW x \in Tokens, NEW y \in Tokens, TwoTokenRegisterTokens(x, y)
    PROVE  TwoTokenIInv' /\ TwoTokenLedger!Next
<1>1. /\ tokenA = NoToken /\ tokenB = NoToken /\ tokenA' = x /\ tokenB' = y /\ x < y
      /\ UNCHANGED <<block, pairBalances, call>> /\ call = NoCall
  BY DEF TwoTokenRegisterTokens, Idle
<1>2. x \in Nat /\ y \in Nat /\ x # NoToken /\ y # NoToken /\ <<x, y>> \in Pairs
  BY PoolAssumption DEF Pairs
<1>3. \A pair \in Pairs : pairBalances[pair] = NoWords /\ WordsOK(pair)'
  BY <1>1 DEF TwoTokenIInv, TwoTokenStorageOK, OthersAreEmpty, WordsOK, BalanceA, BalanceB
<1>4. TwoTokenIInv'
  BY <1>1, <1>3 DEF TwoTokenIInv, TwoTokenStorageOK, TwoTokenCallOK, PairOK, OthersAreEmpty,
       TwoTokenReadIsCurrent, NoCall
<1>5. TwoTokenBar = [t \in {} |-> TwoTokenLedger!Empty]
  BY <1>1 DEF TwoTokenBar, IsRegistered
<1>6. /\ BalanceA(<<x, y>>)' = TwoTokenLedger!Empty /\ BalanceB(<<x, y>>)' = TwoTokenLedger!Empty
  BY <1>1, <1>2, <1>3, NoWordsAreEmpty DEF TwoTokenLedger!Empty, BalanceA, BalanceB
<1>7. {u \in Tokens : IsRegistered(u)'} = {x, y}
  BY <1>1, <1>2 DEF IsRegistered
<1>8. TwoTokenBar' = [t \in {x, y} |-> TwoTokenLedger!Empty]
  BY <1>1, <1>6, <1>7 DEF TwoTokenBar, BalanceOf
<1>9. TwoTokenLedger!Register({x, y})
  BY <1>1, <1>5, <1>8 DEF TwoTokenLedger!Register, TwoTokenLedger!Registered, TwoTokenBar
<1>10. {x, y} \in SUBSET Tokens
  OBVIOUS
<1> QED  BY <1>4, <1>9, <1>10 DEF TwoTokenLedger!Next

\* The pair disappears at zero, and its words with it.
LEMMA TwoTokenDeregisterTokensRefines ==
    ASSUME TwoTokenIInv, DistinctTokens, NEW x \in Tokens, NEW y \in Tokens, TwoTokenDeregisterTokens(x, y)
    PROVE  TwoTokenIInv' /\ TwoTokenLedger!Next
<1> DEFINE pair == <<tokenA, tokenB>>
<1>1. /\ Sorted(x, y) = pair /\ {x, y} = {tokenA, tokenB}
      /\ tokenA \in Tokens /\ tokenB \in Tokens /\ pair \in Pairs
      /\ tokenA' = NoToken /\ tokenB' = NoToken /\ UNCHANGED <<block, call>> /\ call = NoCall
  BY FoundIsRegistered DEF TwoTokenDeregisterTokens, Idle, Pairs
<1>2. tokenA # NoToken
  BY <1>1, PoolAssumption
<1>3. /\ pairBalances[pair] \in Words /\ Most(pairBalances[pair].sharedManaged) = 0
      /\ IsZero(pairBalances[pair].sharedCash) /\ IsZero(pairBalances[pair].sharedManaged)
      /\ pairBalances' = [pairBalances EXCEPT ![pair].sharedCash = 0]
  BY <1>1 DEF TwoTokenIInv, TwoTokenStorageOK, WordsOK, TwoTokenDeregisterTokens
<1>4. pairBalances[pair].sharedManaged = 0
  BY <1>3, OnlyZeroIsEmpty DEF Words
<1>5. pairBalances'[pair] = NoWords
  BY <1>1, <1>3, <1>4 DEF Words, NoWords, TwoTokenIInv, TwoTokenStorageOK
<1>6. /\ \A p \in Pairs : pairBalances'[p] = NoWords
      /\ pairBalances' \in [Pairs -> Words]
  BY <1>1, <1>3, <1>5 DEF TwoTokenIInv, TwoTokenStorageOK, OthersAreEmpty, NoWords, Words
<1>7. \A p \in Pairs : WordsOK(p)'
  <2> TAKE p \in Pairs
  <2>1. /\ BalanceA(p)' = [cash |-> 0, managed |-> 0, changed |-> 0]
        /\ BalanceB(p)' = [cash |-> 0, managed |-> 0, changed |-> 0]
        /\ Most(pairBalances'[p].sharedManaged) = 0
    BY <1>6, ZeroWord
       DEF NoWords, BalanceA, BalanceB, FromSharedToBalanceA, FromSharedToBalanceB
  <2> QED  BY <1>1, <2>1, LimitAssumption DEF WordsOK, Fits, Total, TwoTokenIInv, TwoTokenStorageOK
<1>8. TwoTokenIInv'
  BY <1>1, <1>6, <1>7 DEF TwoTokenIInv, TwoTokenStorageOK, TwoTokenCallOK, PairOK,
       OthersAreEmpty, TwoTokenReadIsCurrent, NoCall
<1>9. Least(pairBalances[pair].sharedCash) = 0 /\ Mid(pairBalances[pair].sharedCash) = 0
  BY <1>3, IsZeroIgnoresTheBlock DEF Words
<1>10. \A t \in {tokenA, tokenB} : TwoTokenLedger!TotalOf(TwoTokenBar[t]) = 0
  BY <1>2, <1>4, <1>9, RegisteredPair, ZeroWord
     DEF TwoTokenLedger!TotalOf, BalanceA, BalanceB, FromSharedToBalanceA, FromSharedToBalanceB
<1>11. DOMAIN TwoTokenBar = {tokenA, tokenB}
  BY <1>2, RegisteredPair
<1>12. TwoTokenBar' = [t \in DOMAIN TwoTokenBar \ {x, y} |-> TwoTokenBar[t]]
  BY <1>1, <1>11 DEF TwoTokenBar, IsRegistered
<1>13. TwoTokenLedger!Deregister({x, y})
  BY <1>1, <1>10, <1>11, <1>12 DEF TwoTokenLedger!Deregister, TwoTokenLedger!Registered, TwoTokenBar
<1>14. {x, y} \in SUBSET Tokens
  OBVIOUS
<1> QED  BY <1>8, <1>13, <1>14 DEF TwoTokenLedger!Next

\* What is read before a hook of a swap is remembered; the ledger stays.
LEMMA TwoTokenCallOnSwapRefines ==
    ASSUME TwoTokenIInv, NEW x \in Tokens, NEW y \in Tokens, TwoTokenCallOnSwap(x, y)
    PROVE  TwoTokenIInv' /\ UNCHANGED <<block, TwoTokenBar>>
<1>1. Sorted(x, y) = <<tokenA, tokenB>> /\ tokenA \in Tokens /\ x # y
  BY FoundIsRegistered DEF TwoTokenCallOnSwap
<1>2. tokenA # NoToken /\ x \in Nat /\ y \in Nat
  BY <1>1, PoolAssumption
<1>3. UNCHANGED <<block, TwoTokenBar>>
  BY DEF TwoTokenCallOnSwap, TwoTokenBar, IsRegistered, BalanceOf, BalanceA, BalanceB
<1>4. TwoTokenReadIsCurrent'
  BY <1>1, <1>2 DEF TwoTokenCallOnSwap, TwoTokenReadIsCurrent, BalanceA, BalanceB
<1>5. call'.inIsA \in BOOLEAN
  BY <1>1, <1>2 DEF TwoTokenCallOnSwap
<1> QED
  BY <1>3, <1>4, <1>5
     DEF TwoTokenCallOnSwap, TwoTokenIInv, TwoTokenStorageOK, TwoTokenCallOK, PairOK, WordsOK,
          OthersAreEmpty, BalanceA, BalanceB

\* The same of a join or exit.
LEMMA TwoTokenCallOnJoinOrExitRefines ==
    ASSUME TwoTokenIInv, TwoTokenCallOnJoinOrExit
    PROVE  TwoTokenIInv' /\ UNCHANGED <<block, TwoTokenBar>>
<1>1. UNCHANGED <<block, TwoTokenBar>>
  BY DEF TwoTokenCallOnJoinOrExit, TwoTokenBar, IsRegistered, BalanceOf, BalanceA, BalanceB
<1>2. TwoTokenReadIsCurrent'
  BY DEF TwoTokenCallOnJoinOrExit, TwoTokenReadIsCurrent, BalanceA, BalanceB
<1> QED
  BY <1>1, <1>2
     DEF TwoTokenCallOnJoinOrExit, TwoTokenIInv, TwoTokenStorageOK, TwoTokenCallOK, PairOK,
          WordsOK, OthersAreEmpty, BalanceA, BalanceB

WritesCash(a, b) == pairBalances' = [pairBalances EXCEPT ![call.pair].sharedCash = ToSharedCash(a, b)]

\* The words of the cash alone are written after a swap, join or exit: the managed
\* balances would be the same.
LEMMA CashWrites ==
    ASSUME TwoTokenIInv, call # NoCall, NEW n, n \in Int, NEW m, m \in Int,
           NEW a, a = ChangeCash(call.balanceA, n, block),
           NEW b, b = ChangeCash(call.balanceB, m, block), Fits(a), Fits(b),
           WritesCash(a, b)
    PROVE  /\ tokenA # NoToken /\ a \in Balance /\ b \in Balance /\ Writes(a, b)
           /\ a.changed = block /\ b.changed = block /\ Later(a, b) = block
           /\ TwoTokenBar[tokenA] = [cash |-> a.cash - n, managed |-> a.managed, changed |-> TwoTokenBar[tokenA].changed]
           /\ TwoTokenBar[tokenB] = [cash |-> b.cash - m, managed |-> b.managed, changed |-> TwoTokenBar[tokenB].changed]
<1> DEFINE pair == <<tokenA, tokenB>>
<1>1. /\ tokenA # NoToken /\ call.pair = pair
      /\ call.balanceA = BalanceA(pair) /\ call.balanceB = BalanceB(pair)
  BY DEF TwoTokenIInv, TwoTokenStorageOK, TwoTokenCallOK, TwoTokenReadIsCurrent
<1>2. pair \in Pairs /\ block \in Nat
  BY <1>1, RegisteredPair DEF TwoTokenIInv, TwoTokenStorageOK
<1>3. /\ BalanceA(pair) \in Balance /\ BalanceB(pair) \in Balance
      /\ pairBalances[pair].sharedManaged \in Nat
  BY <1>2, PairBalances DEF TwoTokenIInv
<1>4. a \in Balance /\ b \in Balance
  BY <1>1, <1>2, <1>3, Mutations
<1>5. a.changed = block /\ b.changed = block /\ Later(a, b) = block
  BY DEF ChangeCash, Later
<1>6. /\ a.managed = Least(pairBalances[pair].sharedManaged)
      /\ b.managed = Mid(pairBalances[pair].sharedManaged)
      /\ Most(pairBalances[pair].sharedManaged) = 0
  BY <1>1, <1>2
     DEF ChangeCash, BalanceA, BalanceB, FromSharedToBalanceA, FromSharedToBalanceB,
          TwoTokenIInv, TwoTokenStorageOK, WordsOK
<1>7. pairBalances[pair].sharedManaged = ToSharedManaged(a, b)
  BY <1>3, <1>6, WordFields DEF ToSharedManaged
<1>8. pairBalances[pair] \in Words
  BY <1>2 DEF TwoTokenIInv, TwoTokenStorageOK
<1>9. [pairBalances[pair] EXCEPT !.sharedCash = ToSharedCash(a, b)] =
        [sharedCash |-> ToSharedCash(a, b), sharedManaged |-> ToSharedManaged(a, b)]
  BY <1>7, <1>8 DEF Words
<1>10. Writes(a, b)
  BY <1>1, <1>9 DEF Writes, WritesCash
<1>11. /\ TwoTokenBar[tokenA] = BalanceA(pair) /\ TwoTokenBar[tokenB] = BalanceB(pair)
  BY <1>1, RegisteredPair
<1>12. /\ a.cash = BalanceA(pair).cash + n /\ a.managed = BalanceA(pair).managed
       /\ b.cash = BalanceB(pair).cash + m /\ b.managed = BalanceB(pair).managed
  BY <1>1 DEF ChangeCash
<1>13. /\ TwoTokenBar[tokenA] = [cash |-> a.cash - n, managed |-> a.managed, changed |-> TwoTokenBar[tokenA].changed]
       /\ TwoTokenBar[tokenB] = [cash |-> b.cash - m, managed |-> b.managed, changed |-> TwoTokenBar[tokenB].changed]
  BY <1>3, <1>11, <1>12 DEF Balance
<1> QED  BY <1>1, <1>4, <1>5, <1>10, <1>13

\* A swap changes the ledger when its hook returns.
LEMMA TwoTokenOnSwapReturnedRefines ==
    ASSUME TwoTokenIInv, NEW amountIn \in Amounts, NEW amountOut \in Amounts,
           TwoTokenOnSwapReturned(amountIn, amountOut)
    PROVE  TwoTokenIInv' /\ TwoTokenLedger!Next
<1> DEFINE minus == -amountOut
           n == IF call.inIsA THEN amountIn ELSE minus
           m == IF call.inIsA THEN minus ELSE amountIn
           a == ChangeCash(call.balanceA, n, block)
           b == ChangeCash(call.balanceB, m, block)
           in == IF call.inIsA THEN tokenA ELSE tokenB
           out == IF call.inIsA THEN tokenB ELSE tokenA
           old == [t \in {in, out} |-> IF t = in THEN TwoTokenLedger!Moved(TwoTokenBar[t], amountIn, 0)
                                                 ELSE TwoTokenLedger!Moved(TwoTokenBar[t], minus, 0)]
<1>1. /\ call.fn = "swap" /\ call # NoCall /\ call' = NoCall /\ call.inIsA \in BOOLEAN
      /\ Fits(a) /\ Fits(b) /\ UNCHANGED <<block, tokenA, tokenB>>
      /\ WritesCash(a, b)
  BY DEF TwoTokenOnSwapReturned, WritesCash, NoCall, TwoTokenIInv, TwoTokenStorageOK, TwoTokenCallOK
<1>2. amountIn \in Int /\ minus \in Int
  BY PoolAssumption
<1> HIDE DEF minus
<1>3. n \in Int /\ m \in Int
  BY <1>2
<1>4. a = ChangeCash(call.balanceA, n, block) /\ b = ChangeCash(call.balanceB, m, block)
  OBVIOUS
<1> HIDE DEF a, b, n, m
<1>5. /\ tokenA # NoToken /\ a \in Balance /\ b \in Balance /\ Writes(a, b)
      /\ a.changed = block /\ b.changed = block /\ Later(a, b) = block
      /\ TwoTokenBar[tokenA] = [cash |-> a.cash - n, managed |-> a.managed, changed |-> TwoTokenBar[tokenA].changed]
      /\ TwoTokenBar[tokenB] = [cash |-> b.cash - m, managed |-> b.managed, changed |-> TwoTokenBar[tokenB].changed]
  BY <1>1, <1>3, <1>4, CashWrites
<1>6. tokenA \in Tokens /\ tokenB \in Tokens /\ tokenA # tokenB /\ DOMAIN TwoTokenBar = {tokenA, tokenB}
  BY <1>5, RegisteredPair
<1>7. in # out /\ {in, out} = {tokenA, tokenB}
  BY <1>1, <1>6
<1>8. DOMAIN old = {tokenA, tokenB}
  BY <1>7
<1>9. \A t \in DOMAIN old : old[t] = TwoTokenLedger!Moved(TwoTokenBar[t], IF t = tokenA THEN n ELSE m, 0)
  BY <1>1, <1>6 DEF n, m
<1> HIDE DEF old
<1>10. \A t \in DOMAIN old : LET e == IF t = tokenA THEN a ELSE b
                             IN old[t] = [cash |-> e.cash, managed |-> e.managed,
                                          changed |-> TwoTokenBar[t].changed]
  <2>1. old[tokenA] = [cash |-> a.cash, managed |-> a.managed, changed |-> TwoTokenBar[tokenA].changed]
    BY <1>3, <1>5, <1>8, <1>9 DEF TwoTokenLedger!Moved, Balance
  <2>2. old[tokenB] = [cash |-> b.cash, managed |-> b.managed, changed |-> TwoTokenBar[tokenB].changed]
    BY <1>3, <1>5, <1>6, <1>8, <1>9 DEF TwoTokenLedger!Moved, Balance
  <2> QED  BY <1>6, <1>8, <2>1, <2>2
<1>11. block <= block
  BY DEF TwoTokenIInv, TwoTokenStorageOK
<1>12. TwoTokenIInv' /\ TwoTokenLedger!Write(old, TRUE)
  BY <1>1, <1>5, <1>8, <1>10, <1>11, RecordedWrite
<1>13. TwoTokenLedger!Swap(in, out, amountIn, amountOut)
  BY <1>6, <1>7, <1>12 DEF TwoTokenLedger!Swap, TwoTokenLedger!Registered, TwoTokenBar, old, minus
<1>14. in \in Tokens /\ out \in Tokens
  BY <1>6
<1> QED  BY <1>12, <1>13, <1>14 DEF TwoTokenLedger!Next

\* And so does a join or exit.
LEMMA TwoTokenOnJoinOrExitReturnedRefines ==
    ASSUME TwoTokenIInv, NEW differenceA \in Differences, NEW differenceB \in Differences,
           TwoTokenOnJoinOrExitReturned(differenceA, differenceB)
    PROVE  TwoTokenIInv' /\ TwoTokenLedger!Next
<1> DEFINE a == ChangeCash(call.balanceA, differenceA, block)
           b == ChangeCash(call.balanceB, differenceB, block)
           difference == [t \in {tokenA, tokenB} |-> IF t = tokenA THEN differenceA ELSE differenceB]
           old == [t \in {tokenA, tokenB} |-> TwoTokenLedger!Moved(TwoTokenBar[t], difference[t], 0)]
<1>1. /\ call.fn = "joinOrExit" /\ call # NoCall /\ call' = NoCall
      /\ Fits(a) /\ Fits(b) /\ UNCHANGED <<block, tokenA, tokenB>>
      /\ WritesCash(a, b)
  BY DEF TwoTokenOnJoinOrExitReturned, WritesCash, NoCall
<1>2. \A n \in Amounts : n \in Int /\ -n \in Int
  BY PoolAssumption
<1>3. differenceA \in Int /\ differenceB \in Int
  BY <1>2 DEF Differences
<1>4. a = ChangeCash(call.balanceA, differenceA, block) /\ b = ChangeCash(call.balanceB, differenceB, block)
  OBVIOUS
<1> HIDE DEF a, b
<1>5. /\ tokenA # NoToken /\ a \in Balance /\ b \in Balance /\ Writes(a, b)
      /\ a.changed = block /\ b.changed = block /\ Later(a, b) = block
      /\ TwoTokenBar[tokenA] = [cash |-> a.cash - differenceA, managed |-> a.managed,
                        changed |-> TwoTokenBar[tokenA].changed]
      /\ TwoTokenBar[tokenB] = [cash |-> b.cash - differenceB, managed |-> b.managed,
                        changed |-> TwoTokenBar[tokenB].changed]
  BY <1>1, <1>3, <1>4, CashWrites
<1>6. tokenA \in Tokens /\ tokenB \in Tokens /\ tokenA # tokenB /\ DOMAIN TwoTokenBar = {tokenA, tokenB}
  BY <1>5, RegisteredPair
<1>7. DOMAIN old = {tokenA, tokenB}
  OBVIOUS
<1>8. /\ old[tokenA] = TwoTokenLedger!Moved(TwoTokenBar[tokenA], differenceA, 0)
      /\ old[tokenB] = TwoTokenLedger!Moved(TwoTokenBar[tokenB], differenceB, 0)
  BY <1>6
<1>9. old = [t \in {tokenA, tokenB} |-> TwoTokenLedger!Moved(TwoTokenBar[t], difference[t], 0)]
  OBVIOUS
<1> HIDE DEF old
<1>10. \A t \in DOMAIN old : LET e == IF t = tokenA THEN a ELSE b
                             IN old[t] = [cash |-> e.cash, managed |-> e.managed,
                                          changed |-> TwoTokenBar[t].changed]
  <2>1. old[tokenA] = [cash |-> a.cash, managed |-> a.managed, changed |-> TwoTokenBar[tokenA].changed]
    BY <1>3, <1>5, <1>8 DEF TwoTokenLedger!Moved, Balance
  <2>2. old[tokenB] = [cash |-> b.cash, managed |-> b.managed, changed |-> TwoTokenBar[tokenB].changed]
    BY <1>3, <1>5, <1>8 DEF TwoTokenLedger!Moved, Balance
  <2> QED  BY <1>6, <1>7, <2>1, <2>2
<1>11. block <= block
  BY DEF TwoTokenIInv, TwoTokenStorageOK
<1>12. TwoTokenIInv' /\ TwoTokenLedger!Write(old, TRUE)
  BY <1>1, <1>5, <1>7, <1>10, <1>11, RecordedWrite
<1>13. difference \in [{tokenA, tokenB} -> Differences]
  OBVIOUS
<1> HIDE DEF difference
<1>14. TwoTokenLedger!JoinOrExit(difference)
  BY <1>6, <1>9, <1>12, <1>13 DEF TwoTokenLedger!JoinOrExit, TwoTokenLedger!Registered, TwoTokenBar
<1>15. \E d \in [DOMAIN TwoTokenBar -> TwoTokenLedger!Differences] : TwoTokenLedger!JoinOrExit(d)
  BY <1>6, <1>13, <1>14 DEF TwoTokenLedger!Differences, Differences
<1> QED  BY <1>12, <1>15 DEF TwoTokenLedger!Next, TwoTokenLedger!Registered, TwoTokenBar

\* An operation of the asset manager writes both words, of both balances.
LEMMA UpdateWrites ==
    ASSUME TwoTokenIInv, NEW t \in Tokens, NEW new, TwoTokenUpdate(t, new, OtherBalance(t))
    PROVE  /\ tokenA # NoToken /\ t \in {tokenA, tokenB} /\ tokenA # tokenB
           /\ UNCHANGED <<block, tokenA, tokenB>> /\ call' = NoCall /\ Fits(new)
           /\ BalanceOf(t) \in Balance /\ OtherBalance(t) \in Balance /\ Fits(OtherBalance(t))
           /\ TwoTokenBar[t] = BalanceOf(t) /\ \A u \in {tokenA, tokenB} \ {t} : TwoTokenBar[u] = OtherBalance(t)
           /\ BalanceOf(t).changed = OtherBalance(t).changed /\ OtherBalance(t).changed \in 0..block
           /\ Writes(IF t = tokenA THEN new ELSE OtherBalance(t),
                     IF t = tokenA THEN OtherBalance(t) ELSE new)
           /\ DOMAIN TwoTokenBar = {tokenA, tokenB}
<1>1. t \in {tokenA, tokenB} /\ t # NoToken /\ Fits(new) /\ call' = NoCall
      /\ UNCHANGED <<block, tokenA, tokenB>>
  BY DEF TwoTokenUpdate, IsRegistered, Idle
<1>2. tokenA # NoToken
  <2>1. \A u \in Tokens : u # NoToken
    BY PoolAssumption
  <2> QED  BY <1>1, <2>1 DEF TwoTokenIInv, TwoTokenStorageOK, PairOK
<1>3. tokenA # tokenB /\ <<tokenA, tokenB>> \in Pairs
  BY <1>2, RegisteredPair
<1>4. /\ BalanceOf(t) \in Balance /\ OtherBalance(t) \in Balance
      /\ BalanceOf(t).changed = OtherBalance(t).changed /\ OtherBalance(t).changed \in 0..block
  BY <1>3, PairBalances DEF BalanceOf, OtherBalance, TwoTokenIInv
<1>5. Fits(OtherBalance(t))
  BY <1>3 DEF OtherBalance, TwoTokenIInv, TwoTokenStorageOK, WordsOK
<1>6. TwoTokenBar[t] = BalanceOf(t) /\ \A u \in {tokenA, tokenB} \ {t} : TwoTokenBar[u] = OtherBalance(t)
  BY <1>1, <1>2, <1>3, RegisteredPair DEF BalanceOf, OtherBalance
<1>7. Writes(IF t = tokenA THEN new ELSE OtherBalance(t), IF t = tokenA THEN OtherBalance(t) ELSE new)
  BY DEF TwoTokenUpdate, Writes
<1>8. DOMAIN TwoTokenBar = {tokenA, tokenB}
  BY <1>2, RegisteredPair
<1> QED  BY <1>1, <1>2, <1>3, <1>4, <1>5, <1>6, <1>7, <1>8

\* What goes from the cash to the manager, or comes back, leaves the block of the last change.
LEMMA TwoTokenTransferRefines ==
    ASSUME TwoTokenIInv, NEW t \in Tokens, NEW n \in Int,
           TwoTokenUpdate(t, CashToManaged(BalanceOf(t), n), OtherBalance(t))
    PROVE  /\ TwoTokenIInv' /\ t \in DOMAIN TwoTokenBar
           /\ TwoTokenLedger!Write([u \in {t} |-> CashToManaged(TwoTokenBar[t], n)], FALSE)
<1> DEFINE new == CashToManaged(BalanceOf(t), n)
           other == OtherBalance(t)
           a == IF t = tokenA THEN new ELSE other
           b == IF t = tokenA THEN other ELSE new
<1>1. /\ tokenA # NoToken /\ t \in {tokenA, tokenB} /\ tokenA # tokenB
      /\ UNCHANGED <<block, tokenA, tokenB>> /\ call' = NoCall /\ Fits(new)
      /\ BalanceOf(t) \in Balance /\ other \in Balance /\ Fits(other)
      /\ TwoTokenBar[t] = BalanceOf(t) /\ \A u \in {tokenA, tokenB} \ {t} : TwoTokenBar[u] = other
      /\ BalanceOf(t).changed = other.changed /\ other.changed \in 0..block
      /\ Writes(a, b) /\ DOMAIN TwoTokenBar = {tokenA, tokenB}
  BY UpdateWrites
<1>2. new \in Balance /\ new.changed = other.changed
  <2>1. new \in Balance
    BY <1>1, Mutations DEF TwoTokenIInv, TwoTokenStorageOK
  <2> QED  BY <1>1, <2>1 DEF CashToManaged
<1>3. new = CashToManaged(TwoTokenBar[t], n)
  BY <1>1
<1>4. block \in Nat
  BY DEF TwoTokenIInv, TwoTokenStorageOK
<1> HIDE DEF new, other
<1>5. /\ a \in Balance /\ b \in Balance /\ Fits(a) /\ Fits(b)
      /\ a.changed = b.changed /\ a.changed <= block
      /\ (IF t = tokenA THEN a ELSE b) = new
      /\ \A u \in {tokenA, tokenB} \ {t} : (IF u = tokenA THEN a ELSE b) = TwoTokenBar[u]
  BY <1>1, <1>2, <1>4
<1> DEFINE old == [u \in {t} |-> new]
<1>6. /\ DOMAIN old \subseteq {tokenA, tokenB}
      /\ \A u \in DOMAIN old : old[u] = IF u = tokenA THEN a ELSE b
      /\ \A u \in {tokenA, tokenB} \ DOMAIN old : TwoTokenBar[u] = IF u = tokenA THEN a ELSE b
  BY <1>1, <1>5
<1> HIDE DEF a, b, old
<1>7. TwoTokenIInv' /\ TwoTokenLedger!Write(old, FALSE)
  BY <1>1, <1>5, <1>6, UnrecordedWrite
<1> QED  BY <1>1, <1>3, <1>7 DEF old

\* A report of the manager is recorded, for the other token too.
LEMMA TwoTokenReportRefines ==
    ASSUME TwoTokenIInv, NEW t \in Tokens, NEW n \in Int,
           TwoTokenUpdate(t, SetManaged(BalanceOf(t), n, block), OtherBalance(t))
    PROVE  TwoTokenIInv' /\ TwoTokenLedger!Report(t, n)
<1> DEFINE new == SetManaged(BalanceOf(t), n, block)
           other == OtherBalance(t)
           a == IF t = tokenA THEN new ELSE other
           b == IF t = tokenA THEN other ELSE new
           old == [u \in {t} |-> [TwoTokenBar[t] EXCEPT !.managed = n]]
<1>1. /\ tokenA # NoToken /\ t \in {tokenA, tokenB} /\ tokenA # tokenB
      /\ UNCHANGED <<block, tokenA, tokenB>> /\ call' = NoCall /\ Fits(new)
      /\ BalanceOf(t) \in Balance /\ other \in Balance /\ Fits(other)
      /\ TwoTokenBar[t] = BalanceOf(t) /\ \A u \in {tokenA, tokenB} \ {t} : TwoTokenBar[u] = other
      /\ BalanceOf(t).changed = other.changed /\ other.changed \in 0..block
      /\ Writes(a, b) /\ DOMAIN TwoTokenBar = {tokenA, tokenB}
  BY UpdateWrites
<1>2. block \in Nat
  BY DEF TwoTokenIInv, TwoTokenStorageOK
<1>3. new \in Balance /\ new.changed = block
  BY <1>1, <1>2, Mutations DEF SetManaged
<1>4. old[t] = [cash |-> new.cash, managed |-> new.managed, changed |-> TwoTokenBar[t].changed]
  BY <1>1 DEF SetManaged, Balance
<1>5. other = [cash |-> other.cash, managed |-> other.managed, changed |-> other.changed]
  BY <1>1 DEF Balance
<1>6. DOMAIN old = {t}
  OBVIOUS
<1> HIDE DEF new, other, old
<1>7. /\ a \in Balance /\ b \in Balance /\ Fits(a) /\ Fits(b)
      /\ a.changed <= block /\ b.changed <= block
      /\ (IF t = tokenA THEN a ELSE b) = new
      /\ \A u \in {tokenA, tokenB} \ {t} : (IF u = tokenA THEN a ELSE b) = other
  BY <1>1, <1>2, <1>3
<1>8. Later(a, b) = block
  BY <1>1, <1>2, <1>3 DEF Later
<1> HIDE DEF a, b
<1>9. \A u \in DOMAIN old : LET e == IF u = tokenA THEN a ELSE b
                            IN old[u] = [cash |-> e.cash, managed |-> e.managed,
                                         changed |-> TwoTokenBar[u].changed]
  BY <1>4, <1>6, <1>7
<1>10. \A u \in {tokenA, tokenB} \ DOMAIN old :
          LET e == IF u = tokenA THEN a ELSE b
          IN TwoTokenBar[u] = [cash |-> e.cash, managed |-> e.managed, changed |-> TwoTokenBar[u].changed]
  BY <1>1, <1>5, <1>6, <1>7
<1>11. TwoTokenIInv' /\ TwoTokenLedger!Write(old, TRUE)
  BY <1>1, <1>6, <1>7, <1>8, <1>9, <1>10, RecordedWrite
<1> QED  BY <1>1, <1>11 DEF TwoTokenLedger!Report, TwoTokenLedger!Registered, TwoTokenBar, old

-----------------------------------------------------------------------------
(* Two Token layout: the invariant and the refinement *)

\* Each step keeps the invariant, and is a step of the PoolLedger or none at all.
LEMMA TwoTokenStepRefines ==
    TwoTokenIInv /\ DistinctTokens /\ [TwoTokenNext]_twoTokenVars => TwoTokenIInv' /\ [TwoTokenLedger!Next]_<<block, TwoTokenBar>>
<1> SUFFICES ASSUME TwoTokenIInv, DistinctTokens, [TwoTokenNext]_twoTokenVars
             PROVE  TwoTokenIInv' /\ [TwoTokenLedger!Next]_<<block, TwoTokenBar>>
  OBVIOUS
<1>1. ASSUME UNCHANGED <<tokenA, tokenB, pairBalances>>, block' \in 1..MaxBlock, block <= block',
             call' = NoCall
      PROVE  TwoTokenIInv' /\ UNCHANGED TwoTokenBar
  <2>1. TwoTokenIInv'
    BY <1>1, TwoTokenStorageStays DEF TwoTokenIInv, TwoTokenCallOK, TwoTokenReadIsCurrent, NoCall
  <2> QED  BY <1>1, <2>1 DEF TwoTokenBar, IsRegistered, BalanceOf, BalanceA, BalanceB
<1>2. CASE UNCHANGED twoTokenVars
  BY <1>2 DEF twoTokenVars, TwoTokenIInv, TwoTokenStorageOK, TwoTokenCallOK, PairOK, WordsOK,
       OthersAreEmpty, TwoTokenReadIsCurrent, BalanceA, BalanceB, TwoTokenBar,
              IsRegistered, BalanceOf
<1>3. CASE TwoTokenNewBlock
  <2>1. block' \in 1..MaxBlock /\ block <= block' /\ call' = NoCall
    BY <1>3, PoolAssumption DEF TwoTokenNewBlock, Idle, TwoTokenIInv, TwoTokenStorageOK
  <2>2. TwoTokenIInv' /\ UNCHANGED TwoTokenBar
    BY <1>1, <1>3, <2>1 DEF TwoTokenNewBlock
  <2> QED  BY <1>3, <2>2 DEF TwoTokenNewBlock, TwoTokenLedger!Next, TwoTokenLedger!NewBlock, TwoTokenBar
<1>4. CASE TwoTokenRevert
  <2>1. block' \in 1..MaxBlock /\ block <= block'
    BY <1>4 DEF TwoTokenRevert, TwoTokenIInv, TwoTokenStorageOK
  <2> QED  BY <1>1, <1>4, <2>1 DEF TwoTokenRevert
<1>5. ASSUME NEW x \in Tokens, NEW y \in Tokens,
             TwoTokenRegisterTokens(x, y) \/ TwoTokenDeregisterTokens(x, y) \/ TwoTokenCallOnSwap(x, y)
      PROVE  TwoTokenIInv' /\ [TwoTokenLedger!Next]_<<block, TwoTokenBar>>
  BY <1>5, TwoTokenRegisterTokensRefines, TwoTokenDeregisterTokensRefines, TwoTokenCallOnSwapRefines
<1>6. ASSUME NEW t \in Tokens, NEW n \in Amounts, TwoTokenWithdrawPoolBalance(t, n)
      PROVE  TwoTokenIInv' /\ TwoTokenLedger!Next
  <2>1. n \in Int
    BY PoolAssumption
  <2>2. /\ TwoTokenIInv' /\ t \in DOMAIN TwoTokenBar
        /\ TwoTokenLedger!Write([u \in {t} |-> CashToManaged(TwoTokenBar[t], n)], FALSE)
    BY <1>6, <2>1, TwoTokenTransferRefines DEF TwoTokenWithdrawPoolBalance
  <2>3. CashToManaged(TwoTokenBar[t], n) = TwoTokenLedger!Moved(TwoTokenBar[t], -n, n)
    <3>1. \E b \in Balance : TwoTokenBar[t] = b
      <4>1. tokenA # NoToken /\ t \in {tokenA, tokenB}
        BY <1>6, UpdateWrites DEF TwoTokenWithdrawPoolBalance
      <4> QED  BY <4>1, PairBalances, RegisteredPair DEF TwoTokenIInv
    <3> QED  BY <2>1, <3>1 DEF CashToManaged, TwoTokenLedger!Moved, Balance
  <2>4. TwoTokenLedger!Withdraw(t, n)
    BY <2>2, <2>3 DEF TwoTokenLedger!Withdraw, TwoTokenLedger!Registered, TwoTokenBar
  <2> QED  BY <2>2, <2>4 DEF TwoTokenLedger!Next
<1>7. ASSUME NEW t \in Tokens, NEW n \in Amounts, TwoTokenDepositPoolBalance(t, n)
      PROVE  TwoTokenIInv' /\ TwoTokenLedger!Next
  <2> DEFINE minus == -n
  <2>1. n \in Int /\ minus \in Int
    BY PoolAssumption
  <2>2. TwoTokenUpdate(t, CashToManaged(BalanceOf(t), minus), OtherBalance(t))
    BY <1>7 DEF TwoTokenDepositPoolBalance
  <2>3. CashToManaged(TwoTokenBar[t], minus) = TwoTokenLedger!Moved(TwoTokenBar[t], n, minus)
    <3>1. \E b \in Balance : TwoTokenBar[t] = b
      <4>1. tokenA # NoToken /\ t \in {tokenA, tokenB}
        BY <2>2, UpdateWrites
      <4> QED  BY <4>1, PairBalances, RegisteredPair DEF TwoTokenIInv
    <3> QED  BY <2>1, <3>1 DEF CashToManaged, TwoTokenLedger!Moved, Balance
  <2> HIDE DEF minus
  <2>4. /\ TwoTokenIInv' /\ t \in DOMAIN TwoTokenBar
        /\ TwoTokenLedger!Write([u \in {t} |-> CashToManaged(TwoTokenBar[t], minus)], FALSE)
    BY <2>1, <2>2, TwoTokenTransferRefines
  <2>5. TwoTokenLedger!Deposit(t, n)
    BY <2>3, <2>4 DEF TwoTokenLedger!Deposit, TwoTokenLedger!Registered, TwoTokenBar, minus
  <2> QED  BY <2>4, <2>5 DEF TwoTokenLedger!Next
<1>8. ASSUME NEW t \in Tokens, NEW n \in Amounts, TwoTokenUpdateManagedBalance(t, n)
      PROVE  TwoTokenIInv' /\ TwoTokenLedger!Next
  <2>1. n \in Int
    BY PoolAssumption
  <2>2. TwoTokenIInv' /\ TwoTokenLedger!Report(t, n)
    BY <1>8, <2>1, TwoTokenReportRefines DEF TwoTokenUpdateManagedBalance
  <2> QED  BY <2>2 DEF TwoTokenLedger!Next
<1> QED
  BY <1>2, <1>3, <1>4, <1>5, <1>6, <1>7, <1>8, TwoTokenCallOnJoinOrExitRefines,
       TwoTokenOnSwapReturnedRefines,
     TwoTokenOnJoinOrExitReturnedRefines DEF TwoTokenNext

\* Each step records the changes of totals, in the ledger that the layout stands for.
LEMMA TwoTokenStepIsRecorded ==
    ASSUME TwoTokenIInv, [TwoTokenLedger!Next]_<<block, TwoTokenBar>>
    PROVE  Recorded(TwoTokenBar, TwoTokenBar', block)
<1>1. block \in Nat
  BY DEF TwoTokenIInv, TwoTokenStorageOK
<1>2. Dated(TwoTokenBar, block)
  <2> SUFFICES ASSUME NEW t \in DOMAIN TwoTokenBar PROVE TwoTokenBar[t] \in Balance /\ TwoTokenBar[t].changed <= block
    BY DEF Dated
  <2>1. tokenA # NoToken
    BY PoolAssumption DEF TwoTokenBar, IsRegistered, TwoTokenIInv, TwoTokenStorageOK, PairOK
  <2>2. <<tokenA, tokenB>> \in Pairs /\ TwoTokenBar[t] \in {BalanceA(<<tokenA, tokenB>>), BalanceB(<<tokenA, tokenB>>)}
    BY <2>1, RegisteredPair
  <2> QED  BY <1>1, <2>2, PairBalances DEF TwoTokenIInv
<1>3. \A t \in DOMAIN TwoTokenBar : TwoTokenBar[t] \in Balance
  BY <1>2 DEF Dated
<1>4. ASSUME NEW new, NEW recorded \in BOOLEAN, TwoTokenLedger!Write(new, recorded),
             \A t \in DOMAIN new :
                /\ new[t] \in Balance
                /\ recorded \/ (new[t].changed = TwoTokenBar[t].changed /\ Total(new[t]) = Total(TwoTokenBar[t]))
      PROVE  Recorded(TwoTokenBar, TwoTokenBar', block)
  <2>1. TwoTokenBar' = [t \in DOMAIN TwoTokenBar |->
                   LET e == IF t \in DOMAIN new THEN new[t] ELSE TwoTokenBar[t]
                   IN IF recorded /\ (t \in DOMAIN new \/ TRUE)
                      THEN [e EXCEPT !.changed = block] ELSE e]
    BY <1>4 DEF TwoTokenLedger!Write, TwoTokenLedger!Registered, TwoTokenBar
  <2> QED  BY <1>1, <1>2, <1>4, <2>1, WriteIsRecorded
<1>5. ASSUME \A t \in DOMAIN TwoTokenBar \cap DOMAIN TwoTokenBar' : TwoTokenBar'[t] = TwoTokenBar[t]
      PROVE  Recorded(TwoTokenBar, TwoTokenBar', block)
  BY <1>3, <1>5 DEF Recorded, Balance
<1>6. CASE UNCHANGED TwoTokenBar
  BY <1>5, <1>6
<1>7. ASSUME NEW toks, TwoTokenLedger!Register(toks) PROVE Recorded(TwoTokenBar, TwoTokenBar', block)
  <2>1. /\ toks \cap DOMAIN TwoTokenBar = {}
        /\ TwoTokenBar' = [t \in DOMAIN TwoTokenBar \cup toks |-> IF t \in toks THEN TwoTokenLedger!Empty ELSE TwoTokenBar[t]]
    BY <1>7 DEF TwoTokenLedger!Register, TwoTokenLedger!Registered, TwoTokenBar
  <2> QED  BY <1>5, <2>1
<1>8. ASSUME NEW toks, TwoTokenLedger!Deregister(toks) PROVE Recorded(TwoTokenBar, TwoTokenBar', block)
  <2>1. TwoTokenBar' = [t \in DOMAIN TwoTokenBar \ toks |-> TwoTokenBar[t]]
    BY <1>8 DEF TwoTokenLedger!Deregister, TwoTokenLedger!Registered, TwoTokenBar
  <2> QED  BY <1>5, <2>1
<1>9. ASSUME NEW t \in DOMAIN TwoTokenBar, NEW cash \in Int, NEW managed \in Int
      PROVE  /\ TwoTokenLedger!Moved(TwoTokenBar[t], cash, managed) \in Balance
             /\ cash + managed = 0 => LET new == TwoTokenLedger!Moved(TwoTokenBar[t], cash, managed)
                                      IN new.changed = TwoTokenBar[t].changed /\ Total(new) = Total(TwoTokenBar[t])
  BY <1>3 DEF TwoTokenLedger!Moved, Balance, Total
<1>10. \A n \in Amounts : n \in Int /\ -n \in Int /\ n + (-n) = 0 /\ (-n) + n = 0
  BY PoolAssumption
<1>11. ASSUME NEW tokenIn, NEW tokenOut, NEW amountIn \in Amounts, NEW amountOut \in Amounts,
              TwoTokenLedger!Swap(tokenIn, tokenOut, amountIn, amountOut)
       PROVE  Recorded(TwoTokenBar, TwoTokenBar', block)
  <2> DEFINE minus == -amountOut
             new == [t \in {tokenIn, tokenOut} |->
                        IF t = tokenIn THEN TwoTokenLedger!Moved(TwoTokenBar[t], amountIn, 0)
                                       ELSE TwoTokenLedger!Moved(TwoTokenBar[t], minus, 0)]
  <2>1. {tokenIn, tokenOut} \subseteq DOMAIN TwoTokenBar /\ TwoTokenLedger!Write(new, TRUE)
    BY <1>11 DEF TwoTokenLedger!Swap, TwoTokenLedger!Registered, TwoTokenBar
  <2>2. amountIn \in Int /\ minus \in Int /\ 0 \in Int
    BY <1>10
  <2> HIDE DEF minus
  <2>3. \A t \in DOMAIN new : new[t] \in Balance
    BY <1>9, <2>1, <2>2
  <2> HIDE DEF new
  <2> QED  BY <1>4, <2>1, <2>3
<1>12. ASSUME NEW difference \in [DOMAIN TwoTokenBar -> TwoTokenLedger!Differences], TwoTokenLedger!JoinOrExit(difference)
       PROVE  Recorded(TwoTokenBar, TwoTokenBar', block)
  <2> DEFINE new == [t \in DOMAIN TwoTokenBar |-> TwoTokenLedger!Moved(TwoTokenBar[t], difference[t], 0)]
  <2>1. TwoTokenLedger!Write(new, TRUE)
    BY <1>12 DEF TwoTokenLedger!JoinOrExit, TwoTokenLedger!Registered, TwoTokenBar
  <2>2. \A t \in DOMAIN TwoTokenBar : difference[t] \in Int
    BY <1>10 DEF TwoTokenLedger!Differences
  <2>3. \A t \in DOMAIN new : new[t] \in Balance
    <3> TAKE t \in DOMAIN TwoTokenBar
    <3> DEFINE d == difference[t]
    <3>1. d \in Int /\ 0 \in Int /\ new[t] = TwoTokenLedger!Moved(TwoTokenBar[t], d, 0)
      BY <2>2
    <3> HIDE DEF d
    <3> QED  BY <1>9, <3>1
  <2> HIDE DEF new
  <2> QED  BY <1>4, <2>1, <2>3
<1>13. ASSUME NEW t, NEW n \in Amounts, TwoTokenLedger!Withdraw(t, n) \/ TwoTokenLedger!Deposit(t, n)
       PROVE  Recorded(TwoTokenBar, TwoTokenBar', block)
  <2> DEFINE minus == -n
             new(x, y) == [u \in {t} |-> TwoTokenLedger!Moved(TwoTokenBar[t], x, y)]
  <2>1. t \in DOMAIN TwoTokenBar /\ (TwoTokenLedger!Write(new(minus, n), FALSE) \/ TwoTokenLedger!Write(new(n, minus), FALSE))
    BY <1>13 DEF TwoTokenLedger!Withdraw, TwoTokenLedger!Deposit, TwoTokenLedger!Registered, TwoTokenBar
  <2>2. n \in Int /\ minus \in Int /\ minus + n = 0 /\ n + minus = 0
    BY <1>10
  <2> HIDE DEF minus
  <2>3. ASSUME NEW x \in Int, NEW y \in Int, x + y = 0, TwoTokenLedger!Write(new(x, y), FALSE)
        PROVE  Recorded(TwoTokenBar, TwoTokenBar', block)
    <3> DEFINE one == new(x, y)
    <3>1. \A u \in DOMAIN one : /\ one[u] \in Balance /\ one[u].changed = TwoTokenBar[u].changed
                                /\ Total(one[u]) = Total(TwoTokenBar[u])
      BY <1>9, <2>1, <2>3
    <3> HIDE DEF one
    <3> QED  BY <1>4, <2>3, <3>1 DEF one
  <2> HIDE DEF new
  <2> QED  BY <2>1, <2>2, <2>3
<1>14. ASSUME NEW t, NEW n \in Amounts, TwoTokenLedger!Report(t, n)
       PROVE  Recorded(TwoTokenBar, TwoTokenBar', block)
  <2> DEFINE new == [u \in {t} |-> [TwoTokenBar[t] EXCEPT !.managed = n]]
  <2>1. t \in DOMAIN TwoTokenBar /\ TwoTokenLedger!Write(new, TRUE)
    BY <1>14 DEF TwoTokenLedger!Report, TwoTokenLedger!Registered, TwoTokenBar
  <2>2. \A u \in DOMAIN new : new[u] \in Balance
    BY <1>3, <1>10, <2>1 DEF Balance
  <2> HIDE DEF new
  <2> QED  BY <1>4, <2>1, <2>2
<1>15. CASE TwoTokenLedger!NewBlock
  BY <1>6, <1>15 DEF TwoTokenLedger!NewBlock, TwoTokenBar
<1> QED
  BY <1>6, <1>7, <1>8, <1>11, <1>12, <1>13, <1>14, <1>15
     DEF TwoTokenLedger!Next, TwoTokenLedger!Registered, TwoTokenBar

\* The inductive invariant holds in every reachable state.
THEOREM TwoTokenInvariance == DistinctTokens => (TwoTokenSpec => []TwoTokenIInv)
<1> SUFFICES ASSUME DistinctTokens PROVE TwoTokenSpec => []TwoTokenIInv
  OBVIOUS
<1>1. TwoTokenIInv /\ [TwoTokenNext]_twoTokenVars => TwoTokenIInv'
  BY TwoTokenStepRefines
<1> QED  BY <1>1, TwoTokenInitIInv, PTL DEF TwoTokenSpec

\* What follows from it about the storage.
LEMMA TwoTokenStorageParts == TwoTokenStorageOK => TwoTokenTypeOK /\ TwoTokenNonZeroIsRegistered
<1> SUFFICES ASSUME TwoTokenStorageOK PROVE TwoTokenTypeOK /\ TwoTokenNonZeroIsRegistered
  OBVIOUS
<1>1. TwoTokenTypeOK
  BY DEF TwoTokenStorageOK, TwoTokenTypeOK, PairOK, WordsOK, Words, Fits
<1>2. TwoTokenNonZeroIsRegistered
  BY NoWordsAreEmpty DEF TwoTokenStorageOK, OthersAreEmpty, TwoTokenNonZeroIsRegistered
<1> QED  BY <1>1, <1>2

\* A pair with a balance is the registered pair, as the storage comment says, as long as no Pool
\* deregisters a token twice at once.
THEOREM PairsAreRegistered == DistinctTokens => (TwoTokenSpec => []TwoTokenNonZeroIsRegistered)
<1>1. TwoTokenIInv => TwoTokenNonZeroIsRegistered
  BY TwoTokenStorageParts DEF TwoTokenIInv
<1> QED  BY <1>1, TwoTokenInvariance, PTL

\* The Two Token layout implements the PoolLedger.
THEOREM TwoTokenRefinement == DistinctTokens => (TwoTokenSpec => TwoTokenKeepsLedger)
<1> SUFFICES ASSUME DistinctTokens PROVE TwoTokenSpec => TwoTokenKeepsLedger
  OBVIOUS
<1>1. TwoTokenIInv /\ [TwoTokenNext]_twoTokenVars => [TwoTokenLedger!Next]_<<block, TwoTokenBar>>
  BY TwoTokenStepRefines
<1> QED
  BY <1>1, TwoTokenInitIInv, TwoTokenInvariance, PTL DEF TwoTokenSpec, TwoTokenKeepsLedger,
       TwoTokenLedger!Spec, TwoTokenLedger!vars, TwoTokenBar

-----------------------------------------------------------------------------
(* General layout: loops *)

\* A set of naturals has a least element.
LEMMA LeastNatural ==
    ASSUME NEW T, T \subseteq Nat, T # {}
    PROVE  \E m \in T : \A k \in T : m <= k
<1> DEFINE R == {p \in Nat \X Nat : p[1] < p[2]}
<1>1. IsWellFoundedOn(R, Nat)
  BY NatLessThanWellFounded DEF OpToRel
<1> HIDE DEF R
<1>2. PICK m \in T : \A k \in T : ~(<<k, m>> \in R)
  BY <1>1, WFMin
<1>3. ASSUME NEW k \in T PROVE m <= k
  <2>1. k \in Nat /\ m \in Nat /\ ~(<<k, m>> \in R)
    BY <1>2
  <2>2. ~(k < m)
    BY <2>1 DEF R
  <2> QED  BY <2>1, <2>2
<1> QED  BY <1>3

\* What holds before a loop and is kept by each turn holds after it.
LEMMA Induction ==
    ASSUME NEW n \in Nat, NEW S, 0 \in S, \A i \in 0..(n - 1) : i \in S => i + 1 \in S
    PROVE  0..n \subseteq S
<1> DEFINE T == {i \in 0..n : i \notin S}
<1> SUFFICES ASSUME T # {} PROVE FALSE
  OBVIOUS
<1>1. T \subseteq Nat
  OBVIOUS
<1>2. PICK m \in T : \A k \in T : m <= k
  BY <1>1, LeastNatural
<1>3. m # 0 /\ m - 1 \in 0..(n - 1) /\ m = (m - 1) + 1 /\ m - 1 \in 0..n
  OBVIOUS
<1>4. m - 1 \in S
  BY <1>1, <1>2, <1>3
<1> QED  BY <1>3, <1>4

\* The loops of registerTokens and deregisterTokens, and that they are well defined.
Turn(m, t, registering) == IF registering THEN Set(m, t, 0) ELSE RemoveKey(m, t)

Loop(f, m, toks, n, registering) ==
    f = [i \in 0..n |-> IF i = 0 THEN m ELSE Turn(f[i - 1], toks[i], registering)]

LEMMA LoopExists ==
    ASSUME NEW m, NEW toks, NEW n \in Nat, NEW registering
    PROVE  \E f : Loop(f, m, toks, n, registering)
<1> DEFINE S == {k \in 0..n : \E f : Loop(f, m, toks, k, registering)}
<1>1. 0 \in S
  <2> DEFINE g == [i \in 0..0 |-> m]
  <2>1. Loop(g, m, toks, 0, registering)
    BY DEF Loop
  <2> HIDE DEF g
  <2>2. \E f : Loop(f, m, toks, 0, registering)
    BY <2>1
  <2> QED  BY <2>2
<1>2. ASSUME NEW k \in 0..(n - 1), k \in S PROVE k + 1 \in S
  <2>1. PICK f : Loop(f, m, toks, k, registering)
    BY <1>2
  <2> DEFINE next == Turn(f[k], toks[k + 1], registering)
             g == [i \in 0..(k + 1) |-> IF i = k + 1 THEN next ELSE f[i]]
  <2>2. g[k + 1] = IF k + 1 = 0 THEN m ELSE Turn(g[(k + 1) - 1], toks[k + 1], registering)
    <3>1. g[k + 1] = next /\ k + 1 # 0 /\ (k + 1) - 1 = k /\ g[k] = f[k]
      OBVIOUS
    <3> HIDE DEF g
    <3> QED  BY <3>1
  <2>3. ASSUME NEW i \in 0..k
        PROVE  g[i] = IF i = 0 THEN m ELSE Turn(g[i - 1], toks[i], registering)
    <3>1. f[i] = IF i = 0 THEN m ELSE Turn(f[i - 1], toks[i], registering)
      BY <2>1 DEF Loop
    <3>2. g[i] = f[i] /\ (i # 0 => g[i - 1] = f[i - 1])
      OBVIOUS
    <3> HIDE DEF g
    <3> QED  BY <3>1, <3>2
  <2>4. \A i \in 0..(k + 1) : g[i] = IF i = 0 THEN m ELSE Turn(g[i - 1], toks[i], registering)
    <3> HIDE DEF g
    <3> TAKE i \in 0..(k + 1)
    <3>1. i = k + 1 \/ i \in 0..k
      OBVIOUS
    <3> QED  BY <2>2, <2>3, <3>1
  <2>5. g = [i \in 0..(k + 1) |-> g[i]]
    OBVIOUS
  <2> HIDE DEF g
  <2>6. Loop(g, m, toks, k + 1, registering)
    BY <2>4, <2>5 DEF Loop
  <2> QED  BY <2>6
<1> HIDE DEF S
<1>3. 0..n \subseteq S
  BY <1>1, <1>2, Induction
<1>4. n \in S
  BY <1>3
<1> QED  BY <1>4 DEF S

\* What the two functions leave is where their loop ends.
LEMMA Loops ==
    ASSUME NEW toks, Len(toks) \in Nat
    PROVE  /\ GeneralRegisterTokens(toks) =>
                 \E f : Loop(f, map, toks, Len(toks), TRUE) /\ map' = f[Len(toks)]
           /\ GeneralDeregisterTokens(toks) =>
                 \E f : Loop(f, map, toks, Len(toks), FALSE) /\ map' = f[Len(toks)]
<1> DEFINE n == Len(toks)
<1>1. ASSUME GeneralRegisterTokens(toks)
      PROVE  \E f : Loop(f, map, toks, n, TRUE) /\ map' = f[n]
  <2> DEFINE after[i \in 0..n] == IF i = 0 THEN map ELSE Set(after[i - 1], toks[i], 0)
  <2>1. after = [i \in 0..n |-> IF i = 0 THEN map ELSE Set(after[i - 1], toks[i], 0)]
    <3>1. \E f : f = [i \in 0..n |-> IF i = 0 THEN map ELSE Set(f[i - 1], toks[i], 0)]
      <4>1. \E f : Loop(f, map, toks, n, TRUE)
        BY LoopExists
      <4>2. PICK f : f = [i \in 0..n |-> IF i = 0 THEN map ELSE Turn(f[i - 1], toks[i], TRUE)]
        BY <4>1 DEF Loop
      <4> QED  BY <4>2 DEF Turn
    <3> QED  BY <3>1
  <2>2. map' = after[n]
    BY <1>1 DEF GeneralRegisterTokens
  <2> HIDE DEF after
  <2>3. Loop(after, map, toks, n, TRUE)
    BY <2>1 DEF Loop, Turn
  <2> QED  BY <2>2, <2>3
<1>2. ASSUME GeneralDeregisterTokens(toks)
      PROVE  \E f : Loop(f, map, toks, n, FALSE) /\ map' = f[n]
  <2> DEFINE after[i \in 0..n] == IF i = 0 THEN map ELSE RemoveKey(after[i - 1], toks[i])
  <2>1. after = [i \in 0..n |-> IF i = 0 THEN map ELSE RemoveKey(after[i - 1], toks[i])]
    <3>1. \E f : f = [i \in 0..n |-> IF i = 0 THEN map ELSE RemoveKey(f[i - 1], toks[i])]
      <4>1. \E f : Loop(f, map, toks, n, FALSE)
        BY LoopExists
      <4>2. PICK f : f = [i \in 0..n |-> IF i = 0 THEN map ELSE Turn(f[i - 1], toks[i], FALSE)]
        BY <4>1 DEF Loop
      <4> QED  BY <4>2 DEF Turn
    <3> QED  BY <3>1
  <2>2. map' = after[n]
    BY <1>2 DEF GeneralDeregisterTokens
  <2> HIDE DEF after
  <2>3. Loop(after, map, toks, n, FALSE)
    BY <2>1 DEF Loop, Turn
  <2> QED  BY <2>2, <2>3
<1> QED  BY <1>1, <1>2

-----------------------------------------------------------------------------
(* General layout: the EnumerableMap *)

C == Cardinality(Tokens)
Keys == Tokens \cup {NoToken}
Entry == [key : Keys, value : Nat]
Maps == [length : 0..C, entries : [Positions -> Entry], indexes : [Keys -> 0..C]]

\* A word that fits, of a block so far.
WordOK(word) == Fits(Unpacked(word)) /\ Most(word) <= block

Pos(m, t) == m.indexes[t] - 1

\* Both halves of the map in step, and no word too large.
MapOK(m) ==
    /\ m \in Maps
    /\ m.indexes[NoToken] = 0
    /\ \A t \in Tokens : Listed(m, t) =>
          m.indexes[t] <= m.length /\ m.entries[Pos(m, t)].key = t
    /\ \A i \in Positions :
          IF i < m.length
          THEN m.entries[i].key \in Tokens /\ m.indexes[m.entries[i].key] = i + 1
          ELSE m.entries[i] = NoEntry
    /\ \A i \in Positions : WordOK(m.entries[i].value)

\* There are finitely many tokens.
LEMMA FiniteTokens == C \in Nat /\ NoToken \notin Tokens /\ Tokens \subseteq Nat
BY FS_CardinalityType, PoolAssumption DEF C

\* Where a listed token is.
LEMMA EntryOf ==
    ASSUME NEW m, MapOK(m), NEW t \in Tokens, Listed(m, t)
    PROVE  /\ Pos(m, t) \in Positions /\ Pos(m, t) < m.length
           /\ m.entries[Pos(m, t)] \in Entry /\ m.entries[Pos(m, t)].key = t
           /\ m.indexes[t] = Pos(m, t) + 1
           /\ Get(m, t) = m.entries[Pos(m, t)].value
           /\ Get(m, t) \in Nat /\ WordOK(Get(m, t))
<1>1. m.indexes[t] \in 1..m.length /\ m.length \in 0..C /\ m.entries[Pos(m, t)].key = t
  BY FiniteTokens DEF MapOK, Maps, Keys, Listed
<1>2. Pos(m, t) \in 0..(C - 1) /\ Pos(m, t) < m.length /\ m.indexes[t] = Pos(m, t) + 1
  BY <1>1, FiniteTokens DEF Pos
<1>3. Pos(m, t) \in Positions
  BY <1>2 DEF Positions, C
<1>4. Get(m, t) = m.entries[Pos(m, t)].value
  BY DEF Get, Pos
<1>5. m.entries[Pos(m, t)] \in Entry /\ WordOK(m.entries[Pos(m, t)].value)
  BY <1>3 DEF MapOK, Maps
<1> QED  BY <1>1, <1>2, <1>3, <1>4, <1>5 DEF Entry

\* What is at a position below the length.
LEMMA EntryAt ==
    ASSUME NEW m, MapOK(m), NEW i \in Positions, i < m.length
    PROVE  /\ m.entries[i] \in Entry /\ m.entries[i].key \in Tokens
           /\ Listed(m, m.entries[i].key) /\ Pos(m, m.entries[i].key) = i
<1>1. m.entries[i].key \in Tokens /\ m.indexes[m.entries[i].key] = i + 1
  BY DEF MapOK
<1>2. m.entries[i] \in Entry
  BY DEF MapOK, Maps
<1>3. i \in Nat
  BY DEF Positions
<1> QED  BY <1>1, <1>2, <1>3 DEF Listed, Pos

\* As long as a token is not listed there is room for it.
LEMMA Room ==
    ASSUME NEW m, MapOK(m), NEW key \in Tokens, ~Listed(m, key)
    PROVE  m.length \in Positions
<1> DEFINE S == 0..(m.length - 1)
           f == [i \in S |-> m.entries[i].key]
<1>1. m.length \in 0..C
  BY DEF MapOK, Maps
<1>2. S \subseteq Positions /\ \A i \in S : i < m.length
  BY <1>1, FiniteTokens DEF Positions, C
<1>3. \A i \in S : m.entries[i].key \in Tokens \ {key} /\ Pos(m, m.entries[i].key) = i
  BY <1>2, EntryAt
<1>4. f \in Injection(S, Tokens \ {key})
  <2>1. f \in [S -> Tokens \ {key}]
    BY <1>3
  <2>2. \A i, j \in S : f[i] = f[j] => i = j
    BY <1>3
  <2> QED  BY <2>1, <2>2 DEF Injection, IsInjective
<1>5. IsFiniteSet(Tokens \ {key}) /\ Cardinality(Tokens \ {key}) = C - 1
  BY FS_RemoveElement, PoolAssumption DEF C
<1>6. Cardinality(S) <= C - 1
  <2> HIDE DEF S, f
  <2> QED  BY <1>4, <1>5, FS_Injection
<1>7. Cardinality(S) = m.length
  <2>1. 0 \in Int /\ m.length - 1 \in Int
    BY <1>1, FiniteTokens
  <2>2. Cardinality(S) = IF 0 > m.length - 1 THEN 0 ELSE (m.length - 1) - 0 + 1
    BY <2>1, FS_Interval
  <2> QED  BY <1>1, <2>2, FiniteTokens
<1> QED  BY <1>1, <1>6, <1>7, FiniteTokens DEF Positions, C

\* A word of zeroes.
LEMMA ZeroWordOK == ASSUME block \in Nat PROVE WordOK(0)
BY ZeroWord DEF WordOK

\* A new key is appended with an empty word, and nothing else changes.
LEMMA SetNew ==
    ASSUME NEW m, MapOK(m), NEW key \in Tokens, ~Listed(m, key), block \in Nat,
           NEW n, n = Set(m, key, 0)
    PROVE  /\ MapOK(n)
           /\ \A t \in Tokens : Listed(n, t) <=> Listed(m, t) \/ t = key
           /\ Get(n, key) = 0
           /\ \A t \in Tokens : Listed(m, t) => Get(n, t) = Get(m, t)
<1> DEFINE new == [key |-> key, value |-> 0]
           l == m.length
<1>1. /\ l \in Positions /\ l \in 0..C /\ l + 1 \in 1..C
      /\ m.entries \in [Positions -> Entry] /\ m.indexes \in [Keys -> 0..C]
  <2>1. l \in Positions
    BY Room
  <2> QED  BY <2>1, FiniteTokens DEF MapOK, Maps, Positions, C
<1>2. /\ n.length = l + 1
      /\ n.entries = [m.entries EXCEPT ![l] = new]
      /\ n.indexes = [m.indexes EXCEPT ![key] = l + 1]
      /\ n = [length |-> n.length, entries |-> n.entries, indexes |-> n.indexes]
  BY DEF Set
<1> HIDE DEF l
<1>3. new \in Entry /\ key \in Keys /\ NoToken \in Keys /\ key # NoToken
  BY FiniteTokens DEF Entry, Keys
<1>4. /\ n.entries \in [Positions -> Entry] /\ n.indexes \in [Keys -> 0..C]
      /\ n.length \in 0..C
  BY <1>1, <1>2, <1>3
<1>5. n \in Maps
  BY <1>2, <1>4 DEF Maps
<1>6. /\ n.entries[l] = new /\ n.indexes[key] = l + 1
      /\ \A i \in Positions : i # l => n.entries[i] = m.entries[i]
      /\ \A t \in Keys : t # key => n.indexes[t] = m.indexes[t]
  BY <1>1, <1>2, <1>3
<1>7. n.indexes[NoToken] = 0
  BY <1>3, <1>6 DEF MapOK
<1>8. Listed(n, key) /\ Pos(n, key) = l
  BY <1>1, <1>6, FiniteTokens DEF Listed, Pos
<1>9. \A t \in Tokens : t # key => (Listed(n, t) <=> Listed(m, t)) /\ Pos(n, t) = Pos(m, t)
  BY <1>6 DEF Listed, Pos, Keys
<1>10. \A t \in Tokens : Listed(m, t) => t # key /\ n.entries[Pos(m, t)] = m.entries[Pos(m, t)]
  <2> TAKE t \in Tokens
  <2> HAVE Listed(m, t)
  <2>1. Pos(m, t) \in Positions /\ Pos(m, t) < l
    BY EntryOf DEF l
  <2> QED  BY <1>6, <2>1, FiniteTokens DEF Positions
<1>11. \A t \in Tokens : Listed(n, t) => n.indexes[t] <= n.length /\ n.entries[Pos(n, t)].key = t
  <2> TAKE t \in Tokens
  <2> HAVE Listed(n, t)
  <2>1. CASE t = key
    BY <1>1, <1>2, <1>6, <1>8, <2>1, FiniteTokens
  <2>2. CASE t # key
    <3>1. Listed(m, t) /\ Pos(n, t) = Pos(m, t) /\ n.indexes[t] = m.indexes[t]
      BY <1>6, <1>9, <2>2 DEF Keys
    <3>2. m.indexes[t] <= l /\ m.entries[Pos(m, t)].key = t /\ m.indexes[t] \in Nat
      BY <3>1, <1>1 DEF MapOK, l, Keys
    <3> QED  BY <1>1, <1>2, <1>10, <3>1, <3>2
  <2> QED  BY <2>1, <2>2
<1>12. \A i \in Positions :
          IF i < n.length THEN n.entries[i].key \in Tokens /\ n.indexes[n.entries[i].key] = i + 1
                          ELSE n.entries[i] = NoEntry
  <2> TAKE i \in Positions
  <2>0. i \in Nat /\ l \in Nat
    BY <1>1 DEF Positions
  <2>1. CASE i = l
    BY <1>2, <1>6, <2>0, <2>1
  <2>2. CASE i < l
    <3>1. n.entries[i] = m.entries[i]
      BY <1>6, <2>0, <2>2
    <3>2. /\ m.entries[i].key \in Tokens /\ Listed(m, m.entries[i].key)
          /\ m.indexes[m.entries[i].key] = i + 1
      BY <2>2, EntryAt DEF l, MapOK
    <3>3. n.indexes[m.entries[i].key] = i + 1
      BY <1>6, <1>10, <3>2 DEF Keys
    <3> QED  BY <1>2, <2>0, <2>2, <3>1, <3>2, <3>3
  <2>3. CASE i > l
    <3>1. n.entries[i] = m.entries[i] /\ ~(i < l)
      BY <1>6, <2>0, <2>3
    <3>2. m.entries[i] = NoEntry
      BY <3>1 DEF MapOK, l
    <3>3. ~(i < n.length)
      BY <1>2, <2>0, <2>3
    <3> QED  BY <3>1, <3>2, <3>3
  <2> QED  BY <2>0, <2>1, <2>2, <2>3
<1>13. \A i \in Positions : WordOK(n.entries[i].value)
  <2> TAKE i \in Positions
  <2>1. n.entries[i].value = 0 \/ n.entries[i] = m.entries[i]
    BY <1>6
  <2> QED  BY <2>1, ZeroWordOK DEF MapOK
<1>14. MapOK(n)
  BY <1>5, <1>7, <1>11, <1>12, <1>13 DEF MapOK
<1>15. Get(n, key) = 0
  BY <1>6, <1>8, <1>14, EntryOf
<1>16. \A t \in Tokens : Listed(m, t) => Get(n, t) = Get(m, t)
  <2> TAKE t \in Tokens
  <2> HAVE Listed(m, t)
  <2>1. Listed(n, t) /\ Pos(n, t) = Pos(m, t) /\ n.entries[Pos(m, t)] = m.entries[Pos(m, t)]
    BY <1>9, <1>10
  <2>2. Get(n, t) = n.entries[Pos(n, t)].value /\ Get(m, t) = m.entries[Pos(m, t)].value
    BY <1>14, <2>1, EntryOf
  <2> QED  BY <2>1, <2>2
<1> QED  BY <1>8, <1>9, <1>14, <1>15, <1>16

\* A removed key is gone, and every other key keeps its word, the one that moves included.
LEMMA Removed ==
    ASSUME NEW m, MapOK(m), NEW key \in Tokens, Listed(m, key), block \in Nat,
           NEW n, n = RemoveKey(m, key)
    PROVE  /\ MapOK(n)
           /\ \A t \in Tokens : Listed(n, t) <=> Listed(m, t) /\ t # key
           /\ \A t \in Tokens : Listed(n, t) => Get(n, t) = Get(m, t)
<1> DEFINE hole == Pos(m, key)
           last == m.length - 1
           moved == m.entries[last].key
<1>1. /\ m.entries \in [Positions -> Entry] /\ m.indexes \in [Keys -> 0..C]
      /\ m.length \in 0..C
  BY DEF MapOK, Maps
<1>2. /\ hole \in Positions /\ hole < m.length /\ m.entries[hole].key = key
      /\ m.indexes[key] = hole + 1 /\ hole \in Nat
  BY EntryOf DEF Positions
<1>3. last \in Positions /\ last < m.length /\ m.length = last + 1 /\ last \in 0..C /\ hole <= last
      /\ last \in Nat
  BY <1>1, <1>2, FiniteTokens DEF Positions, C
<1>4. /\ m.entries[last] \in Entry /\ moved \in Tokens /\ Listed(m, moved) /\ Pos(m, moved) = last
      /\ m.indexes[moved] = last + 1
  <2> HIDE DEF last
  <2> QED  BY <1>3, EntryAt, EntryOf
<1>5. /\ n.length = last
      /\ n.entries = [m.entries EXCEPT ![hole] = m.entries[last], ![last] = NoEntry]
      /\ n.indexes = [m.indexes EXCEPT ![moved] = hole + 1, ![key] = 0]
      /\ n = [length |-> n.length, entries |-> n.entries, indexes |-> n.indexes]
  BY DEF RemoveKey, Pos
<1> HIDE DEF hole, last, moved
<1>6. moved = m.entries[last].key /\ hole = Pos(m, key)
  BY DEF moved, hole
<1>7. NoEntry \in Entry /\ key \in Keys /\ moved \in Keys /\ NoToken \in Keys /\ key # NoToken
      /\ moved # NoToken
  BY <1>4, FiniteTokens DEF Entry, Keys, NoEntry
<1>8. moved = key <=> hole = last
  BY <1>2, <1>4, <1>6
<1>9. /\ n.entries[last] = NoEntry
      /\ hole # last => n.entries[hole] = m.entries[last]
      /\ \A i \in Positions : i # hole /\ i # last => n.entries[i] = m.entries[i]
      /\ n.indexes[key] = 0
      /\ moved # key => n.indexes[moved] = hole + 1
      /\ \A t \in Keys : t # key /\ t # moved => n.indexes[t] = m.indexes[t]
  BY <1>1, <1>2, <1>3, <1>5, <1>7
<1>10. hole + 1 \in 0..C /\ 0 \in 0..C
  BY <1>1, <1>2, <1>3, FiniteTokens
<1>11. n \in Maps
  <2>1. n.entries \in [Positions -> Entry]
    BY <1>1, <1>4, <1>5, <1>7
  <2>2. n.indexes \in [Keys -> 0..C]
    <3> DEFINE up == hole + 1
    <3>1. up \in 0..C /\ n.indexes = [m.indexes EXCEPT ![moved] = up, ![key] = 0]
      BY <1>5, <1>10
    <3> HIDE DEF up
    <3> QED  BY <1>1, <1>10, <3>1
  <2>3. n.length \in 0..C
    BY <1>3, <1>5
  <2> QED  BY <1>5, <2>1, <2>2, <2>3 DEF Maps
<1>12. n.indexes[NoToken] = 0
  BY <1>7, <1>9 DEF MapOK
\* where the other tokens are
<1>13. ASSUME NEW t \in Tokens, t # key, t # moved
       PROVE  /\ Listed(n, t) <=> Listed(m, t)
              /\ Listed(m, t) => /\ Pos(n, t) = Pos(m, t) /\ Pos(m, t) \in Positions
                                 /\ Pos(m, t) < last /\ n.indexes[t] = Pos(m, t) + 1
                                 /\ n.entries[Pos(m, t)] = m.entries[Pos(m, t)]
  <2>1. n.indexes[t] = m.indexes[t]
    BY <1>9, <1>13 DEF Keys
  <2>2. CASE Listed(m, t)
    <3>1. /\ Pos(m, t) \in Positions /\ Pos(m, t) < m.length /\ m.entries[Pos(m, t)].key = t
          /\ m.indexes[t] = Pos(m, t) + 1 /\ Pos(m, t) \in Nat
      BY <2>2, EntryOf DEF Positions
    <3>2. Pos(m, t) # hole /\ Pos(m, t) # last
      BY <1>2, <1>6, <1>13, <3>1
    <3>3. Pos(m, t) < last
      BY <1>3, <3>1, <3>2
    <3> QED  BY <1>9, <2>1, <2>2, <3>1, <3>2, <3>3 DEF Listed, Pos
  <2> QED  BY <2>1, <2>2 DEF Listed
<1>14. ~Listed(n, key)
  BY <1>9 DEF Listed
<1>15. ASSUME moved # key
       PROVE  /\ Listed(n, moved) /\ Pos(n, moved) = hole /\ hole < last
              /\ n.entries[hole] = m.entries[last]
  <2>1. n.indexes[moved] = hole + 1 /\ hole # last
    BY <1>8, <1>9, <1>15
  <2>2. hole < last
    BY <1>2, <1>3, <2>1
  <2> QED  BY <1>2, <1>9, <2>1, <2>2 DEF Listed, Pos
<1>16. \A t \in Tokens : Listed(n, t) <=> Listed(m, t) /\ t # key
  BY <1>4, <1>13, <1>14, <1>15
<1>17. \A t \in Tokens : Listed(n, t) => n.indexes[t] <= n.length /\ n.entries[Pos(n, t)].key = t
  <2> TAKE t \in Tokens
  <2> HAVE Listed(n, t)
  <2>1. t # key /\ Listed(m, t)
    BY <1>16
  <2>2. CASE t = moved
    BY <1>2, <1>3, <1>5, <1>6, <1>9, <1>15, <2>1, <2>2
  <2>3. CASE t # moved
    <3>1. /\ Pos(n, t) = Pos(m, t) /\ Pos(m, t) \in Nat /\ Pos(m, t) < last
          /\ n.indexes[t] = Pos(m, t) + 1
          /\ n.entries[Pos(m, t)] = m.entries[Pos(m, t)]
      BY <1>13, <2>1, <2>3 DEF Positions
    <3>2. m.entries[Pos(m, t)].key = t
      BY <2>1, EntryOf
    <3> QED  BY <1>3, <1>5, <3>1, <3>2
  <2> QED  BY <2>2, <2>3
<1>18. \A i \in Positions :
          IF i < n.length THEN n.entries[i].key \in Tokens /\ n.indexes[n.entries[i].key] = i + 1
                          ELSE n.entries[i] = NoEntry
  <2> TAKE i \in Positions
  <2>0. i \in Nat
    BY DEF Positions
  <2>1. CASE i < last /\ i = hole
    <3>1. moved # key /\ n.entries[i] = m.entries[last] /\ n.indexes[moved] = i + 1
      BY <1>2, <1>3, <1>8, <1>9, <2>1
    <3> QED  BY <1>4, <1>5, <1>6, <2>1, <3>1
  <2>2. CASE i < last /\ i # hole
    <3>1. n.entries[i] = m.entries[i] /\ i < m.length
      BY <1>3, <1>9, <2>0, <2>2
    <3>2. /\ m.entries[i].key \in Tokens /\ Listed(m, m.entries[i].key)
          /\ Pos(m, m.entries[i].key) = i
      BY <3>1, EntryAt
    <3>3. m.entries[i].key # key /\ m.entries[i].key # moved
      BY <1>3, <1>4, <1>6, <2>0, <2>2, <3>2
    <3>4. n.indexes[m.entries[i].key] = i + 1
      BY <1>13, <3>2, <3>3
    <3> QED  BY <1>5, <2>2, <3>1, <3>2, <3>4
  <2>3. CASE i = last
    BY <1>3, <1>5, <1>9, <2>3
  <2>4. CASE i > last
    <3>1. n.entries[i] = m.entries[i] /\ ~(i < m.length) /\ ~(i < last)
      BY <1>2, <1>3, <1>9, <2>0, <2>4
    <3> QED  BY <1>5, <3>1 DEF MapOK
  <2> QED  BY <1>3, <2>0, <2>1, <2>2, <2>3, <2>4
<1>19. \A i \in Positions : WordOK(n.entries[i].value)
  <2> TAKE i \in Positions
  <2>1. n.entries[i].value = 0 \/ n.entries[i] = m.entries[i] \/ n.entries[i] = m.entries[last]
    BY <1>9 DEF NoEntry
  <2> QED  BY <1>3, <2>1, ZeroWordOK DEF MapOK
<1>20. MapOK(n)
  BY <1>11, <1>12, <1>17, <1>18, <1>19 DEF MapOK
<1>21. \A t \in Tokens : Listed(n, t) => Get(n, t) = Get(m, t)
  <2> TAKE t \in Tokens
  <2> HAVE Listed(n, t)
  <2>1. t # key /\ Listed(m, t)
    BY <1>16
  <2>2. Get(n, t) = n.entries[Pos(n, t)].value /\ Get(m, t) = m.entries[Pos(m, t)].value
    BY <1>20, <2>1, EntryOf
  <2>3. n.entries[Pos(n, t)] = m.entries[Pos(m, t)]
    <3>1. CASE t = moved
      BY <1>4, <1>15, <2>1, <3>1
    <3>2. CASE t # moved
      BY <1>13, <2>1, <3>2
    <3> QED  BY <3>1, <3>2
  <2> QED  BY <2>2, <2>3
<1> QED  BY <1>16, <1>20, <1>21

\* Words that are stored at positions below the length change what is there, and nothing else.
LEMMA Overwritten ==
    ASSUME NEW m, MapOK(m), NEW n \in Maps, n.length = m.length, n.indexes = m.indexes,
           \A i \in Positions : /\ n.entries[i].key = m.entries[i].key
                                /\ WordOK(n.entries[i].value)
                                /\ ~(i < m.length) => n.entries[i].value = m.entries[i].value
    PROVE  /\ MapOK(n)
           /\ \A t \in Tokens : /\ Listed(n, t) <=> Listed(m, t)
                                /\ Listed(m, t) => Get(n, t) = n.entries[Pos(m, t)].value
<1>6. \A t \in Tokens : (Listed(n, t) <=> Listed(m, t)) /\ Pos(n, t) = Pos(m, t)
  BY DEF Listed, Pos
<1>7. \A t \in Tokens : Listed(n, t) => n.indexes[t] <= n.length /\ n.entries[Pos(n, t)].key = t
  <2> TAKE t \in Tokens
  <2> HAVE Listed(n, t)
  <2>1. /\ Listed(m, t) /\ Pos(m, t) \in Positions /\ m.entries[Pos(m, t)].key = t
        /\ m.indexes[t] <= m.length
    BY <1>6, EntryOf DEF MapOK
  <2> QED  BY <1>6, <2>1
<1>8. \A i \in Positions :
          IF i < n.length THEN n.entries[i].key \in Tokens /\ n.indexes[n.entries[i].key] = i + 1
                          ELSE n.entries[i] = NoEntry
  <2> TAKE i \in Positions
  <2>1. n.entries[i].key = m.entries[i].key
    OBVIOUS
  <2>2. CASE i < m.length
    BY <2>1, <2>2 DEF MapOK
  <2>3. CASE ~(i < m.length)
    <3>1. m.entries[i] = NoEntry /\ n.entries[i].value = m.entries[i].value
      BY <2>3 DEF MapOK
    <3>2. n.entries[i] \in Entry
      BY DEF Maps
    <3>3. n.entries[i] = NoEntry
      BY <2>1, <3>1, <3>2 DEF Entry, NoEntry
    <3> QED  BY <2>3, <3>3
  <2> QED  BY <2>2, <2>3
<1>9. MapOK(n)
  BY <1>7, <1>8 DEF MapOK
<1>10. \A t \in Tokens : Listed(m, t) => Get(n, t) = n.entries[Pos(m, t)].value
  <2> TAKE t \in Tokens
  <2> HAVE Listed(m, t)
  <2>1. Listed(n, t) /\ Pos(n, t) = Pos(m, t)
    BY <1>6
  <2>2. Get(n, t) = n.entries[Pos(n, t)].value
    BY <1>9, <2>1, EntryOf
  <2> QED  BY <2>1, <2>2
<1> QED  BY <1>6, <1>9, <1>10

-----------------------------------------------------------------------------
(* General layout: the inductive invariant *)

\* What is stored, between any two steps.
GeneralStorageOK == block \in 1..MaxBlock /\ MapOK(map)

\* Between a hook and the writes that follow it, the positions that were read are those of two
\* tokens, or of all.
PositionsOK ==
    /\ call.fn = "swap" => /\ call.indexIn \in Positions /\ call.indexOut \in Positions
                           /\ call.indexIn # call.indexOut
    /\ call.fn = "joinOrExit" => map.length > 0

GeneralCallOK == PositionsOK /\ GeneralReadIsCurrent

GeneralIInv == GeneralStorageOK /\ GeneralCallOK

\* What the layout stands for: the ledger of the refinement.
GeneralBar == [t \in {u \in Tokens : Listed(map, u)} |-> Unpacked(Get(map, t))]

\* What is stored stays right while other blocks come.
LEMMA GeneralStorageStays ==
    ASSUME GeneralStorageOK, UNCHANGED map, block' \in 1..MaxBlock, block <= block'
    PROVE  GeneralStorageOK'
<1>1. \A i \in Positions : WordOK(map.entries[i].value)'
  <2> TAKE i \in Positions
  <2>1. WordOK(map.entries[i].value) /\ map.entries[i].value \in Nat
    BY DEF GeneralStorageOK, MapOK, Maps, Entry
  <2>2. Most(map.entries[i].value) \in Nat /\ block \in Nat /\ block' \in Nat
    BY <2>1, WordFields DEF GeneralStorageOK
  <2> QED  BY <2>1, <2>2 DEF WordOK
<1>2. MapOK(map)'
  BY <1>1 DEF GeneralStorageOK, MapOK
<1> QED  BY <1>2 DEF GeneralStorageOK

\* Nothing but the block moves, and no hook runs.
LEMMA Idles ==
    ASSUME GeneralIInv, UNCHANGED map, block' \in 1..MaxBlock, block <= block', call' = NoCall
    PROVE  GeneralIInv' /\ UNCHANGED GeneralBar
<1>1. PositionsOK' /\ GeneralReadIsCurrent'
  BY DEF PositionsOK, GeneralReadIsCurrent, NoCall
<1>2. UNCHANGED GeneralBar
  BY DEF GeneralBar
<1> QED  BY <1>1, <1>2, GeneralStorageStays DEF GeneralIInv, GeneralCallOK

\* The first state of the layout is that of the ledger.
LEMMA GeneralInitIInv == GeneralInit => GeneralIInv /\ GeneralLedger!Init
<1> SUFFICES ASSUME GeneralInit PROVE GeneralIInv /\ GeneralLedger!Init
  OBVIOUS
<1>1. map = [length |-> 0, entries |-> [i \in Positions |-> NoEntry],
             indexes |-> [t \in Keys |-> 0]]
  BY DEF GeneralInit, Keys
<1>2. block \in 1..MaxBlock /\ block \in Nat
  BY PoolAssumption DEF GeneralInit
<1>3. 0 \in 0..C /\ NoEntry \in Entry
  BY FiniteTokens DEF NoEntry, Entry, Keys
<1>4. map \in Maps
  BY <1>1, <1>3 DEF Maps
<1>5. \A t \in Keys : ~Listed(map, t)
  BY <1>1 DEF Listed
<1>6. \A i \in Positions : map.entries[i] = NoEntry /\ ~(i < map.length)
  BY <1>1 DEF Positions
<1>7. MapOK(map)
  BY <1>1, <1>2, <1>4, <1>5, <1>6, ZeroWordOK DEF MapOK, Keys, NoEntry
<1>8. GeneralIInv
  BY <1>2, <1>7 DEF GeneralIInv, GeneralStorageOK, GeneralCallOK, GeneralInit, PositionsOK,
       GeneralReadIsCurrent, NoCall
<1>9. GeneralLedger!Init
  BY <1>5 DEF GeneralLedger!Init, GeneralInit, Keys
<1> QED  BY <1>8, <1>9

-----------------------------------------------------------------------------
(* General layout: lists of tokens *)

FirstTokens(toks, i) == {toks[j] : j \in 1..i}

\* What a list without duplicates is.
LEMMA Lists ==
    ASSUME NEW toks \in TokenLists
    PROVE  /\ Len(toks) \in Nat /\ DOMAIN toks = 1..Len(toks)
           /\ \A j \in 1..Len(toks) : toks[j] \in Tokens
           /\ \A i, j \in 1..Len(toks) : toks[i] = toks[j] => i = j
           /\ FirstTokens(toks, 0) = {} /\ FirstTokens(toks, Len(toks)) \subseteq Tokens
           /\ \A i \in 0..(Len(toks) - 1) :
                 /\ i + 1 \in 1..Len(toks) /\ (i + 1) - 1 = i /\ i + 1 # 0
                 /\ FirstTokens(toks, i + 1) = FirstTokens(toks, i) \cup {toks[i + 1]}
                 /\ toks[i + 1] \notin FirstTokens(toks, i)
<1>1. PICK k \in 1..C : toks \in [1..k -> Tokens]
  BY DEF TokenLists, C
<1>2. toks \in Seq(Tokens)
  BY <1>1, FiniteTokens
<1>3. Len(toks) \in Nat /\ DOMAIN toks = 1..Len(toks) /\ \A j \in 1..Len(toks) : toks[j] \in Tokens
  BY <1>2
<1>4. \A i, j \in 1..Len(toks) : toks[i] = toks[j] => i = j
  BY <1>3 DEF TokenLists, IsInjective
<1>5. FirstTokens(toks, 0) = {} /\ FirstTokens(toks, Len(toks)) \subseteq Tokens
  BY <1>3 DEF FirstTokens
<1>6. ASSUME NEW i \in 0..(Len(toks) - 1)
      PROVE  /\ i + 1 \in 1..Len(toks) /\ (i + 1) - 1 = i /\ i + 1 # 0
             /\ FirstTokens(toks, i + 1) = FirstTokens(toks, i) \cup {toks[i + 1]}
             /\ toks[i + 1] \notin FirstTokens(toks, i)
  <2>1. i + 1 \in 1..Len(toks) /\ (i + 1) - 1 = i /\ i + 1 # 0
    BY <1>3
  <2>2. \A j : j \in 1..(i + 1) <=> j \in 1..i \/ j = i + 1
    BY <1>3
  <2>3. FirstTokens(toks, i + 1) = FirstTokens(toks, i) \cup {toks[i + 1]}
    BY <2>2 DEF FirstTokens
  <2>4. \A j \in 1..i : j \in 1..Len(toks) /\ j # i + 1
    BY <1>3
  <2>5. toks[i + 1] \notin FirstTokens(toks, i)
    BY <1>4, <2>1, <2>4 DEF FirstTokens
  <2> QED  BY <2>1, <2>3, <2>5
<1> QED  BY <1>3, <1>4, <1>5, <1>6

\* Registered tokens appear at zero, and no other balance moves.
LEMMA GeneralRegisterTokensRefines ==
    ASSUME GeneralIInv, NEW toks \in TokenLists, GeneralRegisterTokens(toks)
    PROVE  GeneralIInv' /\ GeneralLedger!Next
<1> DEFINE n == Len(toks)
           first(i) == FirstTokens(toks, i)
           After(m, i) ==
              /\ MapOK(m)
              /\ \A t \in Tokens : /\ Listed(m, t) <=> Listed(map, t) \/ t \in first(i)
                                   /\ Listed(map, t) => Get(m, t) = Get(map, t)
                                   /\ t \in first(i) => Get(m, t) = 0
<1>1. n \in Nat
  BY Lists
<1>2. PICK f : Loop(f, map, toks, n, TRUE) /\ map' = f[n]
  BY <1>1, Loops
<1>3. MapOK(map) /\ block \in Nat
  BY DEF GeneralIInv, GeneralStorageOK
<1>4. ASSUME NEW i \in 0..n
      PROVE  f[i] = IF i = 0 THEN map ELSE Set(f[i - 1], toks[i], 0)
  BY <1>2 DEF Loop, Turn
<1> DEFINE S == {i \in 0..n : After(f[i], i)}
<1>5. 0 \in S
  <2>1. f[0] = map /\ 0 \in 0..n
    BY <1>1, <1>4
  <2> QED  BY <1>3, <2>1, Lists
<1>6. ASSUME NEW i \in 0..(n - 1), i \in S PROVE i + 1 \in S
  <2> DEFINE key == toks[i + 1]
             m == f[i]
             next == f[i + 1]
  <2>1. key \in Tokens /\ key \notin first(i) /\ first(i + 1) = first(i) \cup {key}
    BY Lists
  <2>2. i + 1 \in 0..n /\ (i + 1) - 1 = i /\ i + 1 # 0
    BY <1>1
  <2>3. next = Set(m, key, 0)
    BY <1>4, <2>2
  <2>4. After(m, i)
    BY <1>6
  <2>5. ~Listed(map, key)
    BY Lists DEF GeneralRegisterTokens
  <2> HIDE DEF first, key, m, next
  <2>6. MapOK(m) /\ ~Listed(m, key)
    BY <2>1, <2>4, <2>5
  <2>7. /\ MapOK(next) /\ Get(next, key) = 0
        /\ \A t \in Tokens : Listed(next, t) <=> Listed(m, t) \/ t = key
        /\ \A t \in Tokens : Listed(m, t) => Get(next, t) = Get(m, t)
    BY <1>3, <2>1, <2>3, <2>6, SetNew
  <2>8. After(next, i + 1)
    BY <2>1, <2>4, <2>7
  <2> QED  BY <2>2, <2>8 DEF next
<1> HIDE DEF S
<1>7. 0..n \subseteq S
  BY <1>1, <1>5, <1>6, Induction
<1>8. After(map', n)
  BY <1>1, <1>2, <1>7 DEF S
<1> HIDE DEF After
<1>9. UNCHANGED block /\ call' = NoCall
  BY DEF GeneralRegisterTokens, Idle
<1>10. GeneralIInv'
  BY <1>8, <1>9 DEF After, GeneralIInv, GeneralStorageOK, GeneralCallOK, PositionsOK,
       GeneralReadIsCurrent, NoCall, MapOK, WordOK
<1>11. first(n) \in SUBSET Tokens /\ \A t \in first(n) : ~Listed(map, t)
  BY Lists DEF GeneralRegisterTokens, FirstTokens
<1> HIDE DEF first, n
<1>12. GeneralBar' = [t \in DOMAIN GeneralBar \cup first(n) |-> IF t \in first(n) THEN GeneralLedger!Empty ELSE GeneralBar[t]]
  <2>1. DOMAIN GeneralBar = {t \in Tokens : Listed(map, t)} /\ \A t \in DOMAIN GeneralBar : GeneralBar[t] = Unpacked(Get(map, t))
    BY DEF GeneralBar
  <2>2. GeneralBar' = [t \in {u \in Tokens : Listed(map', u)} |-> Unpacked(Get(map', t))]
    BY DEF GeneralBar
  <2>3. {u \in Tokens : Listed(map', u)} = DOMAIN GeneralBar \cup first(n)
    BY <1>8, <1>11, <2>1 DEF After
  <2>4. \A t \in DOMAIN GeneralBar \cup first(n) :
            Unpacked(Get(map', t)) = IF t \in first(n) THEN GeneralLedger!Empty ELSE GeneralBar[t]
    BY <1>8, <1>11, <2>1, ZeroWord DEF After, GeneralLedger!Empty
  <2> QED  BY <2>2, <2>3, <2>4
<1>13. GeneralLedger!Register(first(n))
  BY <1>9, <1>11, <1>12 DEF GeneralLedger!Register, GeneralLedger!Registered, GeneralBar
<1> QED  BY <1>10, <1>11, <1>13 DEF GeneralLedger!Next

\* Deregistered tokens had nothing, and no other balance moves.
LEMMA GeneralDeregisterTokensRefines ==
    ASSUME GeneralIInv, NEW toks \in TokenLists, GeneralDeregisterTokens(toks)
    PROVE  GeneralIInv' /\ GeneralLedger!Next
<1> DEFINE n == Len(toks)
           first(i) == FirstTokens(toks, i)
           After(m, i) ==
              /\ MapOK(m)
              /\ \A t \in Tokens : /\ Listed(m, t) <=> Listed(map, t) /\ t \notin first(i)
                                   /\ Listed(m, t) => Get(m, t) = Get(map, t)
<1>1. n \in Nat
  BY Lists
<1>2. PICK f : Loop(f, map, toks, n, FALSE) /\ map' = f[n]
  BY <1>1, Loops
<1>3. MapOK(map) /\ block \in Nat
  BY DEF GeneralIInv, GeneralStorageOK
<1>4. ASSUME NEW i \in 0..n
      PROVE  f[i] = IF i = 0 THEN map ELSE RemoveKey(f[i - 1], toks[i])
  BY <1>2 DEF Loop, Turn
<1> DEFINE S == {i \in 0..n : After(f[i], i)}
<1>5. 0 \in S
  <2>1. f[0] = map /\ 0 \in 0..n
    BY <1>1, <1>4
  <2> QED  BY <1>3, <2>1, Lists
<1>6. ASSUME NEW i \in 0..(n - 1), i \in S PROVE i + 1 \in S
  <2> DEFINE key == toks[i + 1]
             m == f[i]
             next == f[i + 1]
  <2>1. key \in Tokens /\ key \notin first(i) /\ first(i + 1) = first(i) \cup {key}
    BY Lists
  <2>2. i + 1 \in 0..n /\ (i + 1) - 1 = i /\ i + 1 # 0
    BY <1>1
  <2>3. next = RemoveKey(m, key)
    BY <1>4, <2>2
  <2>4. After(m, i)
    BY <1>6
  <2>5. Listed(map, key)
    BY Lists DEF GeneralDeregisterTokens
  <2> HIDE DEF first, key, m, next
  <2>6. MapOK(m) /\ Listed(m, key)
    BY <2>1, <2>4, <2>5
  <2>7. /\ MapOK(next)
        /\ \A t \in Tokens : Listed(next, t) <=> Listed(m, t) /\ t # key
        /\ \A t \in Tokens : Listed(next, t) => Get(next, t) = Get(m, t)
    BY <1>3, <2>1, <2>3, <2>6, Removed
  <2>8. After(next, i + 1)
    BY <2>1, <2>4, <2>7
  <2> QED  BY <2>2, <2>8 DEF next
<1> HIDE DEF S
<1>7. 0..n \subseteq S
  BY <1>1, <1>5, <1>6, Induction
<1>8. After(map', n)
  BY <1>1, <1>2, <1>7 DEF S
<1> HIDE DEF After
<1>9. UNCHANGED block /\ call' = NoCall
  BY DEF GeneralDeregisterTokens, Idle
<1>10. GeneralIInv'
  BY <1>8, <1>9 DEF After, GeneralIInv, GeneralStorageOK, GeneralCallOK, PositionsOK,
       GeneralReadIsCurrent, NoCall, MapOK, WordOK
<1>11. first(n) \in SUBSET Tokens /\ \A t \in first(n) : Listed(map, t) /\ IsZero(Get(map, t))
  BY Lists DEF GeneralDeregisterTokens, FirstTokens
<1> HIDE DEF first, n
<1>12. DOMAIN GeneralBar = {t \in Tokens : Listed(map, t)} /\ \A t \in DOMAIN GeneralBar : GeneralBar[t] = Unpacked(Get(map, t))
  BY DEF GeneralBar
<1>13. GeneralBar' = [t \in DOMAIN GeneralBar \ first(n) |-> GeneralBar[t]]
  <2>1. GeneralBar' = [t \in {u \in Tokens : Listed(map', u)} |-> Unpacked(Get(map', t))]
    BY DEF GeneralBar
  <2>2. {u \in Tokens : Listed(map', u)} = DOMAIN GeneralBar \ first(n)
    BY <1>8, <1>12 DEF After
  <2>3. \A t \in DOMAIN GeneralBar \ first(n) : Unpacked(Get(map', t)) = GeneralBar[t]
    BY <1>8, <1>12 DEF After
  <2> QED  BY <2>1, <2>2, <2>3
<1>14. \A t \in first(n) : GeneralLedger!TotalOf(GeneralBar[t]) = 0
  <2> TAKE t \in first(n)
  <2>1. t \in Tokens /\ Listed(map, t) /\ IsZero(Get(map, t)) /\ Get(map, t) \in Nat
    BY <1>3, <1>11, EntryOf
  <2>2. Least(Get(map, t)) = 0 /\ Mid(Get(map, t)) = 0
    BY <2>1, IsZeroIgnoresTheBlock
  <2> QED  BY <1>12, <2>1, <2>2 DEF Unpacked, GeneralLedger!TotalOf
<1>15. GeneralLedger!Deregister(first(n))
  BY <1>9, <1>11, <1>12, <1>13, <1>14 DEF GeneralLedger!Deregister, GeneralLedger!Registered, GeneralBar
<1> QED  BY <1>10, <1>11, <1>15 DEF GeneralLedger!Next

-----------------------------------------------------------------------------
(* General layout: writes *)

\* Words that are stored by position replace the balances of the tokens that are there.
LEMMA WriteRefines ==
    ASSUME GeneralIInv, map' \in Maps, map'.length = map.length, map'.indexes = map.indexes,
           \A i \in Positions : /\ map'.entries[i].key = map.entries[i].key
                                /\ WordOK(map'.entries[i].value)
                                /\ ~(i < map.length) => map'.entries[i].value = map.entries[i].value,
           call' = NoCall, UNCHANGED block,
           NEW recorded \in BOOLEAN, NEW old, DOMAIN old \subseteq DOMAIN GeneralBar,
           \A t \in DOMAIN old : old[t] \in Balance,
           \A t \in DOMAIN GeneralBar :
              Unpacked(map'.entries[Pos(map, t)].value) =
                 IF t \in DOMAIN old
                 THEN IF recorded THEN [old[t] EXCEPT !.changed = block] ELSE old[t]
                 ELSE GeneralBar[t]
    PROVE  GeneralIInv' /\ GeneralLedger!Write(old, recorded)
<1>1. MapOK(map)
  BY DEF GeneralIInv, GeneralStorageOK
<1>2. /\ MapOK(map')
      /\ \A t \in Tokens : /\ Listed(map', t) <=> Listed(map, t)
                           /\ Listed(map, t) => Get(map', t) = map'.entries[Pos(map, t)].value
  BY <1>1, Overwritten
<1>3. GeneralIInv'
  BY <1>2 DEF GeneralIInv, GeneralStorageOK, GeneralCallOK, PositionsOK, GeneralReadIsCurrent,
       NoCall, MapOK, WordOK
<1>4. /\ DOMAIN GeneralBar = {t \in Tokens : Listed(map, t)}
      /\ GeneralBar' = [t \in {u \in Tokens : Listed(map', u)} |-> Unpacked(Get(map', t))]
  BY DEF GeneralBar
<1>5. {u \in Tokens : Listed(map', u)} = DOMAIN GeneralBar
  BY <1>2, <1>4
<1>6. \A t \in DOMAIN GeneralBar : Unpacked(Get(map', t)) =
         IF t \in DOMAIN old THEN IF recorded THEN [old[t] EXCEPT !.changed = block] ELSE old[t]
                             ELSE GeneralBar[t]
  BY <1>2, <1>4
<1>7. GeneralBar' = [t \in DOMAIN GeneralBar |->
                 LET e == IF t \in DOMAIN old THEN old[t] ELSE GeneralBar[t]
                 IN IF recorded /\ (t \in DOMAIN old \/ FALSE) THEN [e EXCEPT !.changed = block] ELSE e]
  BY <1>4, <1>5, <1>6
<1>8. \A t \in DOMAIN old : GeneralLedger!Sound(old[t])
  <2> TAKE t \in DOMAIN old
  <2>1. t \in Tokens /\ Listed(map', t)
    BY <1>2, <1>4
  <2>2. Fits(Unpacked(Get(map', t)))
    BY <1>2, <2>1, EntryOf DEF WordOK
  <2>3. Unpacked(Get(map', t)) = IF recorded THEN [old[t] EXCEPT !.changed = block] ELSE old[t]
    BY <1>6
  <2>4. old[t] \in Balance
    OBVIOUS
  <2>5. Unpacked(Get(map', t)).cash = old[t].cash /\ Unpacked(Get(map', t)).managed = old[t].managed
    BY <2>3, <2>4 DEF Balance
  <2> QED  BY <2>2, <2>5 DEF Fits, Total, GeneralLedger!Sound, GeneralLedger!TotalOf
<1> QED  BY <1>3, <1>7, <1>8 DEF GeneralLedger!Write, GeneralLedger!Registered, GeneralBar

\* The word of a balance that fits, of a block so far.
LEMMA WordOf ==
    ASSUME NEW b \in Balance, Fits(b), b.changed <= block
    PROVE  ToBalance(b) \in Nat /\ Unpacked(ToBalance(b)) = b /\ WordOK(ToBalance(b))
<1>1. ToBalance(b) \in Nat /\ Unpacked(ToBalance(b)) = b
  BY PackingIsFaithful
<1>2. Most(ToBalance(b)) = b.changed
  BY <1>1 DEF Unpacked
<1> QED  BY <1>1, <1>2 DEF WordOK

\* The balance at a position.
LEMMA BalanceAt ==
    ASSUME GeneralIInv, NEW i \in Positions, i < map.length
    PROVE  /\ map.entries[i].key \in DOMAIN GeneralBar
           /\ Pos(map, map.entries[i].key) = i
           /\ GeneralBar[map.entries[i].key] = Unpacked(map.entries[i].value)
           /\ Unpacked(map.entries[i].value) \in Balance
<1> DEFINE t == map.entries[i].key
<1>1. MapOK(map) /\ t \in Tokens /\ Listed(map, t) /\ Pos(map, t) = i
      /\ map.entries[i].value \in Nat
  BY EntryAt DEF GeneralIInv, GeneralStorageOK, Entry
<1>2. Get(map, t) = map.entries[Pos(map, t)].value
  BY <1>1, EntryOf
<1>3. t \in DOMAIN GeneralBar /\ GeneralBar[t] = Unpacked(Get(map, t))
  BY <1>1 DEF GeneralBar
<1> QED  BY <1>1, <1>2, <1>3, UnpackedIsBalance

\* Two different tokens are at two different positions.
LEMMA PosIsInjective ==
    ASSUME GeneralIInv, NEW t \in DOMAIN GeneralBar
    PROVE  /\ t \in Tokens /\ Listed(map, t) /\ Pos(map, t) \in Positions /\ Pos(map, t) < map.length
           /\ map.entries[Pos(map, t)].key = t
           /\ GeneralBar[t] = Unpacked(map.entries[Pos(map, t)].value) /\ GeneralBar[t] \in Balance
<1>1. t \in Tokens /\ Listed(map, t) /\ GeneralBar[t] = Unpacked(Get(map, t)) /\ MapOK(map)
  BY DEF GeneralBar, GeneralIInv, GeneralStorageOK
<1>2. /\ Pos(map, t) \in Positions /\ Pos(map, t) < map.length
      /\ map.entries[Pos(map, t)].key = t /\ Get(map, t) = map.entries[Pos(map, t)].value
      /\ Get(map, t) \in Nat
  BY <1>1, EntryOf
<1> QED  BY <1>1, <1>2, UnpackedIsBalance

\* The two writes of a swap.
LEMMA TwoSets ==
    ASSUME NEW m \in Maps, NEW i \in Positions, NEW j \in Positions, i # j,
           NEW v \in Nat, NEW w \in Nat, NEW n, n = SetAt(SetAt(m, i, v), j, w)
    PROVE  /\ n \in Maps /\ n.length = m.length /\ n.indexes = m.indexes
           /\ n.entries[i] = [m.entries[i] EXCEPT !.value = v]
           /\ n.entries[j] = [m.entries[j] EXCEPT !.value = w]
           /\ \A k \in Positions : k # i /\ k # j => n.entries[k] = m.entries[k]
<1> DEFINE s == SetAt(m, i, v)
<1>1. m.entries \in [Positions -> Entry] /\ m.length \in 0..C /\ m.indexes \in [Keys -> 0..C]
  BY DEF Maps
<1>2. /\ s = [m EXCEPT !.entries = [m.entries EXCEPT ![i] = [m.entries[i] EXCEPT !.value = v]]]
  BY <1>1 DEF SetAt, Maps
<1>3. [m.entries[i] EXCEPT !.value = v] \in Entry
  BY <1>1 DEF Entry
<1>4. s \in Maps /\ s.length = m.length /\ s.indexes = m.indexes
      /\ s.entries = [m.entries EXCEPT ![i] = [m.entries[i] EXCEPT !.value = v]]
  BY <1>1, <1>2, <1>3 DEF Maps
<1>5. n = SetAt(s, j, w)
  OBVIOUS
<1> HIDE DEF s
<1>6. s.entries \in [Positions -> Entry]
  BY <1>4 DEF Maps
<1>7. n = [s EXCEPT !.entries = [s.entries EXCEPT ![j] = [s.entries[j] EXCEPT !.value = w]]]
  BY <1>4, <1>5, <1>6 DEF SetAt, Maps
<1>8. [s.entries[j] EXCEPT !.value = w] \in Entry
  BY <1>6 DEF Entry
<1>9. n \in Maps /\ n.length = s.length /\ n.indexes = s.indexes
      /\ n.entries = [s.entries EXCEPT ![j] = [s.entries[j] EXCEPT !.value = w]]
  BY <1>4, <1>6, <1>7, <1>8 DEF Maps
<1>10. /\ s.entries[i] = [m.entries[i] EXCEPT !.value = v] /\ s.entries[j] = m.entries[j]
       /\ \A k \in Positions : k # i => s.entries[k] = m.entries[k]
  BY <1>1, <1>4
<1>11. /\ n.entries[j] = [s.entries[j] EXCEPT !.value = w] /\ n.entries[i] = s.entries[i]
       /\ \A k \in Positions : k # j => n.entries[k] = s.entries[k]
  BY <1>6, <1>9
<1> QED  BY <1>4, <1>9, <1>10, <1>11

-----------------------------------------------------------------------------
(* General layout: swaps *)

\* Reading before a hook changes nothing.
LEMMA GeneralCallOnSwapRefines ==
    ASSUME GeneralIInv, NEW tokenIn \in Tokens, NEW tokenOut \in Tokens, GeneralCallOnSwap(tokenIn, tokenOut)
    PROVE  GeneralIInv' /\ UNCHANGED <<block, GeneralBar>>
<1>1. MapOK(map) /\ tokenIn # tokenOut /\ Listed(map, tokenIn) /\ Listed(map, tokenOut)
      /\ UNCHANGED <<block, map>>
      /\ call' = [fn |-> "swap", indexIn |-> Pos(map, tokenIn), indexOut |-> Pos(map, tokenOut),
                  balanceIn |-> Get(map, tokenIn), balanceOut |-> Get(map, tokenOut)]
  BY DEF GeneralIInv, GeneralStorageOK, GeneralCallOK, GeneralCallOnSwap, Pos
<1>2. /\ Pos(map, tokenIn) \in Positions /\ Pos(map, tokenIn) < map.length
      /\ map.entries[Pos(map, tokenIn)].key = tokenIn
      /\ Get(map, tokenIn) = map.entries[Pos(map, tokenIn)].value
      /\ Pos(map, tokenOut) \in Positions /\ Pos(map, tokenOut) < map.length
      /\ map.entries[Pos(map, tokenOut)].key = tokenOut
      /\ Get(map, tokenOut) = map.entries[Pos(map, tokenOut)].value
  BY <1>1, EntryOf
<1>3. PositionsOK' /\ GeneralReadIsCurrent'
  BY <1>1, <1>2 DEF PositionsOK, GeneralReadIsCurrent
<1>4. MapOK(map)'
  BY <1>1 DEF MapOK, WordOK
<1>5. UNCHANGED GeneralBar
  BY <1>1 DEF GeneralBar
<1> QED  BY <1>1, <1>3, <1>4, <1>5 DEF GeneralIInv, GeneralStorageOK, GeneralCallOK

\* The same of a join or exit.
LEMMA GeneralCallOnJoinOrExitRefines ==
    ASSUME GeneralIInv, GeneralCallOnJoinOrExit
    PROVE  GeneralIInv' /\ UNCHANGED <<block, GeneralBar>>
<1>1. MapOK(map) /\ map.length > 0 /\ UNCHANGED <<block, map>>
      /\ call' = [fn |-> "joinOrExit", balances |-> [i \in 0..(map.length - 1) |-> map.entries[i].value]]
  BY DEF GeneralIInv, GeneralStorageOK, GeneralCallOK, GeneralCallOnJoinOrExit
<1>2. PositionsOK' /\ GeneralReadIsCurrent'
  BY <1>1 DEF PositionsOK, GeneralReadIsCurrent
<1>3. MapOK(map)'
  BY <1>1 DEF MapOK, WordOK
<1>4. UNCHANGED GeneralBar
  BY <1>1 DEF GeneralBar
<1> QED  BY <1>1, <1>2, <1>3, <1>4 DEF GeneralIInv, GeneralStorageOK, GeneralCallOK

\* A swap changes the ledger when its hook returns.
LEMMA GeneralOnSwapReturnedRefines ==
    ASSUME GeneralIInv, NEW amountIn \in Amounts, NEW amountOut \in Amounts,
           GeneralOnSwapReturned(amountIn, amountOut)
    PROVE  GeneralIInv' /\ GeneralLedger!Next
<1> DEFINE i == call.indexIn
           j == call.indexOut
           minus == -amountOut
           in == ChangeCash(Unpacked(call.balanceIn), amountIn, block)
           out == ChangeCash(Unpacked(call.balanceOut), minus, block)
           tokenIn == map.entries[i].key
           tokenOut == map.entries[j].key
           old == [t \in {tokenIn, tokenOut} |-> IF t = tokenIn THEN GeneralLedger!Moved(GeneralBar[t], amountIn, 0)
                                                               ELSE GeneralLedger!Moved(GeneralBar[t], minus, 0)]
<1>1. /\ i \in Positions /\ j \in Positions /\ i # j /\ i < map.length /\ j < map.length
      /\ call.balanceIn = map.entries[i].value /\ call.balanceOut = map.entries[j].value
  BY DEF GeneralOnSwapReturned, GeneralIInv, GeneralStorageOK, GeneralCallOK, PositionsOK,
       GeneralReadIsCurrent
<1>2. /\ Fits(in) /\ Fits(out) /\ call' = NoCall /\ UNCHANGED block
      /\ map' = SetAt(SetAt(map, i, ToBalance(in)), j, ToBalance(out))
  BY DEF GeneralOnSwapReturned
<1>3. amountIn \in Int /\ minus \in Int /\ block \in Nat /\ MapOK(map) /\ map \in Maps
  <2>1. amountIn \in Int /\ minus \in Int
    BY PoolAssumption
  <2> QED  BY <2>1 DEF GeneralIInv, GeneralStorageOK, MapOK
<1>4. /\ tokenIn \in DOMAIN GeneralBar /\ Pos(map, tokenIn) = i /\ GeneralBar[tokenIn] \in Balance
      /\ GeneralBar[tokenIn] = Unpacked(call.balanceIn)
      /\ tokenOut \in DOMAIN GeneralBar /\ Pos(map, tokenOut) = j /\ GeneralBar[tokenOut] \in Balance
      /\ GeneralBar[tokenOut] = Unpacked(call.balanceOut)
  <2> HIDE DEF i, j
  <2> QED  BY <1>1, BalanceAt
<1> HIDE DEF minus
<1>5. in = ChangeCash(GeneralBar[tokenIn], amountIn, block) /\ out = ChangeCash(GeneralBar[tokenOut], minus, block)
  BY <1>4
<1> HIDE DEF i, j, in, out, tokenIn, tokenOut
<1>6. in \in Balance /\ out \in Balance
  BY <1>3, <1>4, <1>5, Mutations
<1>7. in.changed = block /\ out.changed = block
  BY <1>5 DEF ChangeCash
<1>8. /\ ToBalance(in) \in Nat /\ Unpacked(ToBalance(in)) = in /\ WordOK(ToBalance(in))
      /\ ToBalance(out) \in Nat /\ Unpacked(ToBalance(out)) = out /\ WordOK(ToBalance(out))
  BY <1>2, <1>3, <1>6, <1>7, WordOf
<1>9. /\ map' \in Maps /\ map'.length = map.length /\ map'.indexes = map.indexes
      /\ map'.entries[i] = [map.entries[i] EXCEPT !.value = ToBalance(in)]
      /\ map'.entries[j] = [map.entries[j] EXCEPT !.value = ToBalance(out)]
      /\ \A k \in Positions : k # i /\ k # j => map'.entries[k] = map.entries[k]
  BY <1>1, <1>2, <1>3, <1>8, TwoSets
<1>10. \A k \in Positions : map.entries[k] \in Entry /\ WordOK(map.entries[k].value)
  BY <1>3 DEF MapOK, Maps
<1>11. map'.entries[i].value = ToBalance(in) /\ map'.entries[j].value = ToBalance(out)
       /\ map'.entries[i].key = map.entries[i].key /\ map'.entries[j].key = map.entries[j].key
  BY <1>1, <1>9, <1>10 DEF Entry
<1>12. \A k \in Positions : /\ map'.entries[k].key = map.entries[k].key
                            /\ WordOK(map'.entries[k].value)
                            /\ ~(k < map.length) => map'.entries[k].value = map.entries[k].value
  BY <1>1, <1>8, <1>9, <1>10, <1>11
<1>13. tokenIn # tokenOut /\ DOMAIN old = {tokenIn, tokenOut}
  BY <1>1, <1>4
<1>14. /\ old[tokenIn] = GeneralLedger!Moved(GeneralBar[tokenIn], amountIn, 0)
       /\ old[tokenOut] = GeneralLedger!Moved(GeneralBar[tokenOut], minus, 0)
  BY <1>13
<1>15. old = [t \in {tokenIn, tokenOut} |-> IF t = tokenIn THEN GeneralLedger!Moved(GeneralBar[t], amountIn, 0)
                                                          ELSE GeneralLedger!Moved(GeneralBar[t], minus, 0)]
  OBVIOUS
<1> HIDE DEF old
<1>16. /\ old[tokenIn] \in Balance /\ old[tokenOut] \in Balance
       /\ in = [old[tokenIn] EXCEPT !.changed = block] /\ out = [old[tokenOut] EXCEPT !.changed = block]
  BY <1>3, <1>4, <1>5, <1>14 DEF GeneralLedger!Moved, Balance, ChangeCash
<1>17. \A t \in DOMAIN GeneralBar :
          Unpacked(map'.entries[Pos(map, t)].value) =
             IF t \in DOMAIN old THEN IF TRUE THEN [old[t] EXCEPT !.changed = block] ELSE old[t]
                                 ELSE GeneralBar[t]
  <2> TAKE t \in DOMAIN GeneralBar
  <2>1. CASE t = tokenIn
    BY <1>4, <1>8, <1>11, <1>13, <1>16, <2>1
  <2>2. CASE t = tokenOut
    BY <1>4, <1>8, <1>11, <1>13, <1>16, <2>2
  <2>3. CASE t # tokenIn /\ t # tokenOut
    <3>1. /\ Pos(map, t) \in Positions /\ map.entries[Pos(map, t)].key = t
          /\ GeneralBar[t] = Unpacked(map.entries[Pos(map, t)].value)
      BY PosIsInjective
    <3>2. Pos(map, t) # i /\ Pos(map, t) # j
      BY <2>3, <3>1 DEF tokenIn, tokenOut
    <3> QED  BY <1>9, <1>13, <2>3, <3>1, <3>2
  <2> QED  BY <2>1, <2>2, <2>3
<1>18. GeneralIInv' /\ GeneralLedger!Write(old, TRUE)
  BY <1>2, <1>4, <1>9, <1>12, <1>13, <1>16, <1>17, WriteRefines
<1>19. GeneralLedger!Swap(tokenIn, tokenOut, amountIn, amountOut)
  BY <1>4, <1>13, <1>15, <1>18 DEF GeneralLedger!Swap, GeneralLedger!Registered, GeneralBar, minus
<1>20. tokenIn \in Tokens /\ tokenOut \in Tokens
  BY <1>4 DEF GeneralBar
<1> QED  BY <1>18, <1>19, <1>20 DEF GeneralLedger!Next

-----------------------------------------------------------------------------
(* General layout: joins and exits *)

\* A join or exit changes the balances of all tokens, each by what its position tells.
LEMMA GeneralOnJoinOrExitReturnedRefines ==
    ASSUME GeneralIInv, call.fn = "joinOrExit",
           NEW difference \in [DOMAIN call.balances -> Differences], GeneralOnJoinOrExitReturned(difference)
    PROVE  GeneralIInv' /\ GeneralLedger!Next
<1> DEFINE below == 0..(map.length - 1)
           final == [i \in below |-> ChangeCash(Unpacked(map.entries[i].value), difference[i], block)]
           byToken == [t \in DOMAIN GeneralBar |-> difference[Pos(map, t)]]
           old == [t \in DOMAIN GeneralBar |-> GeneralLedger!Moved(GeneralBar[t], byToken[t], 0)]
           entries == [i \in Positions |->
                          IF i \in below THEN [map.entries[i] EXCEPT !.value = ToBalance(final[i])]
                                         ELSE map.entries[i]]
<1>1. /\ call.balances = [i \in below |-> map.entries[i].value] /\ map.length > 0
      /\ MapOK(map) /\ map \in Maps /\ block \in Nat
  BY DEF GeneralIInv, GeneralStorageOK, GeneralCallOK, PositionsOK, GeneralReadIsCurrent, MapOK
<1>2. DOMAIN call.balances = below /\ \A i \in below : call.balances[i] = map.entries[i].value
  BY <1>1
<1>3. final = [i \in DOMAIN call.balances |->
                  ChangeCash(Unpacked(call.balances[i]), difference[i], block)]
  BY <1>2
<1>4. /\ \A i \in below : Fits(final[i])
      /\ map' = [map EXCEPT !.entries = entries] /\ call' = NoCall /\ UNCHANGED block
  <2>1. DOMAIN final = below
    OBVIOUS
  <2> QED  BY <1>3, <2>1 DEF GeneralOnJoinOrExitReturned
<1>5. map.length \in 1..C /\ map.length \in Nat
  BY <1>1, FiniteTokens DEF Maps
<1>6. below \subseteq Positions /\ \A i \in Positions : i \in below <=> i < map.length
  BY <1>5, FiniteTokens DEF Positions, C
<1>7. \A i \in below : difference[i] \in Int
  <2>1. \A n \in Differences : n \in Int
    <3>1. \A n \in Amounts : n \in Int /\ -n \in Int
      BY PoolAssumption
    <3> QED  BY <3>1 DEF Differences
  <2> QED  BY <1>2, <2>1
<1>8. \A i \in below : /\ final[i] = ChangeCash(Unpacked(map.entries[i].value), difference[i], block)
                       /\ map.entries[i].key \in DOMAIN GeneralBar /\ Pos(map, map.entries[i].key) = i
                       /\ Unpacked(map.entries[i].value) \in Balance
  BY <1>6, BalanceAt
<1> HIDE DEF below, final
<1>9. \A i \in below : /\ final[i] \in Balance /\ final[i].changed = block
                       /\ final[i].cash = Unpacked(map.entries[i].value).cash + difference[i]
                       /\ final[i].managed = Unpacked(map.entries[i].value).managed
  <2> TAKE i \in below
  <2> DEFINE b == Unpacked(map.entries[i].value)
             d == difference[i]
  <2>1. b \in Balance /\ d \in Int /\ final[i] = ChangeCash(b, d, block)
    BY <1>7, <1>8
  <2> HIDE DEF b, d
  <2>2. final[i] \in Balance
    BY <1>1, <2>1, Mutations
  <2>3. final[i].changed = block /\ final[i].cash = b.cash + d /\ final[i].managed = b.managed
    BY <2>1 DEF ChangeCash
  <2> QED  BY <2>2, <2>3 DEF b, d
<1>10. \A i \in below : /\ ToBalance(final[i]) \in Nat /\ Unpacked(ToBalance(final[i])) = final[i]
                        /\ WordOK(ToBalance(final[i]))
  <2> TAKE i \in below
  <2>1. final[i] \in Balance /\ Fits(final[i]) /\ final[i].changed <= block
    BY <1>1, <1>4, <1>9
  <2> QED  BY <2>1, WordOf
<1>11. \A i \in Positions : map.entries[i] \in Entry /\ WordOK(map.entries[i].value)
  BY <1>1 DEF MapOK, Maps
<1>12. \A i \in Positions : entries[i] = IF i \in below
                                         THEN [map.entries[i] EXCEPT !.value = ToBalance(final[i])]
                                         ELSE map.entries[i]
  OBVIOUS
<1>13. entries \in [Positions -> Entry]
  <2>1. \A i \in below : [map.entries[i] EXCEPT !.value = ToBalance(final[i])] \in Entry
    BY <1>6, <1>10, <1>11 DEF Entry
  <2> QED  BY <1>11, <2>1
<1> HIDE DEF entries
<1>14. /\ map' \in Maps /\ map'.length = map.length /\ map'.indexes = map.indexes
       /\ map'.entries = entries
  BY <1>1, <1>4, <1>13 DEF Maps
<1>15. \A i \in below : entries[i].value = ToBalance(final[i]) /\ entries[i].key = map.entries[i].key
  BY <1>6, <1>11, <1>12 DEF Entry
<1>16. \A i \in Positions : /\ map'.entries[i].key = map.entries[i].key
                            /\ WordOK(map'.entries[i].value)
                            /\ ~(i < map.length) => map'.entries[i].value = map.entries[i].value
  <2> TAKE i \in Positions
  <2>1. CASE i \in below
    BY <1>6, <1>10, <1>14, <1>15, <2>1
  <2>2. CASE i \notin below
    BY <1>6, <1>11, <1>12, <1>14, <2>2
  <2> QED  BY <2>1, <2>2
\* the tokens of the positions
<1>17. \A t \in DOMAIN GeneralBar : /\ Pos(map, t) \in below /\ GeneralBar[t] \in Balance
                             /\ GeneralBar[t] = Unpacked(map.entries[Pos(map, t)].value)
                             /\ byToken[t] = difference[Pos(map, t)] /\ byToken[t] \in Int
                             /\ byToken[t] \in Differences
  <2> TAKE t \in DOMAIN GeneralBar
  <2>1. /\ Pos(map, t) \in Positions /\ Pos(map, t) < map.length /\ GeneralBar[t] \in Balance
        /\ GeneralBar[t] = Unpacked(map.entries[Pos(map, t)].value)
    BY PosIsInjective
  <2>2. Pos(map, t) \in below
    BY <1>6, <2>1
  <2> QED  BY <1>2, <1>7, <2>1, <2>2
<1>18. byToken \in [DOMAIN GeneralBar -> Differences]
  BY <1>17
<1> HIDE DEF byToken
<1>19. DOMAIN old = DOMAIN GeneralBar /\ \A t \in DOMAIN old : old[t] = GeneralLedger!Moved(GeneralBar[t], byToken[t], 0)
  OBVIOUS
<1>20. old = [t \in DOMAIN GeneralBar |-> GeneralLedger!Moved(GeneralBar[t], byToken[t], 0)]
  OBVIOUS
<1> HIDE DEF old
<1>21. \A t \in DOMAIN old : /\ old[t] \in Balance
                             /\ old[t].cash = GeneralBar[t].cash + byToken[t] /\ old[t].managed = GeneralBar[t].managed
  BY <1>17, <1>19 DEF GeneralLedger!Moved, Balance
<1>22. \A t \in DOMAIN GeneralBar :
          Unpacked(map'.entries[Pos(map, t)].value) =
             IF t \in DOMAIN old THEN IF TRUE THEN [old[t] EXCEPT !.changed = block] ELSE old[t]
                                 ELSE GeneralBar[t]
  <2> TAKE t \in DOMAIN GeneralBar
  <2> DEFINE i == Pos(map, t)
  <2>1. /\ i \in below /\ GeneralBar[t] = Unpacked(map.entries[i].value) /\ byToken[t] = difference[i]
    BY <1>17
  <2> HIDE DEF i
  <2>2. Unpacked(map'.entries[i].value) = final[i]
    BY <1>10, <1>14, <1>15, <2>1
  <2>3. /\ final[i] \in Balance /\ final[i].changed = block
        /\ final[i].cash = old[t].cash /\ final[i].managed = old[t].managed
    BY <1>9, <1>19, <1>21, <2>1
  <2>4. old[t] \in Balance
    BY <1>19, <1>21
  <2>5. final[i] = [old[t] EXCEPT !.changed = block]
    BY <2>3, <2>4 DEF Balance
  <2> QED  BY <1>19, <2>2, <2>5 DEF i
<1>23. GeneralIInv' /\ GeneralLedger!Write(old, TRUE)
  BY <1>4, <1>14, <1>16, <1>19, <1>21, <1>22, WriteRefines
<1>24. DOMAIN GeneralBar # {}
  <2>1. 0 \in below
    BY <1>5 DEF below
  <2> QED  BY <1>8, <2>1
<1>25. GeneralLedger!JoinOrExit(byToken)
  BY <1>18, <1>20, <1>23, <1>24 DEF GeneralLedger!JoinOrExit, GeneralLedger!Registered, GeneralBar
<1>26. \E d \in [DOMAIN GeneralBar -> GeneralLedger!Differences] : GeneralLedger!JoinOrExit(d)
  BY <1>18, <1>25 DEF GeneralLedger!Differences, Differences
<1> QED  BY <1>23, <1>26 DEF GeneralLedger!Next, GeneralLedger!Registered, GeneralBar

-----------------------------------------------------------------------------
(* General layout: asset managers *)

\* An operation of the asset manager sets the balance of one token.
LEMMA UpdateRefines ==
    ASSUME GeneralIInv, NEW t \in Tokens, NEW new, GeneralUpdate(t, new), NEW old \in Balance,
           NEW recorded \in BOOLEAN, new \in Balance, new.changed <= block,
           new = IF recorded THEN [old EXCEPT !.changed = block] ELSE old
    PROVE  GeneralIInv' /\ t \in DOMAIN GeneralBar /\ GeneralLedger!Write([u \in {t} |-> old], recorded)
<1> DEFINE i == Pos(map, t)
           olds == [u \in {t} |-> old]
<1>1. /\ call' = NoCall /\ UNCHANGED block /\ Fits(new) /\ Listed(map, t)
      /\ map' = [map EXCEPT !.entries[i].value = ToBalance(new)]
      /\ MapOK(map) /\ map \in Maps /\ block \in Nat
  BY DEF GeneralUpdate, Idle, Set, Pos, GeneralIInv, GeneralStorageOK, MapOK
<1>2. t \in DOMAIN GeneralBar
  BY <1>1 DEF GeneralBar
<1>3. i \in Positions /\ i < map.length /\ map.entries[i].key = t
  BY <1>2, PosIsInjective
<1>4. ToBalance(new) \in Nat /\ Unpacked(ToBalance(new)) = new /\ WordOK(ToBalance(new))
  BY <1>1, WordOf
<1> HIDE DEF i
<1>5. map.entries \in [Positions -> Entry] /\ \A k \in Positions : WordOK(map.entries[k].value)
  BY <1>1 DEF MapOK, Maps
<1> DEFINE entry == [map.entries[i] EXCEPT !.value = ToBalance(new)]
<1>6. entry \in Entry /\ entry.key = map.entries[i].key /\ entry.value = ToBalance(new)
  BY <1>3, <1>4, <1>5 DEF Entry
<1>7. map' = [map EXCEPT !.entries = [map.entries EXCEPT ![i] = entry]]
  BY <1>1, <1>5
<1> HIDE DEF entry
<1>8. /\ map' \in Maps /\ map'.length = map.length /\ map'.indexes = map.indexes
      /\ map'.entries = [map.entries EXCEPT ![i] = entry]
  BY <1>1, <1>5, <1>6, <1>7 DEF Maps
<1>9. \A k \in Positions : /\ map'.entries[k].key = map.entries[k].key
                           /\ WordOK(map'.entries[k].value)
                           /\ ~(k < map.length) => map'.entries[k].value = map.entries[k].value
  BY <1>3, <1>4, <1>5, <1>6, <1>8
<1>10. DOMAIN olds = {t} /\ \A u \in DOMAIN olds : olds[u] = old
  OBVIOUS
<1> HIDE DEF olds
<1>11. \A u \in DOMAIN GeneralBar :
          Unpacked(map'.entries[Pos(map, u)].value) =
             IF u \in DOMAIN olds
             THEN IF recorded THEN [olds[u] EXCEPT !.changed = block] ELSE olds[u]
             ELSE GeneralBar[u]
  <2> TAKE u \in DOMAIN GeneralBar
  <2>1. CASE u = t
    BY <1>3, <1>4, <1>5, <1>6, <1>8, <1>10, <2>1 DEF i
  <2>2. CASE u # t
    <3>1. /\ Pos(map, u) \in Positions /\ map.entries[Pos(map, u)].key = u
          /\ GeneralBar[u] = Unpacked(map.entries[Pos(map, u)].value)
      BY PosIsInjective
    <3>2. Pos(map, u) # i
      BY <1>3, <2>2, <3>1
    <3> QED  BY <1>5, <1>8, <1>10, <2>2, <3>1, <3>2
  <2> QED  BY <2>1, <2>2
<1>12. GeneralIInv' /\ GeneralLedger!Write(olds, recorded)
  BY <1>1, <1>2, <1>8, <1>9, <1>10, <1>11, WriteRefines
<1> QED  BY <1>2, <1>12 DEF olds

\* What a listed token has, and since when.
LEMMA BalanceNow ==
    ASSUME GeneralIInv, NEW t \in Tokens, Listed(map, t)
    PROVE  /\ t \in DOMAIN GeneralBar /\ GeneralBar[t] = Unpacked(Get(map, t)) /\ GeneralBar[t] \in Balance
           /\ GeneralBar[t].changed <= block /\ block \in Nat
<1>1. GeneralBar[t] = Unpacked(Get(map, t)) /\ t \in DOMAIN GeneralBar
  BY DEF GeneralBar
<1>2. WordOK(Get(map, t)) /\ Get(map, t) \in Nat
  BY EntryOf DEF GeneralIInv, GeneralStorageOK
<1> QED  BY <1>1, <1>2, UnpackedIsBalance DEF WordOK, Unpacked, GeneralIInv, GeneralStorageOK

\* What goes from the cash to the manager, or comes back, leaves the block of the last change.
LEMMA GeneralTransferRefines ==
    ASSUME GeneralIInv, NEW t \in Tokens, NEW n \in Int, NEW minus, minus = -n,
           GeneralUpdate(t, CashToManaged(Unpacked(Get(map, t)), n))
    PROVE  /\ GeneralIInv' /\ t \in DOMAIN GeneralBar
           /\ GeneralLedger!Write([u \in {t} |-> GeneralLedger!Moved(GeneralBar[t], minus, n)], FALSE)
<1> DEFINE new == CashToManaged(Unpacked(Get(map, t)), n)
<1>1. Listed(map, t)
  BY DEF GeneralUpdate
<1>2. /\ GeneralBar[t] = Unpacked(Get(map, t)) /\ GeneralBar[t] \in Balance
      /\ GeneralBar[t].changed <= block /\ block \in Nat
  BY <1>1, BalanceNow
<1>3. new = CashToManaged(GeneralBar[t], n)
  BY <1>2
<1>4. new \in Balance
  BY <1>2, <1>3, Mutations
<1>5. new.changed <= block /\ new = GeneralLedger!Moved(GeneralBar[t], minus, n)
  BY <1>2, <1>3 DEF CashToManaged, GeneralLedger!Moved, Balance
<1>6. GeneralUpdate(t, new)
  OBVIOUS
<1> HIDE DEF new
<1>7. new = IF FALSE THEN [new EXCEPT !.changed = block] ELSE new
  OBVIOUS
<1>8. GeneralIInv' /\ t \in DOMAIN GeneralBar /\ GeneralLedger!Write([u \in {t} |-> new], FALSE)
  BY <1>4, <1>5, <1>6, <1>7, UpdateRefines
<1> QED  BY <1>5, <1>8

\* A report of the manager is recorded.
LEMMA GeneralReportRefines ==
    ASSUME GeneralIInv, NEW t \in Tokens, NEW n \in Int,
           GeneralUpdate(t, SetManaged(Unpacked(Get(map, t)), n, block))
    PROVE  GeneralIInv' /\ GeneralLedger!Report(t, n)
<1> DEFINE new == SetManaged(Unpacked(Get(map, t)), n, block)
           old == [GeneralBar[t] EXCEPT !.managed = n]
<1>1. Listed(map, t)
  BY DEF GeneralUpdate
<1>2. /\ GeneralBar[t] = Unpacked(Get(map, t)) /\ GeneralBar[t] \in Balance /\ block \in Nat
  BY <1>1, BalanceNow
<1>3. new = SetManaged(GeneralBar[t], n, block)
  BY <1>2
<1>4. new \in Balance
  BY <1>2, <1>3, Mutations
<1>5. old \in Balance /\ new = [old EXCEPT !.changed = block] /\ new.changed <= block
  <2>1. old = [cash |-> GeneralBar[t].cash, managed |-> n, changed |-> GeneralBar[t].changed]
    BY <1>2 DEF Balance
  <2>2. new = [cash |-> GeneralBar[t].cash, managed |-> n, changed |-> block]
    BY <1>3 DEF SetManaged
  <2> HIDE DEF old, new
  <2> QED  BY <1>2, <2>1, <2>2 DEF Balance
<1>6. GeneralUpdate(t, new)
  OBVIOUS
<1> HIDE DEF new, old
<1>7. new = IF TRUE THEN [old EXCEPT !.changed = block] ELSE old
  BY <1>5
<1>8. GeneralIInv' /\ t \in DOMAIN GeneralBar /\ GeneralLedger!Write([u \in {t} |-> old], TRUE)
  BY <1>4, <1>5, <1>6, <1>7, UpdateRefines
<1> QED  BY <1>8 DEF GeneralLedger!Report, GeneralLedger!Registered, GeneralBar, old

-----------------------------------------------------------------------------
(* General layout: the invariant and the refinement *)

\* Each step keeps the invariant, and is a step of the PoolLedger or none at all.
LEMMA GeneralStepRefines ==
    GeneralIInv /\ [GeneralNext]_generalVars => GeneralIInv' /\ [GeneralLedger!Next]_<<block, GeneralBar>>
<1> SUFFICES ASSUME GeneralIInv, [GeneralNext]_generalVars
             PROVE  GeneralIInv' /\ [GeneralLedger!Next]_<<block, GeneralBar>>
  OBVIOUS
<1>1. CASE UNCHANGED generalVars
  BY <1>1 DEF generalVars, GeneralIInv, GeneralStorageOK, GeneralCallOK, PositionsOK,
       GeneralReadIsCurrent, MapOK, WordOK, GeneralBar
<1>2. CASE GeneralNewBlock
  <2>1. block' \in 1..MaxBlock /\ block <= block' /\ call' = NoCall /\ UNCHANGED map
    BY <1>2, PoolAssumption DEF GeneralNewBlock, Idle, GeneralIInv, GeneralStorageOK
  <2>2. GeneralIInv' /\ UNCHANGED GeneralBar
    BY <2>1, Idles
  <2> QED  BY <1>2, <2>2 DEF GeneralNewBlock, GeneralLedger!Next, GeneralLedger!NewBlock, GeneralBar
<1>3. CASE GeneralRevert
  <2>1. block' \in 1..MaxBlock /\ block <= block' /\ call' = NoCall /\ UNCHANGED map
    BY <1>3 DEF GeneralRevert, GeneralIInv, GeneralStorageOK
  <2>2. GeneralIInv' /\ UNCHANGED GeneralBar
    BY <2>1, Idles
  <2> QED  BY <1>3, <2>2 DEF GeneralRevert
<1>4. ASSUME NEW t \in Tokens, NEW n \in Amounts, GeneralWithdrawPoolBalance(t, n)
      PROVE  GeneralIInv' /\ GeneralLedger!Next
  <2> DEFINE minus == -n
  <2>1. n \in Int /\ minus = -n
    BY PoolAssumption
  <2>2. GeneralUpdate(t, CashToManaged(Unpacked(Get(map, t)), n))
    BY <1>4 DEF GeneralWithdrawPoolBalance
  <2> HIDE DEF minus
  <2>3. /\ GeneralIInv' /\ t \in DOMAIN GeneralBar
        /\ GeneralLedger!Write([u \in {t} |-> GeneralLedger!Moved(GeneralBar[t], minus, n)], FALSE)
    BY <2>1, <2>2, GeneralTransferRefines
  <2>4. GeneralLedger!Withdraw(t, n)
    BY <2>3 DEF GeneralLedger!Withdraw, GeneralLedger!Registered, GeneralBar, minus
  <2> QED  BY <2>3, <2>4 DEF GeneralLedger!Next
<1>5. ASSUME NEW t \in Tokens, NEW n \in Amounts, GeneralDepositPoolBalance(t, n)
      PROVE  GeneralIInv' /\ GeneralLedger!Next
  <2> DEFINE minus == -n
  <2>1. minus \in Int /\ n = -minus
    BY PoolAssumption
  <2>2. GeneralUpdate(t, CashToManaged(Unpacked(Get(map, t)), minus))
    BY <1>5 DEF GeneralDepositPoolBalance
  <2> HIDE DEF minus
  <2>3. /\ GeneralIInv' /\ t \in DOMAIN GeneralBar
        /\ GeneralLedger!Write([u \in {t} |-> GeneralLedger!Moved(GeneralBar[t], n, minus)], FALSE)
    BY <2>1, <2>2, GeneralTransferRefines
  <2>4. GeneralLedger!Deposit(t, n)
    BY <2>3 DEF GeneralLedger!Deposit, GeneralLedger!Registered, GeneralBar, minus
  <2> QED  BY <2>3, <2>4 DEF GeneralLedger!Next
<1>6. ASSUME NEW t \in Tokens, NEW n \in Amounts, GeneralUpdateManagedBalance(t, n)
      PROVE  GeneralIInv' /\ GeneralLedger!Next
  <2>1. n \in Int
    BY PoolAssumption
  <2>2. GeneralIInv' /\ GeneralLedger!Report(t, n)
    BY <1>6, <2>1, GeneralReportRefines DEF GeneralUpdateManagedBalance
  <2> QED  BY <2>2 DEF GeneralLedger!Next
<1> QED
  BY <1>1, <1>2, <1>3, <1>4, <1>5, <1>6, GeneralRegisterTokensRefines, GeneralDeregisterTokensRefines,
     GeneralCallOnSwapRefines, GeneralOnSwapReturnedRefines, GeneralCallOnJoinOrExitRefines,
     GeneralOnJoinOrExitReturnedRefines DEF GeneralNext

\* Each step records the changes of totals, in the ledger that the layout stands for.
LEMMA GeneralStepIsRecorded ==
    ASSUME GeneralIInv, [GeneralLedger!Next]_<<block, GeneralBar>>
    PROVE  Recorded(GeneralBar, GeneralBar', block)
<1>1. block \in Nat
  BY DEF GeneralIInv, GeneralStorageOK
<1>2. Dated(GeneralBar, block)
  <2> SUFFICES ASSUME NEW t \in DOMAIN GeneralBar PROVE GeneralBar[t] \in Balance /\ GeneralBar[t].changed <= block
    BY DEF Dated
  <2>1. t \in Tokens /\ Listed(map, t)
    BY DEF GeneralBar
  <2> QED  BY <2>1, BalanceNow
<1>3. \A t \in DOMAIN GeneralBar : GeneralBar[t] \in Balance
  BY <1>2 DEF Dated
<1>4. ASSUME NEW new, NEW recorded \in BOOLEAN, GeneralLedger!Write(new, recorded),
             \A t \in DOMAIN new :
                /\ new[t] \in Balance
                /\ recorded \/ (new[t].changed = GeneralBar[t].changed /\ Total(new[t]) = Total(GeneralBar[t]))
      PROVE  Recorded(GeneralBar, GeneralBar', block)
  <2>1. GeneralBar' = [t \in DOMAIN GeneralBar |->
                   LET e == IF t \in DOMAIN new THEN new[t] ELSE GeneralBar[t]
                   IN IF recorded /\ (t \in DOMAIN new \/ FALSE)
                      THEN [e EXCEPT !.changed = block] ELSE e]
    BY <1>4 DEF GeneralLedger!Write, GeneralLedger!Registered, GeneralBar
  <2> QED  BY <1>1, <1>2, <1>4, <2>1, WriteIsRecorded
<1>5. ASSUME \A t \in DOMAIN GeneralBar \cap DOMAIN GeneralBar' : GeneralBar'[t] = GeneralBar[t]
      PROVE  Recorded(GeneralBar, GeneralBar', block)
  BY <1>3, <1>5 DEF Recorded, Balance
<1>6. CASE UNCHANGED GeneralBar
  BY <1>5, <1>6
<1>7. ASSUME NEW toks, GeneralLedger!Register(toks) PROVE Recorded(GeneralBar, GeneralBar', block)
  <2>1. /\ toks \cap DOMAIN GeneralBar = {}
        /\ GeneralBar' = [t \in DOMAIN GeneralBar \cup toks |-> IF t \in toks THEN GeneralLedger!Empty ELSE GeneralBar[t]]
    BY <1>7 DEF GeneralLedger!Register, GeneralLedger!Registered, GeneralBar
  <2> QED  BY <1>5, <2>1
<1>8. ASSUME NEW toks, GeneralLedger!Deregister(toks) PROVE Recorded(GeneralBar, GeneralBar', block)
  <2>1. GeneralBar' = [t \in DOMAIN GeneralBar \ toks |-> GeneralBar[t]]
    BY <1>8 DEF GeneralLedger!Deregister, GeneralLedger!Registered, GeneralBar
  <2> QED  BY <1>5, <2>1
<1>9. ASSUME NEW t \in DOMAIN GeneralBar, NEW cash \in Int, NEW managed \in Int
      PROVE  /\ GeneralLedger!Moved(GeneralBar[t], cash, managed) \in Balance
             /\ cash + managed = 0 => LET new == GeneralLedger!Moved(GeneralBar[t], cash, managed)
                                      IN new.changed = GeneralBar[t].changed /\ Total(new) = Total(GeneralBar[t])
  BY <1>3 DEF GeneralLedger!Moved, Balance, Total
<1>10. \A n \in Amounts : n \in Int /\ -n \in Int /\ n + (-n) = 0 /\ (-n) + n = 0
  BY PoolAssumption
<1>11. ASSUME NEW tokenIn, NEW tokenOut, NEW amountIn \in Amounts, NEW amountOut \in Amounts,
              GeneralLedger!Swap(tokenIn, tokenOut, amountIn, amountOut)
       PROVE  Recorded(GeneralBar, GeneralBar', block)
  <2> DEFINE minus == -amountOut
             new == [t \in {tokenIn, tokenOut} |->
                        IF t = tokenIn THEN GeneralLedger!Moved(GeneralBar[t], amountIn, 0)
                                       ELSE GeneralLedger!Moved(GeneralBar[t], minus, 0)]
  <2>1. {tokenIn, tokenOut} \subseteq DOMAIN GeneralBar /\ GeneralLedger!Write(new, TRUE)
    BY <1>11 DEF GeneralLedger!Swap, GeneralLedger!Registered, GeneralBar
  <2>2. amountIn \in Int /\ minus \in Int /\ 0 \in Int
    BY <1>10
  <2> HIDE DEF minus
  <2>3. \A t \in DOMAIN new : new[t] \in Balance
    BY <1>9, <2>1, <2>2
  <2> HIDE DEF new
  <2> QED  BY <1>4, <2>1, <2>3
<1>12. ASSUME NEW difference \in [DOMAIN GeneralBar -> GeneralLedger!Differences], GeneralLedger!JoinOrExit(difference)
       PROVE  Recorded(GeneralBar, GeneralBar', block)
  <2> DEFINE new == [t \in DOMAIN GeneralBar |-> GeneralLedger!Moved(GeneralBar[t], difference[t], 0)]
  <2>1. GeneralLedger!Write(new, TRUE)
    BY <1>12 DEF GeneralLedger!JoinOrExit, GeneralLedger!Registered, GeneralBar
  <2>2. \A t \in DOMAIN GeneralBar : difference[t] \in Int
    BY <1>10 DEF GeneralLedger!Differences
  <2>3. \A t \in DOMAIN new : new[t] \in Balance
    <3> TAKE t \in DOMAIN GeneralBar
    <3> DEFINE d == difference[t]
    <3>1. d \in Int /\ 0 \in Int /\ new[t] = GeneralLedger!Moved(GeneralBar[t], d, 0)
      BY <2>2
    <3> HIDE DEF d
    <3> QED  BY <1>9, <3>1
  <2> HIDE DEF new
  <2> QED  BY <1>4, <2>1, <2>3
<1>13. ASSUME NEW t, NEW n \in Amounts, GeneralLedger!Withdraw(t, n) \/ GeneralLedger!Deposit(t, n)
       PROVE  Recorded(GeneralBar, GeneralBar', block)
  <2> DEFINE minus == -n
             new(x, y) == [u \in {t} |-> GeneralLedger!Moved(GeneralBar[t], x, y)]
  <2>1. t \in DOMAIN GeneralBar /\ (GeneralLedger!Write(new(minus, n), FALSE) \/ GeneralLedger!Write(new(n, minus), FALSE))
    BY <1>13 DEF GeneralLedger!Withdraw, GeneralLedger!Deposit, GeneralLedger!Registered, GeneralBar
  <2>2. n \in Int /\ minus \in Int /\ minus + n = 0 /\ n + minus = 0
    BY <1>10
  <2> HIDE DEF minus
  <2>3. ASSUME NEW x \in Int, NEW y \in Int, x + y = 0, GeneralLedger!Write(new(x, y), FALSE)
        PROVE  Recorded(GeneralBar, GeneralBar', block)
    <3> DEFINE one == new(x, y)
    <3>1. \A u \in DOMAIN one : /\ one[u] \in Balance /\ one[u].changed = GeneralBar[u].changed
                                /\ Total(one[u]) = Total(GeneralBar[u])
      BY <1>9, <2>1, <2>3
    <3> HIDE DEF one
    <3> QED  BY <1>4, <2>3, <3>1 DEF one
  <2> HIDE DEF new
  <2> QED  BY <2>1, <2>2, <2>3
<1>14. ASSUME NEW t, NEW n \in Amounts, GeneralLedger!Report(t, n)
       PROVE  Recorded(GeneralBar, GeneralBar', block)
  <2> DEFINE new == [u \in {t} |-> [GeneralBar[t] EXCEPT !.managed = n]]
  <2>1. t \in DOMAIN GeneralBar /\ GeneralLedger!Write(new, TRUE)
    BY <1>14 DEF GeneralLedger!Report, GeneralLedger!Registered, GeneralBar
  <2>2. \A u \in DOMAIN new : new[u] \in Balance
    BY <1>3, <1>10, <2>1 DEF Balance
  <2> HIDE DEF new
  <2> QED  BY <1>4, <2>1, <2>2
<1>15. CASE GeneralLedger!NewBlock
  BY <1>6, <1>15 DEF GeneralLedger!NewBlock, GeneralBar
<1> QED
  BY <1>6, <1>7, <1>8, <1>11, <1>12, <1>13, <1>14, <1>15
     DEF GeneralLedger!Next, GeneralLedger!Registered, GeneralBar

\* The inductive invariant holds in every reachable state.
THEOREM GeneralInvariance == GeneralSpec => []GeneralIInv
<1>1. GeneralIInv /\ [GeneralNext]_generalVars => GeneralIInv'
  BY GeneralStepRefines
<1> QED  BY <1>1, GeneralInitIInv, PTL DEF GeneralSpec

\* What follows from it about the storage.
LEMMA GeneralStorageParts == GeneralStorageOK => GeneralTypeOK /\ IndexesMatchEntries
<1> SUFFICES ASSUME GeneralStorageOK PROVE GeneralTypeOK /\ IndexesMatchEntries
  OBVIOUS
<1>1. GeneralTypeOK
  BY DEF GeneralStorageOK, GeneralTypeOK, MapOK, WordOK, Maps, Entry, Keys, C, Fits
<1>2. IndexesMatchEntries
  BY DEF GeneralStorageOK, IndexesMatchEntries, MapOK, Pos
<1> QED  BY <1>1, <1>2

\* The two halves of the EnumerableMap stay in step, whatever lists of tokens are registered and
\* deregistered.
THEOREM HalvesAreInStep == GeneralSpec => []IndexesMatchEntries
<1>1. GeneralIInv => IndexesMatchEntries
  BY GeneralStorageParts DEF GeneralIInv
<1> QED  BY <1>1, GeneralInvariance, PTL

\* The positions and words that were read before a hook are what is stored when it returns.
THEOREM PositionsStayValid == GeneralSpec => []GeneralReadIsCurrent
<1>1. GeneralIInv => GeneralReadIsCurrent
  BY DEF GeneralIInv, GeneralCallOK
<1> QED  BY <1>1, GeneralInvariance, PTL

\* The General layout implements the PoolLedger.
THEOREM GeneralRefinement == GeneralSpec => GeneralKeepsLedger
<1>1. GeneralIInv /\ [GeneralNext]_generalVars => [GeneralLedger!Next]_<<block, GeneralBar>>
  BY GeneralStepRefines
<1> QED
  BY <1>1, GeneralInitIInv, GeneralInvariance, PTL DEF GeneralSpec, GeneralKeepsLedger,
       GeneralLedger!Spec, GeneralLedger!vars, GeneralBar

-----------------------------------------------------------------------------
(* The layouts over the blocks *)

\* A step comes in the same block as the one before, or in the next.
Moves == block' = block \/ (block < MaxBlock /\ block' = block + 1)

\* A step of the General layout.
LEMMA GeneralMoves == GeneralNext => Moves
BY DEF Moves, GeneralNext, GeneralNewBlock, GeneralRegisterTokens, GeneralDeregisterTokens,
       GeneralCallOnSwap, GeneralOnSwapReturned, GeneralCallOnJoinOrExit,
       GeneralOnJoinOrExitReturned, GeneralRevert, GeneralUpdate,
       GeneralWithdrawPoolBalance, GeneralDepositPoolBalance, GeneralUpdateManagedBalance,
       Idle

\* What no step touches stays right.
LEMMA GeneralStays == GeneralStorageOK /\ UNCHANGED map /\ Moves => GeneralStorageOK'
<1> SUFFICES ASSUME GeneralStorageOK, UNCHANGED map, Moves PROVE GeneralStorageOK'
  OBVIOUS
<1>1. block' \in 1..MaxBlock /\ block <= block'
  BY PoolAssumption DEF Moves, GeneralStorageOK
<1> QED
  BY <1>1, GeneralStorageStays, PoolAssumption, LimitAssumption

\* A step of the layout on its own is one of its ledger, which records what it changes.
LEMMA GeneralSteps ==
    ASSUME GeneralIInv, GeneralNext
    PROVE  GeneralIInv' /\ [GeneralLedger!Next]_<<block, GeneralBar>> /\ Recorded(GeneralBar, GeneralBar', block)
<1>1. GeneralIInv' /\ [GeneralLedger!Next]_<<block, GeneralBar>>
  BY GeneralStepRefines
<1>2. Recorded(GeneralBar, GeneralBar', block)
  BY <1>1, GeneralStepIsRecorded, PoolAssumption, LimitAssumption
<1> QED  BY <1>1, <1>2

\* A step of the Minimal Swap Info layout.
LEMMA MinimalMoves == MinimalNext => Moves
BY DEF Moves, MinimalNext, MinimalNewBlock, MinimalRegisterTokens, MinimalDeregisterTokens,
       MinimalCallOnSwap, MinimalOnSwapReturned, MinimalCallOnJoinOrExit,
       MinimalOnJoinOrExitReturned, MinimalRevert, MinimalUpdate,
       MinimalWithdrawPoolBalance, MinimalDepositPoolBalance, MinimalUpdateManagedBalance,
       Idle

\* What no step touches stays right.
LEMMA MinimalStays == MinimalStorageOK /\ UNCHANGED <<balances, tokens>> /\ Moves => MinimalStorageOK'
<1> SUFFICES ASSUME MinimalStorageOK, UNCHANGED <<balances, tokens>>, Moves PROVE MinimalStorageOK'
  OBVIOUS
<1>1. block' \in 1..MaxBlock /\ block <= block'
  BY PoolAssumption DEF Moves, MinimalStorageOK
<1> QED
  BY <1>1, MinimalStorageStays, PoolAssumption, LimitAssumption

\* A step of the layout on its own is one of its ledger, which records what it changes.
LEMMA MinimalSteps ==
    ASSUME MinimalIInv, MinimalNext
    PROVE  MinimalIInv' /\ [MinimalLedger!Next]_<<block, MinimalBar>> /\ Recorded(MinimalBar, MinimalBar', block)
<1>1. MinimalIInv' /\ [MinimalLedger!Next]_<<block, MinimalBar>>
  BY MinimalStepRefines, MinimalNextIInv
<1>2. Recorded(MinimalBar, MinimalBar', block)
  BY <1>1, MinimalStepIsRecorded, PoolAssumption, LimitAssumption
<1> QED  BY <1>1, <1>2

\* A step of the Two Token layout.
LEMMA TwoTokenMoves == TwoTokenNext => Moves
BY DEF Moves, TwoTokenNext, TwoTokenNewBlock, TwoTokenRegisterTokens,
       TwoTokenDeregisterTokens, TwoTokenCallOnSwap, TwoTokenOnSwapReturned,
       TwoTokenCallOnJoinOrExit, TwoTokenOnJoinOrExitReturned, TwoTokenRevert,
       TwoTokenUpdate, TwoTokenWithdrawPoolBalance, TwoTokenDepositPoolBalance,
       TwoTokenUpdateManagedBalance, Idle

\* What no step touches stays right.
LEMMA TwoTokenStays == TwoTokenStorageOK /\ UNCHANGED <<tokenA, tokenB, pairBalances>> /\ Moves => TwoTokenStorageOK'
<1> SUFFICES ASSUME TwoTokenStorageOK, UNCHANGED <<tokenA, tokenB, pairBalances>>, Moves PROVE TwoTokenStorageOK'
  OBVIOUS
<1>1. block' \in 1..MaxBlock /\ block <= block'
  BY PoolAssumption DEF Moves, TwoTokenStorageOK
<1> QED
  BY <1>1, TwoTokenStorageStays, PoolAssumption, LimitAssumption

\* A step of the layout on its own is one of its ledger, which records what it changes.
LEMMA TwoTokenSteps ==
    ASSUME DistinctTokens, TwoTokenIInv, TwoTokenNext
    PROVE  TwoTokenIInv' /\ [TwoTokenLedger!Next]_<<block, TwoTokenBar>> /\ Recorded(TwoTokenBar, TwoTokenBar', block)
<1>1. TwoTokenIInv' /\ [TwoTokenLedger!Next]_<<block, TwoTokenBar>>
  BY TwoTokenStepRefines
<1>2. Recorded(TwoTokenBar, TwoTokenBar', block)
  BY <1>1, TwoTokenStepIsRecorded, PoolAssumption, LimitAssumption
<1> QED  BY <1>1, <1>2

-----------------------------------------------------------------------------
(* The inductive invariant *)

\* The storage of every layout is right; what a hook that is running was called with is right for
\* the layout that the Pool chose. Nothing happens to a Pool before it registers.
PInv ==
    /\ GeneralStorageOK /\ MinimalStorageOK /\ TwoTokenStorageOK
    /\ specialization = "general" => GeneralCallOK
    /\ specialization = "minimalSwapInfo" => MinimalCallOK
    /\ specialization = "twoToken" => TwoTokenCallOK
    /\ specialization = "none" => call = NoCall /\ DOMAIN GeneralBar = {}
    /\ specialization \in {"none", "general", "minimalSwapInfo", "twoToken"}

\* Between two operations no hook is running.
LEMMA NoCallIsOK == call' = NoCall => GeneralCallOK' /\ MinimalCallOK' /\ TwoTokenCallOK'
BY DEF NoCall, GeneralCallOK, PositionsOK, GeneralReadIsCurrent, MinimalCallOK,
       MinimalReadIsCurrent, TwoTokenCallOK, TwoTokenReadIsCurrent

\* Before registerPool.
LEMMA InitPInv ==
    Init => PInv /\ GeneralLedger!Init /\ MinimalLedger!Init /\ TwoTokenLedger!Init
<1> SUFFICES ASSUME Init
             PROVE  PInv /\ GeneralLedger!Init /\ MinimalLedger!Init /\ TwoTokenLedger!Init
  OBVIOUS
<1>1. GeneralInit /\ MinimalInit /\ TwoTokenInit /\ specialization = "none"
  BY DEF Init
<1>2. /\ GeneralIInv /\ MinimalIInv /\ TwoTokenIInv
      /\ GeneralLedger!Init /\ MinimalLedger!Init /\ TwoTokenLedger!Init
  BY <1>1, GeneralInitIInv, MinimalInitIInv, TwoTokenInitIInv
<1>3. call = NoCall
  BY <1>1 DEF GeneralInit, NoCall
<1>4. DOMAIN GeneralBar = {}
  BY <1>2 DEF GeneralLedger!Init, GeneralBar
<1> QED  BY <1>1, <1>2, <1>3, <1>4 DEF PInv, GeneralIInv, MinimalIInv, TwoTokenIInv

\* registerPool leaves the storage of every layout as it is.
LEMMA RegisterStep ==
    ASSUME PInv, NEW s \in {"general", "minimalSwapInfo", "twoToken"}, RegisterPool(s)
    PROVE  /\ PInv' /\ UNCHANGED <<block, map, balances, tokens, tokenA, tokenB, pairBalances>>
           /\ specialization = "none" /\ specialization' = s
<1>1. /\ UNCHANGED <<block, call, map, balances, tokens, tokenA, tokenB, pairBalances>>
      /\ specialization = "none" /\ specialization' = s
  BY DEF RegisterPool, generalStorage, minimalStorage, twoTokenStorage
<1>2. Moves
  BY <1>1 DEF Moves
<1>3. GeneralStorageOK' /\ MinimalStorageOK' /\ TwoTokenStorageOK'
  BY <1>1, <1>2, GeneralStays, MinimalStays, TwoTokenStays DEF PInv
<1>4. call' = NoCall
  BY <1>1 DEF PInv
<1>5. GeneralCallOK' /\ MinimalCallOK' /\ TwoTokenCallOK'
  BY <1>4, NoCallIsOK
<1> QED  BY <1>1, <1>3, <1>5 DEF PInv

\* A step of a Pool in the General layout.
LEMMA GeneralStep ==
    ASSUME PInv, GeneralPoolNext
    PROVE  /\ PInv' /\ Moves /\ UNCHANGED <<specialization, balances, tokens, tokenA, tokenB, pairBalances>>
           /\ specialization = "general"
           /\ [GeneralLedger!Next]_<<block, GeneralBar>> /\ Recorded(GeneralBar, GeneralBar', block)
<1>1. /\ GeneralNext /\ specialization = "general"
      /\ UNCHANGED <<specialization, balances, tokens, tokenA, tokenB, pairBalances>>
  BY DEF GeneralPoolNext, generalStorage, minimalStorage, twoTokenStorage
<1>2. Moves
  BY <1>1, GeneralMoves
<1>3. GeneralIInv
  BY <1>1 DEF PInv, GeneralIInv
<1>4. /\ GeneralIInv' /\ [GeneralLedger!Next]_<<block, GeneralBar>>
      /\ Recorded(GeneralBar, GeneralBar', block)
  BY <1>1, <1>3, GeneralSteps
<1>5. MinimalStorageOK' /\ TwoTokenStorageOK'
  BY <1>1, <1>2, MinimalStays, TwoTokenStays DEF PInv
<1>6. PInv'
  BY <1>1, <1>4, <1>5 DEF PInv, GeneralIInv
<1> QED  BY <1>1, <1>2, <1>4, <1>6

\* A step of a Pool in the Minimal Swap Info layout.
LEMMA MinimalStep ==
    ASSUME PInv, MinimalSwapInfoPoolNext
    PROVE  /\ PInv' /\ Moves /\ UNCHANGED <<specialization, map, tokenA, tokenB, pairBalances>>
           /\ specialization = "minimalSwapInfo"
           /\ [MinimalLedger!Next]_<<block, MinimalBar>> /\ Recorded(MinimalBar, MinimalBar', block)
<1>1. /\ MinimalNext /\ specialization = "minimalSwapInfo"
      /\ UNCHANGED <<specialization, map, tokenA, tokenB, pairBalances>>
  BY DEF MinimalSwapInfoPoolNext, generalStorage, minimalStorage, twoTokenStorage
<1>2. Moves
  BY <1>1, MinimalMoves
<1>3. MinimalIInv
  BY <1>1 DEF PInv, MinimalIInv
<1>4. /\ MinimalIInv' /\ [MinimalLedger!Next]_<<block, MinimalBar>>
      /\ Recorded(MinimalBar, MinimalBar', block)
  BY <1>1, <1>3, MinimalSteps
<1>5. GeneralStorageOK' /\ TwoTokenStorageOK'
  BY <1>1, <1>2, GeneralStays, TwoTokenStays DEF PInv
<1>6. PInv'
  BY <1>1, <1>4, <1>5 DEF PInv, MinimalIInv
<1> QED  BY <1>1, <1>2, <1>4, <1>6

\* A step of a Pool in the Two Token layout.
LEMMA TwoTokenStep ==
    ASSUME DistinctTokens, PInv, TwoTokenPoolNext
    PROVE  /\ PInv' /\ Moves /\ UNCHANGED <<specialization, map, balances, tokens>>
           /\ specialization = "twoToken"
           /\ [TwoTokenLedger!Next]_<<block, TwoTokenBar>> /\ Recorded(TwoTokenBar, TwoTokenBar', block)
<1>1. /\ TwoTokenNext /\ specialization = "twoToken"
      /\ UNCHANGED <<specialization, map, balances, tokens>>
  BY DEF TwoTokenPoolNext, generalStorage, minimalStorage, twoTokenStorage
<1>2. Moves
  BY <1>1, TwoTokenMoves
<1>3. TwoTokenIInv
  BY <1>1 DEF PInv, TwoTokenIInv
<1>4. /\ TwoTokenIInv' /\ [TwoTokenLedger!Next]_<<block, TwoTokenBar>>
      /\ Recorded(TwoTokenBar, TwoTokenBar', block)
  BY <1>1, <1>3, TwoTokenSteps
<1>5. GeneralStorageOK' /\ MinimalStorageOK'
  BY <1>1, <1>2, GeneralStays, MinimalStays DEF PInv
<1>6. PInv'
  BY <1>1, <1>4, <1>5 DEF PInv, TwoTokenIInv
<1> QED  BY <1>1, <1>2, <1>4, <1>6

\* The storage stays sound through every step.
LEMMA NextPInv == DistinctTokens /\ PInv /\ [Next]_vars => PInv'
<1> SUFFICES ASSUME DistinctTokens, PInv, [Next]_vars PROVE PInv'
  OBVIOUS
<1>1. CASE UNCHANGED vars
  <2>1. /\ UNCHANGED <<block, call, specialization>>
        /\ UNCHANGED <<map, balances, tokens, tokenA, tokenB, pairBalances>>
    BY <1>1 DEF vars, generalStorage, minimalStorage, twoTokenStorage
  <2>2. Moves
    BY <2>1 DEF Moves
  <2>3. GeneralStorageOK' /\ MinimalStorageOK' /\ TwoTokenStorageOK'
    BY <2>1, <2>2, GeneralStays, MinimalStays, TwoTokenStays DEF PInv
  <2>4. /\ GeneralCallOK' = GeneralCallOK /\ MinimalCallOK' = MinimalCallOK /\ TwoTokenCallOK' = TwoTokenCallOK
        /\ GeneralBar' = GeneralBar
    BY <2>1 DEF GeneralCallOK, PositionsOK, GeneralReadIsCurrent, MinimalCallOK,
       MinimalReadIsCurrent, TwoTokenCallOK, TwoTokenReadIsCurrent, BalanceA, BalanceB,
       GeneralBar
  <2> QED  BY <2>1, <2>3, <2>4 DEF PInv
<1>2. CASE \E s \in {"general", "minimalSwapInfo", "twoToken"} : RegisterPool(s)
  BY <1>2, RegisterStep
<1> QED  BY <1>1, <1>2, GeneralStep, MinimalStep, TwoTokenStep DEF Next

\* The invariant holds in every reachable state, whichever specialization the Pool chooses.
THEOREM PoolInvariance == DistinctTokens => (Spec => []PInv)
<1> SUFFICES ASSUME DistinctTokens PROVE Spec => []PInv
  OBVIOUS
<1>1. PInv /\ [Next]_vars => PInv'
  BY NextPInv
<1> QED  BY <1>1, InitPInv, PTL DEF Spec

\* Over all registrations, hooks and reports of a Pool, no total of cash and managed reaches the
\* limit, the two halves of the EnumerableMap stay in step, what is not zero is registered, and what
\* the hook of the Pool's layout was called with is still what is stored when it returns.
THEOREM PoolStorageIsSound == DistinctTokens => (Spec => []StorageIsSound)
<1> SUFFICES ASSUME DistinctTokens PROVE Spec => []StorageIsSound
  OBVIOUS
<1>1. PInv => StorageIsSound
  BY GeneralStorageParts, MinimalStorageParts, TwoTokenStorageParts
     DEF PInv, StorageIsSound, GeneralCallOK, MinimalCallOK, TwoTokenCallOK
<1> QED  BY <1>1, PoolInvariance, PTL

-----------------------------------------------------------------------------
(* Refinement: each layout keeps the promises of the PoolLedger *)

\* A layout's storage changes in that layout's steps only.
LEMMA StepParts ==
    ASSUME DistinctTokens, PInv, [Next]_vars
    PROVE  /\ Moves
           /\ GeneralPoolNext \/ UNCHANGED map
           /\ MinimalSwapInfoPoolNext \/ UNCHANGED <<balances, tokens>>
           /\ TwoTokenPoolNext \/ UNCHANGED <<tokenA, tokenB, pairBalances>>
<1>1. CASE UNCHANGED vars
  BY <1>1 DEF vars, generalStorage, minimalStorage, twoTokenStorage, Moves
<1>2. CASE \E s \in {"general", "minimalSwapInfo", "twoToken"} : RegisterPool(s)
  BY <1>2, RegisterStep DEF Moves
<1>3. CASE GeneralPoolNext
  BY <1>3, GeneralStep
<1>4. CASE MinimalSwapInfoPoolNext
  BY <1>4, MinimalStep
<1>5. CASE TwoTokenPoolNext
  BY <1>5, TwoTokenStep
<1> QED  BY <1>1, <1>2, <1>3, <1>4, <1>5 DEF Next

\* To the ledger of the General layout each step of the Pool is one of its own, or a new block, or
\* nothing at all.
LEMMA GeneralRefines == DistinctTokens /\ PInv /\ [Next]_vars => [GeneralLedger!Next]_GeneralLedger!vars
<1> SUFFICES ASSUME DistinctTokens, PInv, [Next]_vars PROVE [GeneralLedger!Next]_<<block, GeneralBar>>
  BY DEF GeneralLedger!vars, GeneralBar
<1>1. CASE GeneralPoolNext
  BY <1>1, GeneralStep
<1>2. CASE UNCHANGED map
  <2>1. Moves /\ GeneralBar' = GeneralBar
    BY <1>2, StepParts DEF GeneralBar
  <2>2. CASE block' = block
    BY <2>1, <2>2
  <2>3. CASE block < MaxBlock /\ block' = block + 1
    <3>1. GeneralLedger!NewBlock
      BY <2>1, <2>3 DEF GeneralLedger!NewBlock, GeneralBar
    <3> QED  BY <3>1 DEF GeneralLedger!Next
  <2> QED  BY <2>1, <2>2, <2>3 DEF Moves
<1> QED  BY <1>1, <1>2, StepParts

\* To the ledger of the Minimal Swap Info layout each step of the Pool is one of its own, or a new block, or
\* nothing at all.
LEMMA MinimalRefines == DistinctTokens /\ PInv /\ [Next]_vars => [MinimalLedger!Next]_MinimalLedger!vars
<1> SUFFICES ASSUME DistinctTokens, PInv, [Next]_vars PROVE [MinimalLedger!Next]_<<block, MinimalBar>>
  BY DEF MinimalLedger!vars, MinimalBar
<1>1. CASE MinimalSwapInfoPoolNext
  BY <1>1, MinimalStep
<1>2. CASE UNCHANGED <<balances, tokens>>
  <2>1. Moves /\ MinimalBar' = MinimalBar
    BY <1>2, StepParts DEF MinimalBar
  <2>2. CASE block' = block
    BY <2>1, <2>2
  <2>3. CASE block < MaxBlock /\ block' = block + 1
    <3>1. MinimalLedger!NewBlock
      BY <2>1, <2>3 DEF MinimalLedger!NewBlock, MinimalBar
    <3> QED  BY <3>1 DEF MinimalLedger!Next
  <2> QED  BY <2>1, <2>2, <2>3 DEF Moves
<1> QED  BY <1>1, <1>2, StepParts

\* To the ledger of the Two Token layout each step of the Pool is one of its own, or a new block, or
\* nothing at all.
LEMMA TwoTokenRefines == DistinctTokens /\ PInv /\ [Next]_vars => [TwoTokenLedger!Next]_TwoTokenLedger!vars
<1> SUFFICES ASSUME DistinctTokens, PInv, [Next]_vars PROVE [TwoTokenLedger!Next]_<<block, TwoTokenBar>>
  BY DEF TwoTokenLedger!vars, TwoTokenBar
<1>1. CASE TwoTokenPoolNext
  BY <1>1, TwoTokenStep
<1>2. CASE UNCHANGED <<tokenA, tokenB, pairBalances>>
  <2>1. Moves /\ TwoTokenBar' = TwoTokenBar
    BY <1>2, StepParts DEF TwoTokenBar, IsRegistered, BalanceOf, BalanceA, BalanceB
  <2>2. CASE block' = block
    BY <2>1, <2>2
  <2>3. CASE block < MaxBlock /\ block' = block + 1
    <3>1. TwoTokenLedger!NewBlock
      BY <2>1, <2>3 DEF TwoTokenLedger!NewBlock, TwoTokenBar
    <3> QED  BY <3>1 DEF TwoTokenLedger!Next
  <2> QED  BY <2>1, <2>2, <2>3 DEF Moves
<1> QED  BY <1>1, <1>2, StepParts

\* A Pool of any specialization keeps the promises of the PoolLedger, whatever it and its users do:
\* what the Vault leaves unread or unchecked over a hook makes no difference.
THEOREM PoolKeepsLedger == DistinctTokens => (Spec => LayoutsKeepLedger)
<1> SUFFICES ASSUME DistinctTokens PROVE Spec => LayoutsKeepLedger
  OBVIOUS
<1>1. PInv /\ [Next]_vars => [GeneralLedger!Next]_GeneralLedger!vars
  BY GeneralRefines
<1>2. PInv /\ [Next]_vars => [MinimalLedger!Next]_MinimalLedger!vars
  BY MinimalRefines
<1>3. PInv /\ [Next]_vars => [TwoTokenLedger!Next]_TwoTokenLedger!vars
  BY TwoTokenRefines
<1>4. Spec => GeneralKeepsLedger
  BY <1>1, InitPInv, PoolInvariance, PTL DEF Spec, GeneralKeepsLedger, GeneralLedger!Spec
<1>5. Spec => MinimalKeepsLedger
  BY <1>2, InitPInv, PoolInvariance, PTL DEF Spec, MinimalKeepsLedger, MinimalLedger!Spec
<1>6. Spec => TwoTokenKeepsLedger
  BY <1>3, InitPInv, PoolInvariance, PTL DEF Spec, TwoTokenKeepsLedger, TwoTokenLedger!Spec
<1> QED  BY <1>4, <1>5, <1>6 DEF LayoutsKeepLedger

-----------------------------------------------------------------------------
(* The record of the last change *)

\* What getPoolTokens tells is the ledger of the Pool's layout, before a step and after.
LEMMA TheLedger ==
    /\ specialization \in {"none", "general"} => ledger = GeneralBar
    /\ specialization = "minimalSwapInfo" => ledger = MinimalBar
    /\ specialization = "twoToken" => ledger = TwoTokenBar
    /\ specialization' \in {"none", "general"} => ledger' = GeneralBar'
    /\ specialization' = "minimalSwapInfo" => ledger' = MinimalBar'
    /\ specialization' = "twoToken" => ledger' = TwoTokenBar'
BY DEF ledger, GeneralBar, MinimalBar, TwoTokenBar, Unpacked, Least, Mid, Most, Listed, Get,
       IsRegistered, NoToken, BalanceOf, BalanceA, BalanceB, FromSharedToBalanceA,
       FromSharedToBalanceB

\* A step that changes a total records the block, and none takes a record back.
RecordedStep ==
    \A t \in DOMAIN ledger \cap DOMAIN ledger' :
          /\ ledger'[t].changed >= ledger[t].changed
          /\ Total(ledger'[t]) # Total(ledger[t]) => ledger'[t].changed = block

LEMMA StepsAreRecorded == DistinctTokens /\ PInv /\ [Next]_vars => [RecordedStep]_vars
<1> SUFFICES ASSUME DistinctTokens, PInv, Next PROVE RecordedStep
  OBVIOUS
<1>1. CASE \E s \in {"general", "minimalSwapInfo", "twoToken"} : RegisterPool(s)
  <2>1. DOMAIN ledger = {}
    BY <1>1, RegisterStep, TheLedger DEF PInv
  <2> QED  BY <2>1 DEF RecordedStep
<1>2. CASE GeneralPoolNext
  <2>1. /\ Recorded(GeneralBar, GeneralBar', block)
        /\ specialization = "general" /\ specialization' = specialization
    BY <1>2, GeneralStep
  <2>2. ledger = GeneralBar /\ ledger' = GeneralBar'
    BY <2>1, TheLedger
  <2> QED  BY <2>1, <2>2 DEF RecordedStep, Recorded, Total
<1>3. CASE MinimalSwapInfoPoolNext
  <2>1. /\ Recorded(MinimalBar, MinimalBar', block)
        /\ specialization = "minimalSwapInfo" /\ specialization' = specialization
    BY <1>3, MinimalStep
  <2>2. ledger = MinimalBar /\ ledger' = MinimalBar'
    BY <2>1, TheLedger
  <2> QED  BY <2>1, <2>2 DEF RecordedStep, Recorded, Total
<1>4. CASE TwoTokenPoolNext
  <2>1. /\ Recorded(TwoTokenBar, TwoTokenBar', block)
        /\ specialization = "twoToken" /\ specialization' = specialization
    BY <1>4, TwoTokenStep
  <2>2. ledger = TwoTokenBar /\ ledger' = TwoTokenBar'
    BY <2>1, TheLedger
  <2> QED  BY <2>1, <2>2 DEF RecordedStep, Recorded, Total
<1> QED  BY <1>1, <1>2, <1>3, <1>4 DEF Next

\* No step of a Pool moves the total of a token that stays registered without recording the block,
\* nor takes a record back: an older block of the last change means that nothing has touched the
\* total in this block.
THEOREM PoolChangesAreRecorded == DistinctTokens => (Spec => ChangesAreRecorded)
<1> SUFFICES ASSUME DistinctTokens PROVE Spec => ChangesAreRecorded
  OBVIOUS
<1>1. PInv /\ [Next]_vars => [RecordedStep]_vars
  BY StepsAreRecorded
<1> QED  BY <1>1, PoolInvariance, PTL DEF Spec, ChangesAreRecorded, RecordedStep
==============================================================================
