------------------------- MODULE GeneralPoolsBalance -------------------------
(***************************************************************************)
(* The balances of one General Pool: an EnumerableMap from its tokens to   *)
(* balance words, whose entries are numbered.  Joins, exits and swaps read *)
(* words and positions, call the Pool's hook, and then write by position   *)
(* without looking again: the Vault counts on no token being registered or *)
(* deregistered meanwhile.                                                 *)
(***************************************************************************)
EXTENDS PoolHooks, Sequences, Functions

VARIABLE map        \* _generalPoolsBalances[poolId]: length, entries, indexes

generalVars == <<block, map, call>>

-----------------------------------------------------------------------------
(* EnumerableMap: positions count from 0, indexes are positions plus one *)

Positions == 0..(Cardinality(Tokens) - 1)
NoEntry == [key |-> NoToken, value |-> 0]

Listed(m, key) == m.indexes[key] # 0
Get(m, key) == m.entries[m.indexes[key] - 1].value

Set(m, key, value) ==
    IF Listed(m, key)
    THEN [m EXCEPT !.entries[m.indexes[key] - 1].value = value]
    ELSE [length  |-> m.length + 1,
          entries |-> [m.entries EXCEPT ![m.length] = [key |-> key, value |-> value]],
          indexes |-> [m.indexes EXCEPT ![key] = m.length + 1]]

\* unchecked_setAt
SetAt(m, position, value) == [m EXCEPT !.entries[position].value = value]

\* Mutant: the moved entry keeps its old index.
RemoveStale(m, key) ==
    LET hole == m.indexes[key] - 1
        last == m.length - 1
    IN [length  |-> last,
        entries |-> [m.entries EXCEPT ![hole] = m.entries[last], ![last] = NoEntry],
        indexes |-> [m.indexes EXCEPT ![key] = 0]]

\* remove, of a key in the map: the last entry moves to the hole.
RemoveKey(m, key) ==
    LET hole == m.indexes[key] - 1
        last == m.length - 1
        moved == m.entries[last].key
    IN [length  |-> last,
        entries |-> [m.entries EXCEPT ![hole] = m.entries[last], ![last] = NoEntry],
        indexes |-> [m.indexes EXCEPT ![moved] = hole + 1, ![key] = 0]]

-----------------------------------------------------------------------------
(* Registering and deregistering *)

\* Lists without duplicates: the loops revert at the second occurrence.
TokenLists == {toks \in UNION {[1..n -> Tokens] : n \in 1..Cardinality(Tokens)} : IsInjective(toks)}

GeneralRegisterTokens(toks) ==
    /\ Idle
    /\ \A i \in DOMAIN toks : ~Listed(map, toks[i])
    /\ map' = LET after[i \in 0..Len(toks)] == IF i = 0 THEN map ELSE Set(after[i - 1], toks[i], 0)
              IN after[Len(toks)]
    /\ UNCHANGED <<block, call>>

GeneralDeregisterTokens(toks) ==
    /\ Idle
    /\ \A i \in DOMAIN toks : Listed(map, toks[i]) /\ IsZero(Get(map, toks[i]))
    /\ map' = LET after[i \in 0..Len(toks)] == IF i = 0 THEN map ELSE RemoveKey(after[i - 1], toks[i])
              IN after[Len(toks)]
    /\ UNCHANGED <<block, call>>

-----------------------------------------------------------------------------
(* Swaps: _processGeneralPoolSwapRequest, before and after onSwap *)

GeneralCallOnSwap(tokenIn, tokenOut) ==
    /\ Idle /\ tokenIn # tokenOut
    /\ Listed(map, tokenIn) /\ Listed(map, tokenOut)
    /\ call' = [fn |-> "swap",
                indexIn |-> map.indexes[tokenIn] - 1, indexOut |-> map.indexes[tokenOut] - 1,
                balanceIn |-> Get(map, tokenIn), balanceOut |-> Get(map, tokenOut)]
    /\ UNCHANGED <<block, map>>

GeneralOnSwapReturned(amountIn, amountOut) ==
    /\ call.fn = "swap"
    /\ LET in == ChangeCash(Unpacked(call.balanceIn), amountIn, block)
           out == ChangeCash(Unpacked(call.balanceOut), -amountOut, block)
       IN /\ Fits(in) /\ Fits(out)
          /\ map' = SetAt(SetAt(map, call.indexIn, ToBalance(in)), call.indexOut, ToBalance(out))
    /\ call' = NoCall
    /\ UNCHANGED block

-----------------------------------------------------------------------------
(* _joinOrExit, before and after onJoinPool or onExitPool *)

\* The caller lists the Pool's tokens in the order they are stored in.
GeneralCallOnJoinOrExit ==
    /\ Idle /\ map.length > 0
    /\ call' = [fn |-> "joinOrExit",
                balances |-> [i \in 0..(map.length - 1) |-> map.entries[i].value]]
    /\ UNCHANGED <<block, map>>

\* _setGeneralPoolBalances, by position.
GeneralOnJoinOrExitReturned(difference) ==
    /\ call.fn = "joinOrExit"
    /\ LET final == [i \in DOMAIN call.balances |->
                        ChangeCash(Unpacked(call.balances[i]), difference[i], block)]
       IN /\ \A i \in DOMAIN final : Fits(final[i])
          /\ map' = [map EXCEPT !.entries = [i \in Positions |->
                        IF i \in DOMAIN final THEN [@[i] EXCEPT !.value = ToBalance(final[i])]
                                              ELSE @[i]]]
    /\ call' = NoCall
    /\ UNCHANGED block

\* The hook reverts, or something that follows it does.
GeneralRevert == call # NoCall /\ call' = NoCall /\ UNCHANGED <<block, map>>

-----------------------------------------------------------------------------
(* managePoolBalance *)

\* _updateGeneralPoolBalance, with what the mutation computes.
GeneralUpdate(t, new) ==
    /\ Idle /\ Listed(map, t)
    /\ Fits(new)
    /\ map' = Set(map, t, ToBalance(new))
    /\ UNCHANGED <<block, call>>

GeneralWithdrawPoolBalance(t, n) == GeneralUpdate(t, CashToManaged(Unpacked(Get(map, t)), n))
GeneralDepositPoolBalance(t, n) == GeneralUpdate(t, CashToManaged(Unpacked(Get(map, t)), -n))
GeneralUpdateManagedBalance(t, n) == GeneralUpdate(t, SetManaged(Unpacked(Get(map, t)), n, block))

-----------------------------------------------------------------------------

\* Blocks end between transactions.
GeneralNewBlock == Idle /\ block < MaxBlock /\ block' = block + 1 /\ UNCHANGED <<map, call>>

GeneralInit ==
    /\ block = 1
    /\ map = [length |-> 0, entries |-> [i \in Positions |-> NoEntry],
              indexes |-> [t \in Tokens \cup {NoToken} |-> 0]]
    /\ call = NoCall

GeneralNext ==
    \/ GeneralNewBlock
    \/ \E toks \in TokenLists : GeneralRegisterTokens(toks) \/ GeneralDeregisterTokens(toks)
    \/ \E tokenIn, tokenOut \in Tokens : GeneralCallOnSwap(tokenIn, tokenOut)
    \/ \E amountIn, amountOut \in Amounts : GeneralOnSwapReturned(amountIn, amountOut)
    \/ GeneralCallOnJoinOrExit
    \/ call.fn = "joinOrExit" /\
          \E difference \in [DOMAIN call.balances -> Differences] :
              GeneralOnJoinOrExitReturned(difference)
    \/ GeneralRevert
    \/ \E t \in Tokens, n \in Amounts :
          \/ GeneralWithdrawPoolBalance(t, n) \/ GeneralDepositPoolBalance(t, n)
          \/ GeneralUpdateManagedBalance(t, n)

GeneralSpec == GeneralInit /\ [][GeneralNext]_generalVars

-----------------------------------------------------------------------------
(* Properties *)

\* The map's types; and no action makes a total reach 2^112.
GeneralTypeOK ==
    /\ block \in 1..MaxBlock
    /\ \A i \in Positions : Total(Unpacked(map.entries[i].value)) < Limit
    /\ map.length \in 0..Cardinality(Tokens)
    /\ map.entries \in [Positions -> [key : Tokens \cup {NoToken}, value : Nat]]
    /\ map.indexes \in [Tokens \cup {NoToken} -> 0..Cardinality(Tokens)]

\* Swap and pop keeps the two halves of the EnumerableMap in step: an index
\* leads to the entry of its token, every position below the length is
\* some token's, and the slots from there on are cleared.
IndexesMatchEntries ==
    /\ \A t \in Tokens : Listed(map, t) =>
          /\ map.indexes[t] <= map.length
          /\ map.entries[map.indexes[t] - 1].key = t
    /\ \A i \in Positions :
          IF i < map.length THEN map.indexes[map.entries[i].key] = i + 1
                            ELSE map.entries[i] = NoEntry

\* What was read before the hook is what is stored when the hook returns
\* (Swaps.sol: "no tokens were registered or deregistered").
GeneralReadIsCurrent ==
    /\ call.fn = "swap" =>
          /\ call.indexIn < map.length /\ map.entries[call.indexIn].value = call.balanceIn
          /\ call.indexOut < map.length /\ map.entries[call.indexOut].value = call.balanceOut
    /\ call.fn = "joinOrExit" =>
          call.balances = [i \in 0..(map.length - 1) |-> map.entries[i].value]

\* The layout keeps the promises of the PoolLedger.
GeneralLedger == INSTANCE PoolLedger WITH
    SharedBlock <- FALSE,
    ledger <- [t \in {u \in Tokens : Listed(map, u)} |-> Unpacked(Get(map, t))]
GeneralKeepsLedger == GeneralLedger!Spec
===============================================================================
