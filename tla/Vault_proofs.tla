---------------------------- MODULE Vault_proofs ----------------------------
(***************************************************************************)
(* Theorems about Vault, for every set of Pools, users and tokens.         *)
(***************************************************************************)
EXTENDS Vault, FiniteSetTheorems, TLAPS

-----------------------------------------------------------------------------
(* What Total computes of the amounts of holders *)

\* The units of one holder are as many as its amount.
LEMMA UnitsOfOne ==
    ASSUME NEW f, NEW x, f[x] \in Nat
    PROVE  IsFiniteSet(UnitsOf(f, x)) /\ Cardinality(UnitsOf(f, x)) = f[x]
<1>1. IsFiniteSet({x}) /\ Cardinality({x}) = 1
  BY FS_Singleton
<1>2. IsFiniteSet(1..f[x]) /\ Cardinality(1..f[x]) = f[x]
  BY FS_Interval
<1>3. /\ IsFiniteSet({x} \X (1..f[x]))
      /\ Cardinality({x} \X (1..f[x])) = Cardinality({x}) * Cardinality(1..f[x])
  BY <1>1, <1>2, FS_Product
<1> QED  BY <1>1, <1>2, <1>3 DEF UnitsOf

\* Finitely many holders have finitely many units.
LEMMA UnitsFinite ==
    ASSUME NEW S, IsFiniteSet(S), NEW f \in [S -> Nat]
    PROVE  IsFiniteSet(Units(f)) /\ Total(f) \in Nat
<1> DEFINE U == [x \in S |-> UnitsOf(f, x)]
           R == {UnitsOf(f, x) : x \in S}
<1>1. U \in Surjection(S, R)
  BY DEF Surjection
<1>2. IsFiniteSet(R)
  BY <1>1, FS_Surjection
<1>3. \A T \in R : IsFiniteSet(T)
  BY UnitsOfOne
<1>4. IsFiniteSet(UNION R)
  BY <1>2, <1>3, FS_UNION
<1>5. Units(f) = UNION R
  BY DEF Units
<1> QED  BY <1>4, <1>5, FS_CardinalityType DEF Total

\* Changing one holder's amount changes the sum by the difference.
LEMMA TotalUpdate ==
    ASSUME NEW S, IsFiniteSet(S), NEW f \in [S -> Nat], NEW g \in [S -> Nat],
           NEW x \in S, \A y \in S \ {x} : g[y] = f[y]
    PROVE  Total(g) = Total(f) - f[x] + g[x]
<1> DEFINE Rest == Units(f) \ UnitsOf(f, x)
<1>1. IsFiniteSet(Units(f)) /\ Total(f) \in Nat
  BY UnitsFinite
<1>2. IsFiniteSet(UnitsOf(f, x)) /\ Cardinality(UnitsOf(f, x)) = f[x]
  BY UnitsOfOne
<1>3. IsFiniteSet(UnitsOf(g, x)) /\ Cardinality(UnitsOf(g, x)) = g[x]
  BY UnitsOfOne
<1>4. Units(f) \cap UnitsOf(f, x) = UnitsOf(f, x)
  BY DEF Units
<1>5. IsFiniteSet(Rest) /\ Cardinality(Rest) = Total(f) - f[x]
  <2>1. /\ IsFiniteSet(Rest)
        /\ Cardinality(Rest) = Cardinality(Units(f))
                                - Cardinality(Units(f) \cap UnitsOf(f, x))
    BY <1>1, FS_Difference
  <2> QED  BY <2>1, <1>2, <1>4 DEF Total
<1>6. Units(g) = Rest \cup UnitsOf(g, x)
  <2>1. ASSUME NEW u \in Units(g) PROVE u \in Rest \cup UnitsOf(g, x)
    <3>1. PICK y \in S : u \in UnitsOf(g, y)
      BY <2>1 DEF Units
    <3>2. CASE y = x
      BY <3>1, <3>2
    <3>3. CASE y # x
      <4>1. UnitsOf(g, y) = UnitsOf(f, y)
        BY <3>3 DEF UnitsOf
      <4>2. u \in Units(f)
        BY <3>1, <4>1 DEF Units
      <4>3. u \notin UnitsOf(f, x)
        BY <3>1, <3>3 DEF UnitsOf
      <4> QED  BY <4>2, <4>3
    <3> QED  BY <3>2, <3>3
  <2>2. ASSUME NEW u \in Rest PROVE u \in Units(g)
    <3>1. PICK y \in S : u \in UnitsOf(f, y)
      BY DEF Units
    <3>2. y # x
      BY <3>1
    <3>3. UnitsOf(g, y) = UnitsOf(f, y)
      BY <3>2 DEF UnitsOf
    <3> QED  BY <3>1, <3>3 DEF Units
  <2>3. UnitsOf(g, x) \subseteq Units(g)
    BY DEF Units
  <2> QED  BY <2>1, <2>2, <2>3
<1>7. Rest \cap UnitsOf(g, x) = {}
  <2>1. SUFFICES ASSUME NEW u \in Rest, u \in UnitsOf(g, x) PROVE FALSE
    OBVIOUS
  <2>2. PICK y \in S : u \in UnitsOf(f, y)
    BY DEF Units
  <2>3. y = x
    BY <2>1, <2>2 DEF UnitsOf
  <2> QED  BY <2>2, <2>3
<1>8. Cardinality(Units(g)) =
        Cardinality(Rest) + Cardinality(UnitsOf(g, x)) - Cardinality({})
  BY <1>3, <1>5, <1>6, <1>7, FS_Union
<1>9. f[x] \in Nat /\ g[x] \in Nat
  OBVIOUS
<1> QED  BY <1>1, <1>3, <1>5, <1>8, <1>9, FS_EmptySet DEF Total

\* Changing two holders' amounts.
LEMMA TotalUpdate2 ==
    ASSUME NEW S, IsFiniteSet(S), NEW f \in [S -> Nat], NEW g \in [S -> Nat],
           NEW x \in S, NEW y \in S, x # y,
           \A z \in S \ {x, y} : g[z] = f[z]
    PROVE  Total(g) = Total(f) - f[x] - f[y] + g[x] + g[y]
<1> DEFINE h == [f EXCEPT ![x] = g[x]]
<1>1. h \in [S -> Nat] /\ h[x] = g[x] /\ h[y] = f[y]
  OBVIOUS
<1>2. Total(h) = Total(f) - f[x] + g[x]
  <2>1. \A z \in S \ {x} : h[z] = f[z]
    OBVIOUS
  <2> HIDE DEF h
  <2> QED  BY <1>1, <2>1, TotalUpdate
<1>3. \A z \in S \ {y} : g[z] = h[z]
  OBVIOUS
<1>4. Total(g) = Total(h) - h[y] + g[y]
  <2> HIDE DEF h
  <2> QED  BY <1>1, <1>3, TotalUpdate
<1>5. Total(f) \in Nat /\ Total(h) \in Nat /\ Total(g) \in Nat
  <2> HIDE DEF h
  <2> QED  BY <1>1, UnitsFinite
<1> HIDE DEF h
<1> QED  BY <1>1, <1>2, <1>4, <1>5

\* Nobody holds anything: the sum is zero.
LEMMA TotalZero ==
    ASSUME NEW S, NEW f \in [S -> Nat], \A x \in S : f[x] = 0
    PROVE  Total(f) = 0
<1>1. \A x \in S : UnitsOf(f, x) = {}
  BY DEF UnitsOf
<1>2. Units(f) = {}
  BY <1>1 DEF Units
<1> QED  BY <1>2, FS_EmptySet DEF Total

-----------------------------------------------------------------------------
(* Types *)

\* A call of the Vault is in progress exactly while its guard is set.
OneCall == Len(stack) <= 1 /\ (status = "ENTERED" <=> Len(stack) = 1)

Typed == ContractTyped /\ OneCall

-----------------------------------------------------------------------------
(* The stack of calls *)

LEMMA StackType ==
    ASSUME Typed
    PROVE  /\ stack \in Seq(Frame)
           /\ NotEntered <=> stack = <<>>
           /\ stack = <<>> \/ (Len(stack) = 1 /\ Top \in Frame /\ stack = <<Top>>)
<1>1. stack \in Seq(Frame) /\ Len(stack) \in Nat /\ Len(stack) <= 1
  BY DEF Typed, ContractTyped, OneCall
<1>2. status \in {"NOT_ENTERED", "ENTERED"} /\ (status = "ENTERED" <=> Len(stack) = 1)
  BY DEF Typed, ContractTyped, OneCall
<1>3. CASE Len(stack) = 0
  <2>1. stack = <<>>
    BY <1>1, <1>3
  <2> QED  BY <1>1, <1>2, <1>3, <2>1 DEF NotEntered
<1>4. CASE Len(stack) = 1
  <2>1. stack # <<>> /\ stack[1] \in Frame /\ stack = <<stack[1]>>
    BY <1>1, <1>4
  <2> QED  BY <1>1, <1>2, <1>4, <2>1 DEF NotEntered, Top
<1> QED  BY <1>1, <1>3, <1>4

LEMMA EnterStack ==
    ASSUME Typed, NEW f \in Frame, Enter(f)
    PROVE  /\ stack = <<>> /\ status' = "ENTERED"
           /\ stack' = <<f>> /\ stack' \in Seq(Frame)
           /\ Len(stack') = 1 /\ Top' = f /\ OneCall'
<1>1. stack = <<>>
  BY StackType DEF Enter
<1> QED  BY <1>1 DEF Enter, OneCall, Top

LEMMA ContinueStack ==
    ASSUME Typed, stack # <<>>, NEW f \in Frame, Continue(f)
    PROVE  /\ stack' = <<f>> /\ stack' \in Seq(Frame)
           /\ Len(stack') = 1 /\ Top' = f /\ OneCall' /\ status' = status
<1>1. Len(stack) = 1 /\ stack = <<Top>>
  BY StackType
<1> QED  BY <1>1, StackType DEF Continue, OneCall, Top, Typed

LEMMA LeaveStack ==
    ASSUME Typed, stack # <<>>, Leave
    PROVE  stack' = <<>> /\ stack' \in Seq(Frame) /\ OneCall' /\ status' = "NOT_ENTERED"
<1>1. Len(stack) = 1 /\ stack = <<Top>>
  BY StackType
<1> QED  BY <1>1, StackType DEF Leave, OneCall, Top

\* The function a frame runs tells which record it is.
LEMMA FrameKinds ==
    ASSUME NEW f \in Frame
    PROVE  /\ f.fn \in {"join", "exit"} => f \in PoolFrame
           /\ f.fn \in {"swap", "batchSwap"} => f \in SwapFrame
           /\ f.fn = "flashLoan" => f \in LoanFrame
           /\ f.fn = "manageUserBalance" => f \in UserFrame
           /\ f.saved \in StorageType
BY DEF Frame, PoolFrame, SwapFrame, LoanFrame, UserFrame

-----------------------------------------------------------------------------
(* Type correctness *)

StorageTyped ==
    /\ paused \in BOOLEAN
    /\ registered \in [Pools -> SUBSET Tokens]
    /\ assetManager \in [Pools -> [Tokens -> Managers \cup {NoManager}]]
    /\ balances \in [Pools -> [Tokens -> Word]]
    /\ internal \in [Users -> [Tokens -> Nat]]
    /\ wallet \in [Tokens -> [Accounts -> Nat]]
    /\ relayers \in SUBSET RelayerContracts
    /\ approved \in [Users -> SUBSET RelayerContracts]
    /\ signed \in SUBSET (Users \X RelayerContracts)

LEMMA StorageParts ==
    ASSUME ContractTyped
    PROVE  StorageTyped /\ Storage \in StorageType
BY DEF ContractTyped, Storage, StorageType, StorageTyped

\* A state with typed storage and at most one typed call is typed.
LEMMA TypedNext ==
    ASSUME StorageTyped', stack' \in Seq(Frame), OneCall',
           status' \in {"NOT_ENTERED", "ENTERED"}
    PROVE  Typed'
BY DEF Typed, ContractTyped, Storage, StorageType, StorageTyped

LEMMA TypedWord ==
    ASSUME NEW w, w.cash \in Int, w.managed \in Int, IsBalance(w),
           w = [cash |-> w.cash, managed |-> w.managed]
    PROVE  w \in Word
BY DEF IsBalance, Word

LEMMA AddCashWord ==
    ASSUME NEW w \in Word, NEW n \in Int
    PROVE  /\ AddCash(w, n).cash = w.cash + n
           /\ AddCash(w, n).managed = w.managed
           /\ AddCash(w, n) = [cash |-> w.cash + n, managed |-> w.managed]
           /\ IsBalance(AddCash(w, n)) => AddCash(w, n) \in Word
BY DEF AddCash, Word, IsBalance

\* One user's Internal Balance of one token changes.
LEMMA AddType ==
    ASSUME NEW f \in [Users -> [Tokens -> Nat]], NEW x \in Users, NEW y \in Tokens,
           NEW n \in Int, f[x][y] + n >= 0
    PROVE  /\ Add(f, x, y, n) \in [Users -> [Tokens -> Nat]]
           /\ Add(f, x, y, n)[x][y] = f[x][y] + n
           /\ \A w \in Tokens \ {y} : Add(f, x, y, n)[x][w] = f[x][w]
           /\ \A v \in Users \ {x} : Add(f, x, y, n)[v] = f[v]
<1>1. f[x] \in [Tokens -> Nat] /\ f[x][y] \in Nat
  OBVIOUS
<1>2. f[x][y] + n \in Nat
  BY <1>1
<1>3. [f[x] EXCEPT ![y] = f[x][y] + n] \in [Tokens -> Nat]
  BY <1>1, <1>2
<1> QED  BY <1>1, <1>2, <1>3 DEF Add

\* A transfer that its sender can afford.
LEMMA TransferType ==
    ASSUME NEW w \in [Tokens -> [Accounts -> Nat]], NEW t \in Tokens,
           NEW a \in Accounts, NEW b \in Accounts, NEW n \in Nat, n <= w[t][a]
    PROVE  /\ Transfer(w, t, a, b, n) \in [Tokens -> [Accounts -> Nat]]
           /\ \A s \in Tokens \ {t} : Transfer(w, t, a, b, n)[s] = w[s]
           /\ \A x \in Accounts \ {a, b} : Transfer(w, t, a, b, n)[t][x] = w[t][x]
           /\ a # b => /\ Transfer(w, t, a, b, n)[t][a] = w[t][a] - n
                       /\ Transfer(w, t, a, b, n)[t][b] = w[t][b] + n
           /\ a = b => Transfer(w, t, a, b, n)[t][a] = w[t][a]
<1> DEFINE m == -n
           v == Add(w, t, a, m)
<1>1. m \in Int /\ w[t][a] \in Nat /\ w[t][b] \in Nat /\ w[t][a] + m >= 0
  OBVIOUS
<1> HIDE DEF m
<1>2. /\ v \in [Tokens -> [Accounts -> Nat]]
      /\ v[t][a] = w[t][a] + m
      /\ \A x \in Accounts \ {a} : v[t][x] = w[t][x]
      /\ \A s \in Tokens \ {t} : v[s] = w[s]
  <2>1. w[t] \in [Accounts -> Nat] /\ [w[t] EXCEPT ![a] = w[t][a] + m] \in [Accounts -> Nat]
    BY <1>1
  <2> QED  BY <1>1, <2>1 DEF Add
<1> HIDE DEF v
<1>3. v[t][b] \in Nat /\ v[t][b] + n >= 0
  BY <1>2
<1>4. /\ Add(v, t, b, n) \in [Tokens -> [Accounts -> Nat]]
      /\ Add(v, t, b, n)[t][b] = v[t][b] + n
      /\ \A x \in Accounts \ {b} : Add(v, t, b, n)[t][x] = v[t][x]
      /\ \A s \in Tokens \ {t} : Add(v, t, b, n)[s] = v[s]
  <2>1. v[t] \in [Accounts -> Nat] /\ [v[t] EXCEPT ![b] = v[t][b] + n] \in [Accounts -> Nat]
    BY <1>2, <1>3
  <2> QED  BY <1>2, <1>3, <2>1 DEF Add
<1>5. Transfer(w, t, a, b, n) = Add(v, t, b, n)
  BY DEF Transfer, v, m
<1>6. w[t][a] + m = w[t][a] - n
  BY <1>1 DEF m
<1> QED  BY <1>1, <1>2, <1>4, <1>5, <1>6

LEMMA AuthenticateForType ==
    ASSUME StorageTyped, NEW caller, NEW user, AuthenticateFor(caller, user)
    PROVE  signed' \in SUBSET (Users \X RelayerContracts)
BY DEF AuthenticateFor, StorageTyped

-----------------------------------------------------------------------------
(* The inductive invariant.  Solvency alone is not inductive: in the middle *)
(* of a call the books and the tokens differ by what the call still has to  *)
(* settle (Backed says by how much), a swap must write back the balances it *)
(* read, and a call that reverts must return to a solvent state.            *)

CallOK ==
    stack # <<>> =>
        /\ Solvent(Top.saved.balances, Top.saved.internal, Top.saved.wallet)
        /\ Swapping /\ Top.hook.pending => Top.hook.tokenIn # Top.hook.tokenOut

IInv == Typed /\ Backed /\ NoStaleBalances /\ CallOK

Books(b, i) == b \in [Pools -> [Tokens -> Word]] /\ i \in [Users -> [Tokens -> Nat]]

LEMMA ClaimsType ==
    ASSUME NEW b, NEW i, Books(b, i), NEW t \in Tokens
    PROVE  /\ IsFiniteSet(Pools \cup Users)
           /\ Claims(b, i, t) \in [Pools \cup Users -> Nat]
           /\ Total(Claims(b, i, t)) \in Nat
<1>1. IsFiniteSet(Pools \cup Users)
  BY AccountsAssumption, FS_Union
<1>2. Claims(b, i, t) \in [Pools \cup Users -> Nat]
  BY DEF Claims, Word, Books
<1> QED  BY <1>1, <1>2, UnitsFinite

LEMMA ClaimsSame ==
    ASSUME NEW b, NEW i, NEW b2, NEW i2, NEW t \in Tokens,
           \A p \in Pools : b2[p][t].cash = b[p][t].cash,
           \A u \in Users : i2[u][t] = i[u][t]
    PROVE  Claims(b2, i2, t) = Claims(b, i, t)
BY DEF Claims

\* One claim changes.
LEMMA ClaimsUpdate ==
    ASSUME NEW b, NEW i, NEW b2, NEW i2, Books(b, i), Books(b2, i2),
           NEW t \in Tokens, NEW x \in Pools \cup Users,
           \A c \in (Pools \cup Users) \ {x} : Claims(b2, i2, t)[c] = Claims(b, i, t)[c]
    PROVE  Total(Claims(b2, i2, t))
             = Total(Claims(b, i, t)) - Claims(b, i, t)[x] + Claims(b2, i2, t)[x]
<1> DEFINE C == Pools \cup Users
           f == Claims(b, i, t)
           g == Claims(b2, i2, t)
<1>1. IsFiniteSet(C) /\ f \in [C -> Nat] /\ g \in [C -> Nat]
  BY ClaimsType
<1>2. x \in C /\ \A c \in C \ {x} : g[c] = f[c]
  OBVIOUS
<1> HIDE DEF C, f, g
<1>3. Total(g) = Total(f) - f[x] + g[x]
  BY <1>1, <1>2, TotalUpdate
<1> QED  BY <1>3 DEF f, g

LEMMA InternalChanges ==
    ASSUME NEW b, NEW i, NEW i2, Books(b, i), Books(b, i2),
           NEW t \in Tokens, NEW u \in Users,
           \A v \in Users \ {u} : i2[v][t] = i[v][t]
    PROVE  Total(Claims(b, i2, t)) = Total(Claims(b, i, t)) - i[u][t] + i2[u][t]
<1>1. Claims(b, i, t)[u] = i[u][t] /\ Claims(b, i2, t)[u] = i2[u][t]
  BY AccountsAssumption DEF Claims
<1>2. \A c \in (Pools \cup Users) \ {u} : Claims(b, i2, t)[c] = Claims(b, i, t)[c]
  BY DEF Claims
<1>4. u \in Pools \cup Users
  OBVIOUS
<1>5. Total(Claims(b, i2, t))
        = Total(Claims(b, i, t)) - Claims(b, i, t)[u] + Claims(b, i2, t)[u]
  BY <1>2, <1>4, ClaimsUpdate
<1> QED  BY <1>1, <1>5

LEMMA CashChanges ==
    ASSUME NEW b, NEW b2, NEW i, Books(b, i), Books(b2, i),
           NEW t \in Tokens, NEW p \in Pools,
           \A q \in Pools \ {p} : b2[q][t] = b[q][t]
    PROVE  Total(Claims(b2, i, t))
             = Total(Claims(b, i, t)) - b[p][t].cash + b2[p][t].cash
<1>1. Claims(b, i, t)[p] = b[p][t].cash /\ Claims(b2, i, t)[p] = b2[p][t].cash
  BY DEF Claims
<1>2. \A c \in (Pools \cup Users) \ {p} : Claims(b2, i, t)[c] = Claims(b, i, t)[c]
  BY DEF Claims
<1>4. p \in Pools \cup Users
  OBVIOUS
<1>5. Total(Claims(b2, i, t))
        = Total(Claims(b, i, t)) - Claims(b, i, t)[p] + Claims(b2, i, t)[p]
  BY <1>2, <1>4, ClaimsUpdate
<1> QED  BY <1>1, <1>5

\* What InFlight is in each kind of call, before and after a step.
LEMMA InFlightOf ==
    ASSUME NEW t
    PROVE  /\ stack = <<>> => InFlight(t) = 0
           /\ stack # <<>> /\ Top.fn \in {"join", "exit"} =>
                InFlight(t) = balances[Top.pool][t].cash - Top.final[t].cash
           /\ stack # <<>> /\ Top.fn \in {"swap", "batchSwap"} => InFlight(t) = Top.delta[t]
           /\ stack # <<>> /\ Top.fn = "flashLoan" =>
                InFlight(t) = IF t \in Top.lent THEN Top.pre[t] - wallet[t][VaultAddress] ELSE 0
           /\ stack # <<>> /\ Top.fn = "manageUserBalance" => InFlight(t) = 0
BY DEF InFlight, Running, Swapping

LEMMA InFlightNext ==
    ASSUME NEW t
    PROVE  /\ stack' = <<>> => InFlight(t)' = 0
           /\ stack' # <<>> /\ Top'.fn \in {"join", "exit"} =>
                InFlight(t)' = balances'[Top'.pool][t].cash - Top'.final[t].cash
           /\ stack' # <<>> /\ Top'.fn \in {"swap", "batchSwap"} => InFlight(t)' = Top'.delta[t]
           /\ stack' # <<>> /\ Top'.fn = "flashLoan" =>
                InFlight(t)' = IF t \in Top'.lent THEN Top'.pre[t] - wallet'[t][VaultAddress] ELSE 0
           /\ stack' # <<>> /\ Top'.fn = "manageUserBalance" => InFlight(t)' = 0
BY DEF InFlight, Running, Swapping

\* Between calls the invariant is solvency.
LEMMA IdleParts ==
    ASSUME IInv, stack = <<>>
    PROVE  Solvent(balances, internal, wallet)
<1>1. wallet \in [Tokens -> [Accounts -> Nat]] /\ VaultAddress \in Accounts
  BY StorageParts DEF IInv, Typed, StorageTyped, Accounts
<1>2. ASSUME NEW t \in Tokens
      PROVE  Total(Claims(balances, internal, t)) <= wallet[t][VaultAddress]
  <2>1. Total(Claims(balances, internal, t)) <= wallet[t][VaultAddress] + 0
    BY InFlightOf DEF IInv, Backed
  <2>2. wallet[t][VaultAddress] \in Nat
    BY <1>1
  <2> QED  BY <2>1, <2>2
<1> QED  BY <1>2 DEF Solvent

LEMMA IdleNext ==
    ASSUME Typed', stack' = <<>>, Solvent(balances', internal', wallet')
    PROVE  IInv'
<1>1. wallet' \in [Tokens -> [Accounts -> Nat]] /\ VaultAddress \in Accounts
  BY DEF Typed, ContractTyped, Storage, StorageType, Accounts
<1>2. ASSUME NEW t \in Tokens
      PROVE  Total(Claims(balances', internal', t)) <= wallet'[t][VaultAddress] + InFlight(t)'
  <2>1. InFlight(t)' = 0
    BY InFlightNext
  <2>2. wallet'[t][VaultAddress] \in Nat
    BY <1>1
  <2> QED  BY <2>1, <2>2 DEF Solvent
<1>3. Backed'
  BY <1>2 DEF Backed
<1>4. NoStaleBalances' /\ CallOK'
  BY DEF NoStaleBalances, CallOK, Running, Swapping
<1> QED  BY <1>3, <1>4 DEF IInv

\* A step of a call, or of other code during one, that changes no more of the
\* books than what it settles.
LEMMA BackedNext ==
    ASSUME IInv, Typed',
           \A t \in Tokens : InFlight(t) \in Int /\ InFlight(t)' \in Int,
           \A t \in Tokens :
              Total(Claims(balances', internal', t)) - Total(Claims(balances, internal, t))
              <= (wallet'[t][VaultAddress] + InFlight(t)')
                 - (wallet[t][VaultAddress] + InFlight(t))
    PROVE  Backed'
<1>1. /\ wallet \in [Tokens -> [Accounts -> Nat]] /\ VaultAddress \in Accounts
      /\ balances \in [Pools -> [Tokens -> Word]] /\ internal \in [Users -> [Tokens -> Nat]]
  BY StorageParts DEF IInv, Typed, StorageTyped, Accounts
<1>2. /\ wallet' \in [Tokens -> [Accounts -> Nat]]
      /\ balances' \in [Pools -> [Tokens -> Word]] /\ internal' \in [Users -> [Tokens -> Nat]]
  BY DEF Typed, ContractTyped, Storage, StorageType, Accounts
<1>3. ASSUME NEW t \in Tokens
      PROVE  Total(Claims(balances', internal', t)) <= wallet'[t][VaultAddress] + InFlight(t)'
  <2>1. Total(Claims(balances', internal', t)) \in Nat /\ Total(Claims(balances, internal, t)) \in Nat
    BY <1>1, <1>2, ClaimsType DEF Books
  <2>2. wallet[t][VaultAddress] \in Nat /\ wallet'[t][VaultAddress] \in Nat
    BY <1>1, <1>2
  <2>3. Total(Claims(balances, internal, t)) <= wallet[t][VaultAddress] + InFlight(t)
    BY DEF IInv, Backed
  <2> QED  BY <2>1, <2>2, <2>3
<1> QED  BY <1>3 DEF Backed

-----------------------------------------------------------------------------
(* The invariant across the four ways a step treats the stack *)

\* A call starts.
LEMMA EnterNext ==
    ASSUME IInv, NEW f \in Frame, Enter(f), f.saved = Storage, StorageTyped',
           UNCHANGED <<balances, internal>>,
           f.fn \in {"swap", "batchSwap"} => ~f.hook.pending,
           \A t \in Tokens : /\ InFlight(t)' \in Int
                             /\ wallet'[t][VaultAddress] + InFlight(t)' = wallet[t][VaultAddress]
    PROVE  Typed' /\ Backed' /\ CallOK'
<1>1. /\ stack = <<>> /\ stack' # <<>> /\ Top' = f /\ OneCall'
      /\ stack' \in Seq(Frame) /\ status' = "ENTERED"
  <2>1. Typed
    BY DEF IInv
  <2>2. stack = <<>> /\ status' = "ENTERED" /\ stack' = <<f>> /\ stack' \in Seq(Frame)
        /\ Len(stack') = 1 /\ Top' = f /\ OneCall'
    BY <2>1, EnterStack
  <2>3. stack' # <<>>
    BY <2>2
  <2> QED  BY <2>2, <2>3
<1>2. Typed'
  BY <1>1, TypedNext
<1>3. Solvent(balances, internal, wallet)
  BY <1>1, IdleParts
<1>4. Backed'
  BY <1>3 DEF Backed, Solvent
<1>5. CallOK'
  BY <1>1, <1>3 DEF CallOK, Storage, Swapping, Running
<1> QED  BY <1>2, <1>4, <1>5

\* A call goes on.
LEMMA ContinueNext ==
    ASSUME IInv, stack # <<>>, NEW f \in Frame, Continue(f), f.saved = Top.saved,
           StorageTyped',
           f.fn \in {"swap", "batchSwap"} /\ f.hook.pending => f.hook.tokenIn # f.hook.tokenOut,
           \A t \in Tokens : InFlight(t) \in Int /\ InFlight(t)' \in Int,
           \A t \in Tokens :
              Total(Claims(balances', internal', t)) - Total(Claims(balances, internal, t))
              <= (wallet'[t][VaultAddress] + InFlight(t)')
                 - (wallet[t][VaultAddress] + InFlight(t))
    PROVE  Typed' /\ Backed' /\ CallOK'
<1>1. /\ stack' # <<>> /\ Top' = f /\ OneCall'
      /\ stack' \in Seq(Frame) /\ status' = status
  BY ContinueStack DEF IInv
<1>2. Typed'
  BY <1>1, TypedNext DEF IInv, Typed, ContractTyped
<1>3. Backed'
  BY <1>2, BackedNext
<1>4. CallOK'
  BY <1>1 DEF IInv, CallOK, Swapping, Running
<1> QED  BY <1>2, <1>3, <1>4

\* A call ends.
LEMMA LeaveNext ==
    ASSUME IInv, stack # <<>>, Leave, StorageTyped',
           Solvent(balances', internal', wallet')
    PROVE  IInv'
<1>1. stack' = <<>> /\ stack' \in Seq(Frame) /\ OneCall' /\ status' = "NOT_ENTERED"
  BY LeaveStack DEF IInv
<1>2. Typed'
  BY <1>1, TypedNext
<1> QED  BY <1>1, <1>2, IdleNext

\* A call runs from its start to its end.
LEMMA AtomicNext ==
    ASSUME IInv, Atomically, StorageTyped',
           Solvent(balances, internal, wallet) => Solvent(balances', internal', wallet')
    PROVE  IInv'
<1>1. stack = <<>> /\ UNCHANGED <<status, stack>>
  BY StackType DEF Atomically, IInv
<1>2. Typed'
  BY <1>1, TypedNext DEF IInv, Typed, ContractTyped, OneCall
<1>3. Solvent(balances', internal', wallet')
  BY <1>1, IdleParts
<1> QED  BY <1>1, <1>2, <1>3, IdleNext

\* The frame on top is one of the four records.
LEMMA TopKinds ==
    ASSUME Typed, stack # <<>>
    PROVE  /\ Top \in Frame /\ Top.saved \in StorageType
           /\ Top.fn \in {"join", "exit"} => Top \in PoolFrame
           /\ Top.fn \in {"swap", "batchSwap"} => Top \in SwapFrame
           /\ Top.fn = "flashLoan" => Top \in LoanFrame
           /\ Top.fn = "manageUserBalance" => Top \in UserFrame
           /\ Top.fn \in {"join", "exit", "swap", "batchSwap", "flashLoan", "manageUserBalance"}
<1>1. Top \in Frame
  BY StackType
<1>2. Top.fn \in {"join", "exit", "swap", "batchSwap", "flashLoan", "manageUserBalance"}
  BY <1>1 DEF Frame, PoolFrame, SwapFrame, LoanFrame, UserFrame
<1> QED  BY <1>1, <1>2, FrameKinds

LEMMA InFlightType ==
    ASSUME Typed, NEW t \in Tokens
    PROVE  InFlight(t) \in Int
<1>1. /\ balances \in [Pools -> [Tokens -> Word]] /\ wallet \in [Tokens -> [Accounts -> Nat]]
      /\ VaultAddress \in Accounts
  BY StorageParts DEF Typed, StorageTyped, Accounts
<1>2. CASE stack = <<>>
  BY <1>2, InFlightOf
<1>3. CASE stack # <<>>
  <2>1. CASE Top.fn \in {"join", "exit"}
    <3>1. InFlight(t) = balances[Top.pool][t].cash - Top.final[t].cash
      BY <1>3, <2>1, InFlightOf
    <3>2. Top.pool \in Pools /\ Top.final[t] \in Word
      BY <1>3, <2>1, TopKinds DEF PoolFrame
    <3> QED  BY <1>1, <3>1, <3>2 DEF Word
  <2>2. CASE Top.fn \in {"swap", "batchSwap"}
    BY <1>3, <2>2, InFlightOf, TopKinds DEF SwapFrame
  <2>3. CASE Top.fn = "flashLoan"
    <3>1. Top.pre[t] \in Nat
      BY <1>3, <2>3, TopKinds DEF LoanFrame
    <3>2. wallet[t][VaultAddress] \in Nat
      BY <1>1
    <3> QED  BY <1>3, <2>3, <3>1, <3>2, InFlightOf
  <2>4. CASE Top.fn = "manageUserBalance"
    BY <1>3, <2>4, InFlightOf
  <2> QED  BY <1>3, <2>1, <2>2, <2>3, <2>4, TopKinds
<1> QED  BY <1>2, <1>3

\* Other code moves tokens, but takes none from the Vault.
LEMMA EnvironmentMoves ==
    ASSUME IInv, StorageTyped', UNCHANGED <<status, stack, balances, internal>>,
           \A t \in Tokens : wallet'[t][VaultAddress] >= wallet[t][VaultAddress]
    PROVE  IInv'
<1>1. Typed'
  BY TypedNext DEF IInv, Typed, ContractTyped, OneCall
<1>2. /\ wallet \in [Tokens -> [Accounts -> Nat]] /\ wallet' \in [Tokens -> [Accounts -> Nat]]
      /\ VaultAddress \in Accounts /\ StorageTyped
  BY StorageParts DEF IInv, Typed, StorageTyped, Accounts
<1>3. ASSUME NEW t \in Tokens
      PROVE  /\ InFlight(t) \in Int /\ InFlight(t)' \in Int
             /\ wallet'[t][VaultAddress] + InFlight(t)' >= wallet[t][VaultAddress] + InFlight(t)
  <2>1. InFlight(t) \in Int
    BY InFlightType DEF IInv
  <2>2. wallet[t][VaultAddress] \in Nat /\ wallet'[t][VaultAddress] \in Nat
    BY <1>2
  <2>3. \/ InFlight(t)' = InFlight(t)
        \/ InFlight(t)' - InFlight(t) = wallet[t][VaultAddress] - wallet'[t][VaultAddress]
           /\ InFlight(t)' \in Int
    <3>1. CASE Running("flashLoan") /\ t \in Top.lent
      <4>1. InFlight(t) = Top.pre[t] - wallet[t][VaultAddress]
        BY <3>1, InFlightOf DEF Running
      <4>2. InFlight(t)' = Top.pre[t] - wallet'[t][VaultAddress]
        BY <3>1 DEF InFlight, Running, Swapping, Top
      <4>3. Top.pre[t] \in Nat
        BY <3>1, TopKinds DEF Running, LoanFrame, IInv
      <4> QED  BY <2>2, <4>1, <4>2, <4>3
    <3>2. CASE ~(Running("flashLoan") /\ t \in Top.lent)
      BY <3>2 DEF InFlight, Running, Swapping, Top
    <3> QED  BY <3>1, <3>2
  <2> QED  BY <2>1, <2>2, <2>3
<1>4. Backed'
  <2>1. Books(balances, internal)
    BY <1>2 DEF StorageTyped, Books
  <2>2. ASSUME NEW t \in Tokens
        PROVE  Total(Claims(balances, internal, t)) <= wallet'[t][VaultAddress] + InFlight(t)'
    <3>1. Total(Claims(balances, internal, t)) <= wallet[t][VaultAddress] + InFlight(t)
      BY DEF IInv, Backed
    <3>2. Total(Claims(balances, internal, t)) \in Nat
      BY <2>1, ClaimsType
    <3>3. wallet[t][VaultAddress] \in Nat /\ wallet'[t][VaultAddress] \in Nat
      BY <1>2
    <3> QED  BY <1>3, <3>1, <3>2, <3>3
  <2> QED  BY <2>2 DEF Backed
<1>5. NoStaleBalances' /\ CallOK'
  BY DEF IInv, NoStaleBalances, CallOK, Running, Swapping, Top
<1> QED  BY <1>1, <1>4, <1>5 DEF IInv

\* The parts of the storage that the books are made of.
LEMMA Parts ==
    ASSUME IInv
    PROVE  /\ StorageTyped /\ Books(balances, internal) /\ Typed
           /\ wallet \in [Tokens -> [Accounts -> Nat]]
           /\ VaultAddress \in Accounts /\ Collector \in Accounts
           /\ \A u \in Users : u \in Accounts /\ u # VaultAddress /\ u # Collector
           /\ VaultAddress # Collector
           /\ Amounts \subseteq Nat
           /\ \A t \in Tokens : Total(Claims(balances, internal, t)) \in Nat
<1>1. StorageTyped /\ Typed
  BY StorageParts DEF IInv, Typed
<1>2. Books(balances, internal)
  BY <1>1 DEF StorageTyped, Books
<1>3. \A t \in Tokens : Total(Claims(balances, internal, t)) \in Nat
  BY <1>2, ClaimsType
<1> QED  BY <1>1, <1>2, <1>3, AccountsAssumption, AmountsAssumption DEF StorageTyped, Accounts

-----------------------------------------------------------------------------
(* The operations without a call to other code *)

LEMMA PoolTokensStep ==
    ASSUME IInv, PoolTokensNext
    PROVE  IInv'
<1>1. StorageTyped
  BY Parts
<1>2. PICK p \in Pools, toks \in SUBSET Tokens :
         \/ \E managers \in [toks -> Managers \cup {NoManager}] :
                RegisterTokens(p, toks, managers)
         \/ DeregisterTokens(p, toks)
  BY DEF PoolTokensNext
<1>3. StorageTyped'
  <2>1. CASE DeregisterTokens(p, toks)
    BY <1>1, <2>1 DEF DeregisterTokens, StorageTyped
  <2>2. ASSUME NEW managers \in [toks -> Managers \cup {NoManager}],
               RegisterTokens(p, toks, managers)
        PROVE  StorageTyped'
    BY <1>1, <2>2 DEF RegisterTokens, StorageTyped
  <2> QED  BY <1>2, <2>1, <2>2
<1>4. Atomically /\ UNCHANGED <<balances, internal, wallet>>
  BY <1>2 DEF RegisterTokens, DeregisterTokens
<1> QED  BY <1>3, <1>4, AtomicNext DEF Solvent

LEMMA AssetManagersStep ==
    ASSUME IInv, AssetManagersNext
    PROVE  IInv'
<1>1. /\ StorageTyped /\ Books(balances, internal)
      /\ wallet \in [Tokens -> [Accounts -> Nat]]
      /\ VaultAddress \in Accounts
  BY Parts
<1>2. PICK caller \in Users, p \in Pools, t \in Tokens, amount \in Amounts :
         \/ WithdrawPoolBalance(caller, p, t, amount)
         \/ DepositPoolBalance(caller, p, t, amount)
         \/ UpdateManagedBalance(caller, p, t, amount)
  BY DEF AssetManagersNext
<1>3. /\ caller \in Users /\ caller \in Accounts /\ caller # VaultAddress /\ amount \in Nat
  BY Parts, AccountsAssumption
<1>4. balances[p][t] \in Word /\ balances[p] \in [Tokens -> Word]
  BY <1>1 DEF StorageTyped
\* What the three operations have in common.
<1>5. ASSUME NEW w \in Word, Atomically,
             balances' = [balances EXCEPT ![p][t] = w],
             UNCHANGED <<paused, registered, assetManager, internal, relayers, approved, signed>>,
             wallet' \in [Tokens -> [Accounts -> Nat]],
             \A s \in Tokens \ {t} : wallet'[s] = wallet[s],
             w.cash - balances[p][t].cash <= wallet'[t][VaultAddress] - wallet[t][VaultAddress]
      PROVE  IInv'
  <2>1. balances' \in [Pools -> [Tokens -> Word]]
    BY <1>1, <1>4, <1>5 DEF StorageTyped
  <2>2. StorageTyped'
    BY <1>1, <1>5, <2>1 DEF StorageTyped
  <2>3. Books(balances', internal)
    BY <1>1, <2>1 DEF Books
  <2>4. /\ balances'[p][t] = w
        /\ \A q \in Pools \ {p} : balances'[q] = balances[q]
        /\ \A s \in Tokens \ {t} : balances'[p][s] = balances[p][s]
    BY <1>1, <1>4, <1>5 DEF StorageTyped
  <2>5. Total(Claims(balances', internal, t))
          = Total(Claims(balances, internal, t)) - balances[p][t].cash + w.cash
    BY <1>1, <2>3, <2>4, CashChanges
  <2>6. ASSUME NEW s \in Tokens \ {t}
        PROVE  Claims(balances', internal, s) = Claims(balances, internal, s)
    <3>1. \A q \in Pools : balances'[q][s].cash = balances[q][s].cash
      BY <2>4
    <3> QED  BY <3>1, ClaimsSame
  <2>7. ASSUME Solvent(balances, internal, wallet), NEW s \in Tokens
        PROVE  Total(Claims(balances', internal', s)) <= wallet'[s][VaultAddress]
    <3>1. Total(Claims(balances, internal, s)) <= wallet[s][VaultAddress]
      BY <2>7 DEF Solvent
    <3>2. CASE s # t
      BY <1>5, <2>6, <3>1, <3>2
    <3>3. CASE s = t
      <4>1. /\ wallet[t][VaultAddress] \in Nat /\ wallet'[t][VaultAddress] \in Nat
            /\ w.cash \in Nat /\ balances[p][t].cash \in Nat
            /\ Total(Claims(balances, internal, t)) \in Nat
        BY <1>1, <1>4, <1>5, Parts DEF Word
      <4> QED  BY <1>5, <2>5, <3>1, <3>3, <4>1
    <3> QED  BY <3>2, <3>3
  <2> QED  BY <1>5, <2>2, <2>7, AtomicNext DEF Solvent
<1>6. CASE WithdrawPoolBalance(caller, p, t, amount)
  <2> DEFINE w == [cash |-> balances[p][t].cash - amount, managed |-> balances[p][t].managed + amount]
  <2>1. w \in Word
    BY <1>3, <1>4, <1>6 DEF WithdrawPoolBalance, Word
  <2>2. balances' = [balances EXCEPT ![p][t] = w]
    BY <1>6 DEF WithdrawPoolBalance
  <2>a. amount <= wallet[t][VaultAddress] /\ wallet' = Transfer(wallet, t, VaultAddress, caller, amount)
    BY <1>6 DEF WithdrawPoolBalance
  <2>3. /\ wallet' \in [Tokens -> [Accounts -> Nat]]
        /\ \A s \in Tokens \ {t} : wallet'[s] = wallet[s]
        /\ wallet'[t][VaultAddress] = wallet[t][VaultAddress] - amount
    BY <1>1, <1>3, <2>a, TransferType
  <2>4. w.cash - balances[p][t].cash = -amount /\ wallet[t][VaultAddress] \in Nat
    BY <1>1, <1>3, <1>4 DEF Word
  <2>5. w.cash - balances[p][t].cash <= wallet'[t][VaultAddress] - wallet[t][VaultAddress]
    BY <1>3, <2>3, <2>4
  <2>6. Atomically /\ UNCHANGED <<paused, registered, assetManager, internal, relayers, approved, signed>>
    BY <1>6 DEF WithdrawPoolBalance
  <2> HIDE DEF w
  <2> QED  BY <1>5, <2>1, <2>2, <2>3, <2>5, <2>6
<1>7. CASE DepositPoolBalance(caller, p, t, amount)
  <2> DEFINE w == [cash |-> balances[p][t].cash + amount, managed |-> balances[p][t].managed - amount]
  <2>1. w \in Word
    BY <1>3, <1>4, <1>7 DEF DepositPoolBalance, Word
  <2>2. balances' = [balances EXCEPT ![p][t] = w]
    BY <1>7 DEF DepositPoolBalance
  <2>a. amount <= wallet[t][caller] /\ wallet' = Transfer(wallet, t, caller, VaultAddress, amount)
    BY <1>7 DEF DepositPoolBalance
  <2>3. /\ wallet' \in [Tokens -> [Accounts -> Nat]]
        /\ \A s \in Tokens \ {t} : wallet'[s] = wallet[s]
        /\ wallet'[t][VaultAddress] = wallet[t][VaultAddress] + amount
    BY <1>1, <1>3, <2>a, TransferType
  <2>4. w.cash - balances[p][t].cash = amount /\ wallet[t][VaultAddress] \in Nat
    BY <1>1, <1>3, <1>4 DEF Word
  <2>5. w.cash - balances[p][t].cash <= wallet'[t][VaultAddress] - wallet[t][VaultAddress]
    BY <1>3, <2>3, <2>4
  <2>6. Atomically /\ UNCHANGED <<paused, registered, assetManager, internal, relayers, approved, signed>>
    BY <1>7 DEF DepositPoolBalance
  <2> HIDE DEF w
  <2> QED  BY <1>5, <2>1, <2>2, <2>3, <2>5, <2>6
<1>8. CASE UpdateManagedBalance(caller, p, t, amount)
  <2> DEFINE w == [cash |-> balances[p][t].cash, managed |-> amount]
  <2>1. w \in Word
    BY <1>3, <1>4 DEF Word
  <2>2. balances' = [balances EXCEPT ![p][t] = w]
    BY <1>8 DEF UpdateManagedBalance
  <2>3. wallet' = wallet
    BY <1>8 DEF UpdateManagedBalance
  <2>4. w.cash - balances[p][t].cash <= wallet'[t][VaultAddress] - wallet[t][VaultAddress]
    BY <1>1, <1>4, <2>3 DEF Word
  <2>5. Atomically /\ UNCHANGED <<paused, registered, assetManager, internal, relayers, approved, signed>>
    BY <1>8 DEF UpdateManagedBalance
  <2> HIDE DEF w
  <2> QED  BY <1>1, <1>5, <2>1, <2>2, <2>3, <2>4, <2>5
<1> QED  BY <1>2, <1>6, <1>7, <1>8

LEMMA AuthorizationStep ==
    ASSUME IInv, AuthorizationNext
    PROVE  IInv'
<1>1. StorageTyped
  BY Parts
<1>2. ASSUME NEW caller \in Users, NEW sender \in Users, NEW relayer \in RelayerContracts,
             NEW isApproved \in BOOLEAN,
             SetRelayerApproval(caller, sender, relayer, isApproved)
      PROVE  IInv'
  <2>1. signed' \in SUBSET (Users \X RelayerContracts)
    BY <1>1, <1>2, AuthenticateForType DEF SetRelayerApproval
  <2>2. approved' \in [Users -> SUBSET RelayerContracts]
    BY <1>1, <1>2 DEF SetRelayerApproval, StorageTyped
  <2>3. StorageTyped'
    BY <1>1, <1>2, <2>1, <2>2 DEF SetRelayerApproval, StorageTyped
  <2> QED  BY <1>2, <2>3, AtomicNext DEF SetRelayerApproval, Solvent
<1>3. ASSUME NEW b \in BOOLEAN, SetPaused(b)
      PROVE  IInv'
  <2>1. StorageTyped'
    BY <1>1, <1>3 DEF SetPaused, StorageTyped
  <2> QED  BY <1>3, <2>1, AtomicNext DEF SetPaused, Solvent
<1>4. CASE PauseExpires
  <2>1. StorageTyped'
    BY <1>1, <1>4 DEF PauseExpires, StorageTyped
  <2>2. UNCHANGED <<status, stack, balances, internal, wallet>>
    BY <1>4 DEF PauseExpires
  <2>3. \A t \in Tokens : wallet'[t][VaultAddress] >= wallet[t][VaultAddress]
    BY <1>1, <2>2 DEF StorageTyped, Accounts
  <2> QED  BY <2>1, <2>2, <2>3, EnvironmentMoves
<1> QED  BY <1>2, <1>3, <1>4 DEF AuthorizationNext

LEMMA EnvironmentStep ==
    ASSUME IInv, EnvironmentNext
    PROVE  IInv'
<1>1. /\ StorageTyped /\ wallet \in [Tokens -> [Accounts -> Nat]] /\ Amounts \subseteq Nat
      /\ VaultAddress \in Accounts /\ Collector \in Accounts /\ VaultAddress # Collector
      /\ \A u \in Users : u \in Accounts /\ u # VaultAddress /\ u # Collector
  BY Parts
<1>2. ASSUME NEW u \in Users, NEW t \in Tokens, NEW amount \in Amounts, SendToVault(u, t, amount)
      PROVE  IInv'
  <2>1. /\ wallet' \in [Tokens -> [Accounts -> Nat]]
        /\ \A s \in Tokens \ {t} : wallet'[s] = wallet[s]
        /\ wallet'[t][VaultAddress] = wallet[t][VaultAddress] + amount
    BY <1>1, <1>2, TransferType DEF SendToVault
  <2>2. \A s \in Tokens : wallet'[s][VaultAddress] >= wallet[s][VaultAddress]
    BY <1>1, <2>1
  <2>3. StorageTyped' /\ UNCHANGED <<status, stack, balances, internal>>
    BY <1>1, <1>2, <2>1 DEF SendToVault, StorageTyped
  <2> QED  BY <2>2, <2>3, EnvironmentMoves
<1>3. ASSUME NEW u \in Users, NEW t \in Tokens, NEW amount \in Amounts,
             WithdrawCollectedFees(u, t, amount)
      PROVE  IInv'
  <2>1. /\ wallet' \in [Tokens -> [Accounts -> Nat]]
        /\ \A s \in Tokens \ {t} : wallet'[s] = wallet[s]
        /\ wallet'[t][VaultAddress] = wallet[t][VaultAddress]
    BY <1>1, <1>3, TransferType DEF WithdrawCollectedFees
  <2>2. \A s \in Tokens : wallet'[s][VaultAddress] >= wallet[s][VaultAddress]
    BY <1>1, <2>1
  <2>3. StorageTyped' /\ UNCHANGED <<status, stack, balances, internal>>
    BY <1>1, <1>3, <2>1 DEF WithdrawCollectedFees, StorageTyped
  <2> QED  BY <2>2, <2>3, EnvironmentMoves
<1>4. ASSUME NEW r \in RelayerContracts,
             ChangeRelayerPermission(r) \/ \E u \in Users : Sign(u, r)
      PROVE  IInv'
  <2>1. StorageTyped' /\ UNCHANGED <<status, stack, balances, internal, wallet>>
    BY <1>1, <1>4 DEF ChangeRelayerPermission, Sign, StorageTyped
  <2>2. \A t \in Tokens : wallet'[t][VaultAddress] >= wallet[t][VaultAddress]
    BY <1>1, <2>1
  <2> QED  BY <2>1, <2>2, EnvironmentMoves
<1>5. CASE Revert
  <2>1. stack # <<>> /\ Leave
    BY <1>5 DEF Revert
  <2>2. Top.saved \in StorageType /\ Solvent(Top.saved.balances, Top.saved.internal, Top.saved.wallet)
    BY <2>1, TopKinds, Parts DEF IInv, CallOK
  <2>3. StorageTyped'
    BY <1>5, <2>2 DEF Revert, StorageTyped, StorageType
  <2>4. Solvent(balances', internal', wallet')
    BY <1>5, <2>2 DEF Revert
  <2> QED  BY <2>1, <2>3, <2>4, LeaveNext
<1> QED  BY <1>2, <1>3, <1>4, <1>5 DEF EnvironmentNext

-----------------------------------------------------------------------------
(* Moving Internal Balance *)

\* The claims on t follow one user's Internal Balance of t.
LEMMA InternalAdd ==
    ASSUME NEW b, NEW i, Books(b, i), NEW t \in Tokens, NEW u \in Users,
           NEW n \in Int, i[u][t] + n >= 0
    PROVE  /\ Books(b, Add(i, u, t, n))
           /\ Total(Claims(b, Add(i, u, t, n), t)) = Total(Claims(b, i, t)) + n
           /\ \A s \in Tokens \ {t} :
                 Total(Claims(b, Add(i, u, t, n), s)) = Total(Claims(b, i, s))
<1>0. i \in [Users -> [Tokens -> Nat]] /\ i[u][t] + n >= 0 /\ n \in Int
  BY DEF Books
<1> DEFINE i2 == Add(i, u, t, n)
<1>1. /\ i2 \in [Users -> [Tokens -> Nat]]
      /\ i2[u][t] = i[u][t] + n
      /\ \A s \in Tokens \ {t} : i2[u][s] = i[u][s]
      /\ \A v \in Users \ {u} : i2[v] = i[v]
  <2>1. /\ Add(i, u, t, n) \in [Users -> [Tokens -> Nat]]
        /\ Add(i, u, t, n)[u][t] = i[u][t] + n
        /\ \A w \in Tokens \ {t} : Add(i, u, t, n)[u][w] = i[u][w]
        /\ \A v \in Users \ {u} : Add(i, u, t, n)[v] = i[v]
    BY <1>0, AddType
  <2> QED  BY <2>1
<1> HIDE DEF i2
<1>2. Books(b, i2)
  BY <1>1 DEF Books
<1>3. \A v \in Users \ {u} : i2[v][t] = i[v][t]
  BY <1>1
<1>4. Total(Claims(b, i2, t)) = Total(Claims(b, i, t)) - i[u][t] + i2[u][t]
  BY <1>2, <1>3, InternalChanges
<1>5. i[u][t] \in Int /\ Total(Claims(b, i, t)) \in Int
  BY ClaimsType DEF Books
<1>6. Total(Claims(b, i2, t)) = Total(Claims(b, i, t)) + n
  BY <1>1, <1>4, <1>5
<1>7. ASSUME NEW s \in Tokens \ {t}
      PROVE  Total(Claims(b, i2, s)) = Total(Claims(b, i, s))
  <2>1. \A v \in Users : i2[v][s] = i[v][s]
    BY <1>1
  <2> QED  BY <2>1, ClaimsSame
<1> QED  BY <1>2, <1>6, <1>7 DEF i2

-----------------------------------------------------------------------------
(* Flash loans *)

LEMMA FeeType ==
    ASSUME NEW n \in Nat
    PROVE  FlashLoanFeeAmount(n) \in Nat
<1>1. FlashLoanFee \in Nat /\ One \in Nat /\ One > 0
  BY AmountsAssumption
<1> DEFINE k == n * FlashLoanFee
<1>2. k \in Nat
  BY <1>1
<1> HIDE DEF k
<1>3. (k + One - 1) \div One \in Nat
  BY <1>1, <1>2
<1> QED  BY <1>3 DEF FlashLoanFeeAmount, k

LEMMA FlashLoansStep ==
    ASSUME IInv, FlashLoansNext
    PROVE  IInv'
<1>1. /\ StorageTyped /\ Typed /\ Books(balances, internal)
      /\ wallet \in [Tokens -> [Accounts -> Nat]]
      /\ VaultAddress \in Accounts /\ Collector \in Accounts /\ VaultAddress # Collector
      /\ \A u \in Users : u \in Accounts /\ u # VaultAddress
      /\ Amounts \subseteq Nat
  BY Parts
<1>2. ASSUME NEW recipient \in Users, NEW lent \in SUBSET Tokens,
             NEW loan \in [Tokens -> Amounts], FlashLoan(recipient, lent, loan)
      PROVE  IInv'
  <2> DEFINE f == [fn |-> "flashLoan", caller |-> recipient, lent |-> lent, loan |-> loan,
                   pre |-> [t \in Tokens |-> wallet[t][VaultAddress]], saved |-> Storage]
  <2>1. /\ Enter(f) /\ UNCHANGED <<paused, registered, assetManager, balances, internal,
                                   relayers, approved, signed>>
        /\ \A t \in lent : loan[t] <= wallet[t][VaultAddress]
        /\ wallet' = [t \in Tokens |->
              IF t \in lent THEN Transfer(wallet, t, VaultAddress, recipient, loan[t])[t]
                            ELSE wallet[t]]
    BY <1>2 DEF FlashLoan
  <2>2. Storage \in StorageType
    BY <1>1, StorageParts DEF Typed
  <2>3. f \in Frame /\ f.saved = Storage /\ f.fn = "flashLoan" /\ f.lent = lent
        /\ f.pre = [t \in Tokens |-> wallet[t][VaultAddress]]
    <3>1. loan \in [Tokens -> Nat]
      BY <1>1
    <3>2. [t \in Tokens |-> wallet[t][VaultAddress]] \in [Tokens -> Nat]
      BY <1>1
    <3> QED  BY <2>2, <3>1, <3>2 DEF Frame, LoanFrame
  <2> HIDE DEF f
  <2>4. stack' # <<>> /\ Top' = f
    <3>1. stack' = <<f>> /\ Top' = f
      BY <1>1, <2>1, <2>3, EnterStack
    <3> QED  BY <3>1
  <2>5. ASSUME NEW t \in Tokens
        PROVE  wallet'[t] \in [Accounts -> Nat]
    <3>1. CASE t \in lent
      <4>1. loan[t] \in Nat /\ loan[t] <= wallet[t][VaultAddress]
        BY <1>1, <2>1, <3>1
      <4>2. Transfer(wallet, t, VaultAddress, recipient, loan[t]) \in [Tokens -> [Accounts -> Nat]]
        BY <1>1, <4>1, TransferType
      <4> QED  BY <2>1, <3>1, <4>2
    <3>2. CASE t \notin lent
      BY <1>1, <2>1, <3>2
    <3> QED  BY <3>1, <3>2
  <2>6. wallet' \in [Tokens -> [Accounts -> Nat]]
    BY <2>1, <2>5
  <2>7. StorageTyped'
    BY <1>1, <2>1, <2>6 DEF StorageTyped
  <2>8. ASSUME NEW t \in Tokens
        PROVE  /\ InFlight(t)' \in Int
               /\ wallet'[t][VaultAddress] + InFlight(t)' = wallet[t][VaultAddress]
    <3>1. InFlight(t)' = IF t \in lent THEN f.pre[t] - wallet'[t][VaultAddress] ELSE 0
      BY <2>3, <2>4, InFlightNext
    <3>2. f.pre[t] = wallet[t][VaultAddress]
      BY <2>3
    <3>3. wallet[t][VaultAddress] \in Nat /\ wallet'[t][VaultAddress] \in Nat
      BY <1>1, <2>6
    <3>4. t \notin lent => wallet'[t] = wallet[t]
      BY <2>1
    <3> QED  BY <3>1, <3>2, <3>3, <3>4
  <2>9. Typed' /\ Backed' /\ CallOK'
    BY <2>1, <2>3, <2>7, <2>8, EnterNext
  <2>10. NoStaleBalances'
    BY <2>3, <2>4 DEF NoStaleBalances, Running, Swapping
  <2> QED  BY <2>9, <2>10 DEF IInv
<1>3. CASE FlashLoanRepaid
  <2>1. /\ stack # <<>> /\ Top.fn = "flashLoan" /\ Leave
        /\ \A t \in Top.lent :
              wallet[t][VaultAddress] >= Top.pre[t] + FlashLoanFeeAmount(Top.loan[t])
        /\ wallet' = [t \in Tokens |->
              IF t \in Top.lent
              THEN Transfer(wallet, t, VaultAddress, Collector,
                            wallet[t][VaultAddress] - Top.pre[t])[t]
              ELSE wallet[t]]
        /\ UNCHANGED <<paused, registered, assetManager, balances, internal,
                       relayers, approved, signed>>
    BY <1>3 DEF FlashLoanRepaid, Running
  <2>2. Top.lent \subseteq Tokens /\ Top.pre \in [Tokens -> Nat] /\ Top.loan \in [Tokens -> Nat]
    BY <1>1, <2>1, TopKinds DEF LoanFrame
  <2>3. ASSUME NEW t \in Top.lent
        PROVE  wallet'[t] \in [Accounts -> Nat] /\ wallet'[t][VaultAddress] = Top.pre[t]
    <3> DEFINE n == wallet[t][VaultAddress] - Top.pre[t]
    <3>1. /\ t \in Tokens /\ wallet[t][VaultAddress] \in Nat /\ Top.pre[t] \in Nat
          /\ Top.loan[t] \in Nat
      BY <1>1, <2>2
    <3>2. FlashLoanFeeAmount(Top.loan[t]) \in Nat
      BY <3>1, FeeType
    <3>3. n \in Nat /\ n <= wallet[t][VaultAddress] /\ wallet[t][VaultAddress] - n = Top.pre[t]
      BY <2>1, <3>1, <3>2
    <3>4. wallet'[t] = Transfer(wallet, t, VaultAddress, Collector, n)[t]
      BY <2>1, <3>1
    <3> HIDE DEF n
    <3>5. /\ Transfer(wallet, t, VaultAddress, Collector, n) \in [Tokens -> [Accounts -> Nat]]
          /\ Transfer(wallet, t, VaultAddress, Collector, n)[t][VaultAddress]
               = wallet[t][VaultAddress] - n
      BY <1>1, <3>1, <3>3, TransferType
    <3> QED  BY <3>1, <3>3, <3>4, <3>5
  <2>4. \A t \in Tokens \ Top.lent : wallet'[t] = wallet[t]
    BY <2>1
  <2>5. wallet' \in [Tokens -> [Accounts -> Nat]]
    <3>1. \A t \in Tokens : wallet'[t] \in [Accounts -> Nat]
      BY <1>1, <2>3, <2>4
    <3> QED  BY <2>1, <3>1
  <2>6. StorageTyped'
    BY <1>1, <2>1, <2>5 DEF StorageTyped
  <2>7. ASSUME NEW t \in Tokens
        PROVE  Total(Claims(balances, internal, t)) <= wallet'[t][VaultAddress]
    <3>1. Total(Claims(balances, internal, t)) <= wallet[t][VaultAddress] + InFlight(t)
      BY DEF IInv, Backed
    <3>2. InFlight(t) = IF t \in Top.lent THEN Top.pre[t] - wallet[t][VaultAddress] ELSE 0
      BY <2>1, InFlightOf
    <3>3. wallet[t][VaultAddress] \in Nat /\ Top.pre[t] \in Nat
      BY <1>1, <2>2
    <3> QED  BY <2>3, <2>4, <3>1, <3>2, <3>3
  <2>8. Solvent(balances', internal', wallet')
    BY <2>1, <2>7 DEF Solvent
  <2> QED  BY <2>1, <2>6, <2>8, LeaveNext
<1> QED  BY <1>2, <1>3 DEF FlashLoansNext

-----------------------------------------------------------------------------
(* manageUserBalance *)

LEMMA UserFrameNext ==
    ASSUME NEW r \in UserFrame, r.steps > 0, NEW a \in BOOLEAN, NEW b \in BOOLEAN
    PROVE  [r EXCEPT !.steps = @ - 1, !.isRelayer = a, !.notPaused = b] \in UserFrame
<1>1. r.steps - 1 \in Nat
  BY DEF UserFrame
<1> QED  BY <1>1 DEF UserFrame

\* An operation that settles what it changes.
LEMMA UserOpNext ==
    ASSUME IInv, NEW sender, UserBalanceOp(sender, TRUE) \/ UserBalanceOp(sender, FALSE),
           StorageTyped',
           \A t \in Tokens :
              Total(Claims(balances', internal', t)) - Total(Claims(balances, internal, t))
              <= wallet'[t][VaultAddress] - wallet[t][VaultAddress]
    PROVE  IInv'
<1>1. stack # <<>> /\ Top.fn = "manageUserBalance" /\ Top.steps > 0 /\ Top \in UserFrame /\ Typed
  BY TopKinds DEF UserBalanceOp, Running, IInv
<1> DEFINE isRelayer == Top.isRelayer \/ sender # Top.caller
           g(notPaused) == [Top EXCEPT !.steps = @ - 1, !.isRelayer = isRelayer,
                                       !.notPaused = notPaused]
           was == Top.notPaused \/ FALSE
           f == IF UserBalanceOp(sender, TRUE) THEN g(Top.notPaused \/ TRUE) ELSE g(was)
<1>2. Continue(f)
  BY DEF UserBalanceOp
<1>a. isRelayer \in BOOLEAN /\ was \in BOOLEAN /\ (Top.notPaused \/ TRUE) \in BOOLEAN
  OBVIOUS
<1> HIDE DEF isRelayer, was
<1>3. f \in UserFrame /\ f.saved = Top.saved /\ f.fn = "manageUserBalance"
  <2>1. f \in UserFrame
    BY <1>1, <1>a, UserFrameNext
  <2>2. f.saved = Top.saved /\ f.fn = Top.fn
    BY <1>1 DEF UserFrame
  <2> QED  BY <1>1, <2>1, <2>2
<1> HIDE DEF f
<1>4. f \in Frame
  BY <1>3 DEF Frame
<1>5. stack' # <<>> /\ Top' = f
  <2>1. stack' = <<f>> /\ Top' = f
    BY <1>1, <1>2, <1>4, ContinueStack
  <2> QED  BY <2>1
<1>6. \A t \in Tokens : InFlight(t) = 0 /\ InFlight(t)' = 0
  BY <1>1, <1>3, <1>5, InFlightOf, InFlightNext
<1>7. ASSUME NEW t \in Tokens
      PROVE  Total(Claims(balances', internal', t)) - Total(Claims(balances, internal, t))
             <= (wallet'[t][VaultAddress] + InFlight(t)')
                - (wallet[t][VaultAddress] + InFlight(t))
  <2>1. wallet[t][VaultAddress] \in Nat /\ wallet'[t][VaultAddress] \in Nat
    BY Parts DEF StorageTyped
  <2> QED  BY <1>6, <2>1
<1>8. Typed' /\ Backed' /\ CallOK'
  BY <1>1, <1>2, <1>3, <1>4, <1>6, <1>7, ContinueNext
<1>9. NoStaleBalances'
  BY <1>3, <1>5 DEF NoStaleBalances, Running, Swapping
<1> QED  BY <1>8, <1>9 DEF IInv

\* Tokens that a user pays to the Vault, and that the Vault pays to a user.
LEMMA UserPays ==
    ASSUME NEW w \in [Tokens -> [Accounts -> Nat]], NEW t \in Tokens, NEW u \in Users,
           NEW n \in Nat, n <= w[t][u]
    PROVE  /\ Transfer(w, t, u, VaultAddress, n) \in [Tokens -> [Accounts -> Nat]]
           /\ Transfer(w, t, u, VaultAddress, n)[t][VaultAddress] = w[t][VaultAddress] + n
           /\ \A s \in Tokens \ {t} : Transfer(w, t, u, VaultAddress, n)[s] = w[s]
<1>1. u \in Accounts /\ VaultAddress \in Accounts /\ u # VaultAddress
  BY AccountsAssumption DEF Accounts
<1> QED  BY <1>1, TransferType

LEMMA VaultPays ==
    ASSUME NEW w \in [Tokens -> [Accounts -> Nat]], NEW t \in Tokens,
           NEW u \in Users, NEW n \in Nat, n <= w[t][VaultAddress]
    PROVE  /\ Transfer(w, t, VaultAddress, u, n) \in [Tokens -> [Accounts -> Nat]]
           /\ Transfer(w, t, VaultAddress, u, n)[t][VaultAddress] = w[t][VaultAddress] - n
           /\ \A s \in Tokens \ {t} : Transfer(w, t, VaultAddress, u, n)[s] = w[s]
<1>1. u \in Accounts /\ VaultAddress \in Accounts /\ u # VaultAddress
  BY AccountsAssumption DEF Accounts
<1> QED  BY <1>1, TransferType

LEMMA VaultPaysFee ==
    ASSUME NEW w \in [Tokens -> [Accounts -> Nat]], NEW t \in Tokens,
           NEW n \in Nat, n <= w[t][VaultAddress]
    PROVE  /\ Transfer(w, t, VaultAddress, Collector, n) \in [Tokens -> [Accounts -> Nat]]
           /\ Transfer(w, t, VaultAddress, Collector, n)[t][VaultAddress]
                = w[t][VaultAddress] - n
           /\ \A s \in Tokens \ {t} : Transfer(w, t, VaultAddress, Collector, n)[s] = w[s]
<1>1. Collector \in Accounts /\ VaultAddress \in Accounts /\ Collector # VaultAddress
  BY AccountsAssumption DEF Accounts
<1> QED  BY <1>1, TransferType

LEMMA UserBalanceStep ==
    ASSUME IInv, UserBalanceNext
    PROVE  IInv'
<1>1. /\ StorageTyped /\ Typed /\ Books(balances, internal)
      /\ wallet \in [Tokens -> [Accounts -> Nat]] /\ internal \in [Users -> [Tokens -> Nat]]
      /\ Amounts \subseteq Nat /\ VaultAddress \in Accounts
      /\ \A u \in Users : u \in Accounts /\ u # VaultAddress
      /\ \A t \in Tokens : Total(Claims(balances, internal, t)) \in Nat
  BY Parts DEF StorageTyped
<1>2. ASSUME NEW caller \in Users, NEW steps \in 1..MaxOps, ManageUserBalance(caller, steps)
      PROVE  IInv'
  <2> DEFINE f == [fn |-> "manageUserBalance", caller |-> caller, steps |-> steps,
                   isRelayer |-> FALSE, notPaused |-> FALSE, saved |-> Storage]
  <2>1. Enter(f) /\ UNCHANGED storageVars
    BY <1>2 DEF ManageUserBalance
  <2>2. Storage \in StorageType /\ steps \in Nat
    BY <1>1, StorageParts, AmountsAssumption DEF Typed
  <2>3. f \in Frame /\ f.saved = Storage /\ f.fn = "manageUserBalance"
    BY <2>2 DEF Frame, UserFrame
  <2> HIDE DEF f
  <2>4. stack' # <<>> /\ Top' = f
    <3>1. stack' = <<f>> /\ Top' = f
      BY <1>1, <2>1, <2>3, EnterStack
    <3> QED  BY <3>1
  <2>5. StorageTyped' /\ UNCHANGED <<balances, internal, wallet>>
    BY <1>1, <2>1 DEF StorageTyped, storageVars
  <2>6. \A t \in Tokens : InFlight(t)' \in Int
                          /\ wallet'[t][VaultAddress] + InFlight(t)' = wallet[t][VaultAddress]
    <3>1. \A t \in Tokens : InFlight(t)' = 0 /\ wallet[t][VaultAddress] \in Nat
      BY <1>1, <2>3, <2>4, InFlightNext
    <3> QED  BY <2>5, <3>1
  <2>7. Typed' /\ Backed' /\ CallOK'
    BY <2>1, <2>3, <2>5, <2>6, EnterNext
  <2>8. NoStaleBalances'
    BY <2>3, <2>4 DEF NoStaleBalances, Running, Swapping
  <2> QED  BY <2>7, <2>8 DEF IInv
\* What the four operations have in common: the claims on t change by d, and so
\* does the Vault's balance of t.
<1>3. ASSUME NEW t \in Tokens, NEW sender \in Users, NEW d \in Int,
             UserBalanceOp(sender, TRUE) \/ UserBalanceOp(sender, FALSE),
             wallet' \in [Tokens -> [Accounts -> Nat]], Books(balances, internal'),
             wallet'[t][VaultAddress] = wallet[t][VaultAddress] + d,
             \A s \in Tokens \ {t} : wallet'[s][VaultAddress] = wallet[s][VaultAddress],
             Total(Claims(balances, internal', t)) = Total(Claims(balances, internal, t)) + d,
             \A s \in Tokens \ {t} :
                Total(Claims(balances, internal', s)) = Total(Claims(balances, internal, s))
      PROVE  IInv'
  <2>1. StorageTyped' /\ balances' = balances
    BY <1>1, <1>3 DEF UserBalanceOp, StorageTyped, Books
  <2>2. ASSUME NEW s \in Tokens
        PROVE  Total(Claims(balances', internal', s)) - Total(Claims(balances, internal, s))
               <= wallet'[s][VaultAddress] - wallet[s][VaultAddress]
    <3>1. wallet[s][VaultAddress] \in Nat /\ Total(Claims(balances, internal, s)) \in Nat
      BY <1>1
    <3>2. CASE s = t
      BY <1>3, <2>1, <3>1, <3>2
    <3>3. CASE s # t
      BY <1>3, <2>1, <3>1, <3>3
    <3> QED  BY <3>2, <3>3
  <2> QED  BY <1>3, <2>1, <2>2, UserOpNext
<1>4. ASSUME NEW sender \in Users, NEW recipient \in Users, NEW t \in Tokens, NEW amount \in Amounts,
             DepositToInternalBalance(sender, recipient, t, amount)
      PROVE  IInv'
  <2>1. /\ UserBalanceOp(sender, TRUE) /\ amount \in Nat /\ amount <= wallet[t][sender]
        /\ internal' = Add(internal, recipient, t, amount)
        /\ wallet' = Transfer(wallet, t, sender, VaultAddress, amount)
    BY <1>1, <1>4 DEF DepositToInternalBalance
  <2>2. /\ wallet' \in [Tokens -> [Accounts -> Nat]]
        /\ wallet'[t][VaultAddress] = wallet[t][VaultAddress] + amount
        /\ \A s \in Tokens \ {t} : wallet'[s][VaultAddress] = wallet[s][VaultAddress]
    BY <1>1, <2>1, UserPays, SMTT(40)
  <2>3. internal[recipient][t] + amount >= 0
    BY <1>1, <2>1
  <2>4. /\ Books(balances, internal')
        /\ Total(Claims(balances, internal', t)) = Total(Claims(balances, internal, t)) + amount
        /\ \A s \in Tokens \ {t} :
              Total(Claims(balances, internal', s)) = Total(Claims(balances, internal, s))
    BY <1>1, <2>1, <2>3, InternalAdd
  <2> DEFINE d == amount
  <2>5. /\ d \in Int /\ wallet'[t][VaultAddress] = wallet[t][VaultAddress] + d
        /\ Total(Claims(balances, internal', t)) = Total(Claims(balances, internal, t)) + d
    BY <2>1, <2>2, <2>4
  <2> HIDE DEF d
  <2> QED  BY <1>3, <2>1, <2>2, <2>4, <2>5
<1>5. ASSUME NEW sender \in Users, NEW recipient \in Users, NEW t \in Tokens, NEW amount \in Amounts,
             WithdrawFromInternalBalance(sender, recipient, t, amount)
      PROVE  IInv'
  <2> DEFINE d == -amount
  <2>1. /\ UserBalanceOp(sender, FALSE) /\ amount \in Nat /\ amount <= internal[sender][t]
        /\ amount <= wallet[t][VaultAddress]
        /\ internal' = Add(internal, sender, t, d)
        /\ wallet' = Transfer(wallet, t, VaultAddress, recipient, amount)
    BY <1>1, <1>5 DEF WithdrawFromInternalBalance
  <2>2. internal[sender][t] \in Nat /\ wallet[t][VaultAddress] \in Nat
    BY <1>1
  <2>3. d \in Int /\ internal[sender][t] + d >= 0
        /\ wallet[t][VaultAddress] - amount = wallet[t][VaultAddress] + d
    BY <2>1, <2>2
  <2> HIDE DEF d
  <2>4. /\ wallet' \in [Tokens -> [Accounts -> Nat]]
        /\ wallet'[t][VaultAddress] = wallet[t][VaultAddress] - amount
        /\ \A s \in Tokens \ {t} : wallet'[s][VaultAddress] = wallet[s][VaultAddress]
    BY <1>1, <2>1, VaultPays, SMTT(40)
  <2>5. /\ Books(balances, internal')
        /\ Total(Claims(balances, internal', t)) = Total(Claims(balances, internal, t)) + d
        /\ \A s \in Tokens \ {t} :
              Total(Claims(balances, internal', s)) = Total(Claims(balances, internal, s))
    BY <1>1, <2>1, <2>3, InternalAdd
  <2> QED  BY <1>3, <2>1, <2>3, <2>4, <2>5
<1>6. ASSUME NEW sender \in Users, NEW recipient \in Users, NEW t \in Tokens, NEW amount \in Amounts,
             TransferInternalBalance(sender, recipient, t, amount)
      PROVE  IInv'
  <2> DEFINE d == -amount
             i == Add(internal, sender, t, d)
  <2>1. /\ UserBalanceOp(sender, TRUE) /\ amount \in Nat /\ amount <= internal[sender][t]
        /\ internal' = Add(i, recipient, t, amount) /\ wallet' = wallet
    BY <1>1, <1>6 DEF TransferInternalBalance
  <2>2. internal[sender][t] \in Nat /\ wallet[t][VaultAddress] \in Nat
    BY <1>1
  <2>3. d \in Int /\ internal[sender][t] + d >= 0 /\ d + amount = 0
    BY <2>1, <2>2
  <2> HIDE DEF d
  <2>4. /\ Books(balances, i)
        /\ Total(Claims(balances, i, t)) = Total(Claims(balances, internal, t)) + d
        /\ \A s \in Tokens \ {t} :
              Total(Claims(balances, i, s)) = Total(Claims(balances, internal, s))
    BY <1>1, <2>3, InternalAdd
  <2> HIDE DEF i
  <2>5. i[recipient][t] + amount >= 0
    BY <2>1, <2>4 DEF Books
  <2>6. /\ Books(balances, internal')
        /\ Total(Claims(balances, internal', t)) = Total(Claims(balances, i, t)) + amount
        /\ \A s \in Tokens \ {t} :
              Total(Claims(balances, internal', s)) = Total(Claims(balances, i, s))
    BY <2>1, <2>4, <2>5, InternalAdd
  <2>7. Total(Claims(balances, internal', t)) = Total(Claims(balances, internal, t)) + 0
    <3>1. Total(Claims(balances, internal, t)) \in Nat
      BY <1>1
    <3> QED  BY <2>1, <2>3, <2>4, <2>6, <3>1
  <2>8. wallet'[t][VaultAddress] = wallet[t][VaultAddress] + 0
        /\ wallet' \in [Tokens -> [Accounts -> Nat]]
    BY <1>1, <2>1, <2>2
  <2>9. /\ \A s \in Tokens \ {t} : wallet'[s][VaultAddress] = wallet[s][VaultAddress]
        /\ \A s \in Tokens \ {t} :
              Total(Claims(balances, internal', s)) = Total(Claims(balances, internal, s))
    BY <2>1, <2>4, <2>6
  <2> DEFINE z == 0
  <2>10. /\ z \in Int /\ wallet'[t][VaultAddress] = wallet[t][VaultAddress] + z
         /\ Total(Claims(balances, internal', t)) = Total(Claims(balances, internal, t)) + z
    BY <2>7, <2>8
  <2> HIDE DEF z
  <2> QED  BY <1>3, <2>1, <2>6, <2>8, <2>9, <2>10
<1>7. ASSUME NEW sender \in Users, NEW recipient \in Users, NEW t \in Tokens, NEW amount \in Amounts,
             TransferToExternalBalance(sender, recipient, t, amount)
      PROVE  IInv'
  <2>1. /\ UserBalanceOp(sender, TRUE) /\ amount \in Nat /\ amount <= wallet[t][sender]
        /\ internal' = internal /\ wallet' = Transfer(wallet, t, sender, recipient, amount)
    BY <1>1, <1>7 DEF TransferToExternalBalance
  <2>2. /\ wallet' \in [Tokens -> [Accounts -> Nat]]
        /\ wallet'[t][VaultAddress] = wallet[t][VaultAddress]
        /\ \A s \in Tokens \ {t} : wallet'[s] = wallet[s]
    <3>1. /\ sender \in Accounts /\ recipient \in Accounts
          /\ VaultAddress \in Accounts \ {sender, recipient}
          /\ wallet \in [Tokens -> [Accounts -> Nat]]
          /\ amount \in Nat /\ amount <= wallet[t][sender]
      BY <1>1, <2>1
    <3>2. /\ Transfer(wallet, t, sender, recipient, amount) \in [Tokens -> [Accounts -> Nat]]
          /\ \A s \in Tokens \ {t} : Transfer(wallet, t, sender, recipient, amount)[s] = wallet[s]
          /\ \A x \in Accounts \ {sender, recipient} :
                Transfer(wallet, t, sender, recipient, amount)[t][x] = wallet[t][x]
      BY <3>1, TransferType, SMTT(40)
    <3> QED  BY <2>1, <3>1, <3>2
  <2>3. /\ wallet[t][VaultAddress] \in Nat /\ Total(Claims(balances, internal, t)) \in Nat
    BY <1>1
  <2>4. /\ wallet'[t][VaultAddress] = wallet[t][VaultAddress] + 0
        /\ Total(Claims(balances, internal', t)) = Total(Claims(balances, internal, t)) + 0
        /\ \A s \in Tokens \ {t} : wallet'[s][VaultAddress] = wallet[s][VaultAddress]
        /\ \A s \in Tokens \ {t} :
              Total(Claims(balances, internal', s)) = Total(Claims(balances, internal, s))
    BY <2>1, <2>2, <2>3
  <2>5. Books(balances, internal')
    BY <1>1, <2>1
  <2> DEFINE z == 0
  <2>6. /\ z \in Int /\ wallet'[t][VaultAddress] = wallet[t][VaultAddress] + z
        /\ Total(Claims(balances, internal', t)) = Total(Claims(balances, internal, t)) + z
    BY <2>4
  <2> HIDE DEF z
  <2> QED  BY <1>3, <2>1, <2>2, <2>4, <2>5, <2>6
<1>8. CASE ManageUserBalanceEnd
  <2>1. stack # <<>> /\ Top.fn = "manageUserBalance" /\ Leave /\ UNCHANGED storageVars
    BY <1>8 DEF ManageUserBalanceEnd, Running
  <2>2. StorageTyped' /\ UNCHANGED <<balances, internal, wallet>>
    BY <1>1, <2>1 DEF StorageTyped, storageVars
  <2>3. ASSUME NEW t \in Tokens
        PROVE  Total(Claims(balances, internal, t)) <= wallet[t][VaultAddress]
    <3>1. InFlight(t) = 0 /\ wallet[t][VaultAddress] \in Nat
      BY <1>1, <2>1, InFlightOf
    <3>2. Total(Claims(balances, internal, t)) <= wallet[t][VaultAddress] + InFlight(t)
      BY DEF IInv, Backed
    <3> QED  BY <3>1, <3>2
  <2>4. Solvent(balances', internal', wallet')
    BY <2>2, <2>3 DEF Solvent
  <2> QED  BY <2>1, <2>2, <2>4, LeaveNext
<1> QED  BY <1>2, <1>4, <1>5, <1>6, <1>7, <1>8 DEF UserBalanceNext

-----------------------------------------------------------------------------
(* Joins and exits *)

LEMMA DeductedBounds ==
    ASSUME NEW b, NEW u, NEW t, NEW n \in Nat, internal[u][t] \in Nat
    PROVE  Deducted(b, u, t, n) \in Nat /\ Deducted(b, u, t, n) <= n
           /\ Deducted(b, u, t, n) <= internal[u][t]
BY DEF Deducted

LEMMA PoolFrameNext ==
    ASSUME NEW r \in PoolFrame, NEW t \in Tokens, NEW w \in Word
    PROVE  /\ Processed(r, t, w) \in PoolFrame
           /\ Processed(r, t, w).saved = r.saved /\ Processed(r, t, w).fn = r.fn
           /\ Processed(r, t, w).pool = r.pool
           /\ Processed(r, t, w).todo = r.todo \ {t}
           /\ Processed(r, t, w).final = [r.final EXCEPT ![t] = w]
<1>1. r.final \in [Tokens -> Word] /\ [r.final EXCEPT ![t] = w] \in [Tokens -> Word]
  BY DEF PoolFrame
<1> QED  BY <1>1 DEF PoolFrame, Processed

\* The Vault's tokens of t change by d, the claims on t by e, and no others do.
Moves(t, d, e) ==
    /\ wallet' \in [Tokens -> [Accounts -> Nat]] /\ Books(balances, internal')
    /\ wallet'[t][VaultAddress] = wallet[t][VaultAddress] + d
    /\ \A s \in Tokens \ {t} : wallet'[s][VaultAddress] = wallet[s][VaultAddress]
    /\ Total(Claims(balances, internal', t)) = Total(Claims(balances, internal, t)) + e
    /\ \A s \in Tokens \ {t} :
          Total(Claims(balances, internal', s)) = Total(Claims(balances, internal, s))

\* One token of a join or an exit: the Pool's cash changes by n when it is
\* stored, the claims by e and the Vault's tokens by d.
LEMMA PoolTransferNext ==
    ASSUME IInv, stack # <<>>, Top.fn \in {"join", "exit"},
           NEW t \in Tokens, NEW n \in Int, NEW d \in Int, NEW e \in Int, e <= d - n,
           IsBalance(AddCash(Top.final[t], n)),
           Continue(Processed(Top, t, AddCash(Top.final[t], n))),
           UNCHANGED <<paused, registered, assetManager, balances, relayers, approved, signed>>,
           Moves(t, d, e)
    PROVE  IInv'
<1>1. /\ StorageTyped /\ Typed /\ balances \in [Pools -> [Tokens -> Word]]
      /\ wallet \in [Tokens -> [Accounts -> Nat]] /\ VaultAddress \in Accounts
      /\ \A s \in Tokens : Total(Claims(balances, internal, s)) \in Nat
  BY Parts DEF StorageTyped
<1>2. Top \in PoolFrame
  BY <1>1, TopKinds
<1>3. /\ Top.pool \in Pools /\ Top.final \in [Tokens -> Word]
      /\ balances[Top.pool] \in [Tokens -> Word]
  BY <1>1, <1>2 DEF PoolFrame
<1> DEFINE w == AddCash(Top.final[t], n)
           f == Processed(Top, t, w)
<1>4. /\ w \in Word /\ w.cash = Top.final[t].cash + n /\ w.managed = Top.final[t].managed
  BY <1>3, AddCashWord
<1>5. Continue(f)
  OBVIOUS
<1> HIDE DEF w
<1>6. /\ f \in PoolFrame /\ f.saved = Top.saved /\ f.fn = Top.fn /\ f.pool = Top.pool
      /\ f.todo = Top.todo \ {t} /\ f.final = [Top.final EXCEPT ![t] = w]
  BY <1>2, <1>4, PoolFrameNext
<1> HIDE DEF f
<1>7. /\ f.final[t] = w
      /\ \A s \in Tokens \ {t} : f.final[s] = Top.final[s]
  BY <1>3, <1>4, <1>6
<1>8. f \in Frame
  BY <1>6 DEF Frame
<1>9. stack' # <<>> /\ Top' = f
  <2>1. stack' = <<f>> /\ Top' = f
    BY <1>1, <1>5, <1>8, ContinueStack
  <2> QED  BY <2>1
<1>10. StorageTyped' /\ balances' = balances
  BY <1>1 DEF StorageTyped, Books, Moves
<1>11. ASSUME NEW s \in Tokens
       PROVE  /\ InFlight(s) \in Int /\ InFlight(s)' \in Int
              /\ s = t => InFlight(s)' = InFlight(s) - n
              /\ s # t => InFlight(s)' = InFlight(s)
  <2>1. InFlight(s) = balances[Top.pool][s].cash - Top.final[s].cash
    BY InFlightOf
  <2>2. InFlight(s)' = balances[Top.pool][s].cash - f.final[s].cash
    BY <1>6, <1>9, <1>10, InFlightNext
  <2>3. balances[Top.pool][s].cash \in Nat /\ Top.final[s].cash \in Nat
    BY <1>3 DEF Word
  <2>4. s = t => f.final[s].cash = Top.final[s].cash + n
    BY <1>4, <1>7
  <2>5. s # t => f.final[s].cash = Top.final[s].cash
    BY <1>7
  <2> QED  BY <2>1, <2>2, <2>3, <2>4, <2>5, SMTT(40)
<1>12. ASSUME NEW s \in Tokens
       PROVE  Total(Claims(balances', internal', s)) - Total(Claims(balances, internal, s))
              <= (wallet'[s][VaultAddress] + InFlight(s)')
                 - (wallet[s][VaultAddress] + InFlight(s))
  <2> DEFINE k == Total(Claims(balances, internal, s))
             k2 == Total(Claims(balances', internal', s))
             a == wallet[s][VaultAddress]
             a2 == wallet'[s][VaultAddress]
  <2>1. a \in Nat /\ k \in Nat /\ InFlight(s) \in Int
    BY <1>1, <1>11
  <2>2. CASE s = t
    <3>1. a2 = a + d /\ k2 = k + e
      BY <1>10, <2>2 DEF Moves
    <3>2. InFlight(s)' = InFlight(s) - n
      BY <1>11, <2>2
    <3> HIDE DEF a, a2, k, k2
    <3>3. k2 - k <= (a2 + InFlight(s)') - (a + InFlight(s))
      BY <2>1, <3>1, <3>2
    <3> QED  BY <3>3 DEF a, a2, k, k2
  <2>3. CASE s # t
    <3>1. a2 = a /\ k2 = k
      BY <1>10, <2>3 DEF Moves
    <3>2. InFlight(s)' = InFlight(s)
      BY <1>11, <2>3
    <3> QED  BY <2>1, <3>1, <3>2
  <2> QED  BY <2>2, <2>3
<1>13. Typed' /\ Backed' /\ CallOK'
  BY <1>5, <1>6, <1>8, <1>10, <1>11, <1>12, ContinueNext
<1>14. NoStaleBalances'
  <2>1. ASSUME NEW s \in Tokens
        PROVE  /\ s \in f.todo => f.final[s] = balances[Top.pool][s]
               /\ f.final[s].managed = balances[Top.pool][s].managed
    <3>1. /\ s \in Top.todo => Top.final[s] = balances[Top.pool][s]
          /\ Top.final[s].managed = balances[Top.pool][s].managed
      BY DEF IInv, NoStaleBalances, Running
    <3>2. s \in f.todo => s # t /\ s \in Top.todo
      BY <1>6
    <3> QED  BY <1>4, <1>7, <3>1, <3>2
  <2>2. f.fn \notin {"swap", "batchSwap"}
    BY <1>6
  <2> QED  BY <1>6, <1>9, <1>10, <2>1, <2>2 DEF NoStaleBalances, Running, Swapping
<1> QED  BY <1>13, <1>14 DEF IInv

LEMMA PoolBalancesStep ==
    ASSUME IInv, PoolBalancesNext
    PROVE  IInv'
<1>1. /\ StorageTyped /\ Typed /\ Books(balances, internal)
      /\ balances \in [Pools -> [Tokens -> Word]] /\ registered \in [Pools -> SUBSET Tokens]
      /\ wallet \in [Tokens -> [Accounts -> Nat]] /\ internal \in [Users -> [Tokens -> Nat]]
      /\ Amounts \subseteq Nat /\ VaultAddress \in Accounts
      /\ \A t \in Tokens : Total(Claims(balances, internal, t)) \in Nat
  BY Parts DEF StorageTyped
<1>2. ASSUME NEW kind \in {"join", "exit"}, NEW caller \in Users, NEW sender \in Users,
             NEW recipient \in Users, NEW p \in Pools, NEW useInternal \in BOOLEAN,
             JoinOrExit(kind, caller, sender, recipient, p, useInternal)
      PROVE  IInv'
  <2> DEFINE party == IF kind = "join" THEN sender ELSE recipient
             f == [fn |-> kind, caller |-> caller, party |-> party,
                   pool |-> p, useInternal |-> useInternal,
                   final |-> balances[p], todo |-> registered[p], saved |-> Storage]
  <2>1. /\ Enter(f) /\ AuthenticateFor(caller, sender)
        /\ UNCHANGED <<paused, registered, assetManager, balances, internal,
                       wallet, relayers, approved>>
    BY <1>2 DEF JoinOrExit
  <2>2. /\ Storage \in StorageType /\ party \in Users
        /\ balances[p] \in [Tokens -> Word] /\ registered[p] \in SUBSET Tokens
    BY <1>1, StorageParts DEF Typed
  <2> HIDE DEF party
  <2>3. f \in PoolFrame
    BY <2>2 DEF PoolFrame
  <2>4. /\ f \in Frame /\ f.saved = Storage /\ f.fn = kind /\ f.pool = p
        /\ f.final = balances[p]
    BY <2>3 DEF Frame
  <2> HIDE DEF f
  <2>5. stack' # <<>> /\ Top' = f
    <3>1. stack' = <<f>> /\ Top' = f
      BY <1>1, <2>1, <2>4, EnterStack
    <3> QED  BY <3>1
  <2>6. signed' \in SUBSET (Users \X RelayerContracts)
    BY <1>1, <2>1, AuthenticateForType
  <2>7. StorageTyped'
    BY <1>1, <2>1, <2>6 DEF StorageTyped
  <2>8. ASSUME NEW t \in Tokens
        PROVE  /\ InFlight(t)' \in Int
               /\ wallet'[t][VaultAddress] + InFlight(t)' = wallet[t][VaultAddress]
    <3>1. InFlight(t)' = balances[p][t].cash - balances[p][t].cash
      BY <2>1, <2>4, <2>5, InFlightNext
    <3>2. balances[p][t].cash \in Nat /\ wallet[t][VaultAddress] \in Nat
      BY <1>1, <2>2 DEF Word
    <3> QED  BY <2>1, <3>1, <3>2
  <2>9. f.fn \notin {"swap", "batchSwap"}
    BY <2>4
  <2>10. Typed' /\ Backed' /\ CallOK'
    BY <2>1, <2>4, <2>7, <2>8, <2>9, EnterNext
  <2>11. NoStaleBalances'
    BY <2>1, <2>4, <2>5, <2>9 DEF NoStaleBalances, Running, Swapping
  <2> QED  BY <2>10, <2>11 DEF IInv
<1>3. ASSUME NEW t \in Tokens, NEW amountIn \in Amounts, NEW fee \in Amounts,
             ProcessJoinTransfer(t, amountIn, fee)
      PROVE  IInv'
  <2> DEFINE u == Top.party
             deducted == Deducted(Top.useInternal, u, t, amountIn)
             pulled == amountIn - deducted
             e == -deducted
             n == amountIn - fee
             w == Transfer(wallet, t, u, VaultAddress, pulled)
             d == pulled - fee
  <2>1. /\ stack # <<>> /\ Top.fn = "join" /\ amountIn \in Nat /\ fee \in Nat
        /\ pulled <= wallet[t][u]
        /\ fee <= wallet[t][VaultAddress] + pulled
        /\ IsBalance(AddCash(Top.final[t], n))
        /\ internal' = Add(internal, u, t, e)
        /\ wallet' = Transfer(w, t, VaultAddress, Collector, fee)
        /\ Continue(Processed(Top, t, AddCash(Top.final[t], n)))
        /\ UNCHANGED <<paused, registered, assetManager, balances, relayers, approved, signed>>
    BY <1>1, <1>3 DEF ProcessJoinTransfer, Running
  <2>2. u \in Users
    BY <1>1, <2>1, TopKinds DEF PoolFrame
  <2>3. internal[u][t] \in Nat /\ wallet[t][VaultAddress] \in Nat
    BY <1>1, <2>2
  <2>4. deducted \in Nat /\ deducted <= amountIn /\ deducted <= internal[u][t]
    BY <2>1, <2>3, DeductedBounds
  <2> HIDE DEF u, deducted
  <2>a. pulled \in Nat /\ e \in Int /\ n \in Int /\ d \in Int /\ fee \in Nat
    BY <2>1, <2>4
  <2>b. internal[u][t] + e >= 0
    BY <2>3, <2>4
  <2>c. e <= d - n
    BY <2>1, <2>4
  <2>d. wallet[t][VaultAddress] + pulled - fee = wallet[t][VaultAddress] + d
    BY <2>3, <2>a
  <2>e. pulled <= wallet[t][u]
    BY <2>1
  <2>f. wallet' = Transfer(w, t, VaultAddress, Collector, fee)
    BY <2>1
  <2>g. fee <= wallet[t][VaultAddress] + pulled
    BY <2>1
  <2> HIDE DEF pulled, e, n, d
  <2>5. /\ pulled \in Nat /\ e \in Int /\ n \in Int /\ d \in Int
        /\ internal[u][t] + e >= 0 /\ e <= d - n
    BY <2>a, <2>b, <2>c
  <2>6. /\ w \in [Tokens -> [Accounts -> Nat]]
        /\ w[t][VaultAddress] = wallet[t][VaultAddress] + pulled
        /\ \A s \in Tokens \ {t} : w[s] = wallet[s]
    BY <1>1, <2>2, <2>a, <2>e, UserPays, SMTT(40)
  <2> HIDE DEF w
  <2>7. /\ wallet' \in [Tokens -> [Accounts -> Nat]]
        /\ wallet'[t][VaultAddress] = w[t][VaultAddress] - fee
        /\ \A s \in Tokens \ {t} : wallet'[s] = w[s]
    <3>1. fee <= w[t][VaultAddress]
      BY <2>6, <2>g
    <3> QED  BY <2>6, <2>a, <2>f, <3>1, VaultPaysFee
  <2>8. /\ Books(balances, internal')
        /\ Total(Claims(balances, internal', t)) = Total(Claims(balances, internal, t)) + e
        /\ \A s \in Tokens \ {t} :
              Total(Claims(balances, internal', s)) = Total(Claims(balances, internal, s))
    BY <1>1, <2>1, <2>2, <2>5, InternalAdd
  <2>9. /\ wallet'[t][VaultAddress] = wallet[t][VaultAddress] + d
        /\ \A s \in Tokens \ {t} : wallet'[s][VaultAddress] = wallet[s][VaultAddress]
    BY <2>3, <2>6, <2>7, <2>a, <2>d
  <2>10. Moves(t, d, e)
    BY <2>7, <2>8, <2>9 DEF Moves
  <2> QED  BY <2>1, <2>5, <2>10, PoolTransferNext
<1>4. ASSUME NEW t \in Tokens, NEW amountOut \in Amounts, NEW fee \in Amounts,
             ProcessExitTransfer(t, amountOut, fee)
      PROVE  IInv'
  <2> DEFINE u == Top.party
             sent == IF Top.useInternal THEN 0 ELSE amountOut
             e == amountOut - sent
             n == -(amountOut + fee)
             w == Transfer(wallet, t, VaultAddress, u, sent)
             d == -(sent + fee)
  <2>1. /\ stack # <<>> /\ Top.fn = "exit" /\ amountOut \in Nat /\ fee \in Nat
        /\ sent + fee <= wallet[t][VaultAddress]
        /\ IsBalance(AddCash(Top.final[t], n))
        /\ internal' = Add(internal, u, t, e)
        /\ wallet' = Transfer(w, t, VaultAddress, Collector, fee)
        /\ Continue(Processed(Top, t, AddCash(Top.final[t], n)))
        /\ UNCHANGED <<paused, registered, assetManager, balances, relayers, approved, signed>>
    BY <1>1, <1>4 DEF ProcessExitTransfer, Running
  <2>2. u \in Users
    BY <1>1, <2>1, TopKinds DEF PoolFrame
  <2>3. internal[u][t] \in Nat /\ wallet[t][VaultAddress] \in Nat
    BY <1>1, <2>2
  <2>4. sent \in Nat /\ sent <= amountOut
    BY <2>1
  <2> HIDE DEF u, sent
  <2>5. /\ e \in Int /\ n \in Int /\ d \in Int
        /\ internal[u][t] + e >= 0 /\ e <= d - n /\ sent <= wallet[t][VaultAddress]
        /\ wallet[t][VaultAddress] - sent - fee = wallet[t][VaultAddress] + d
    BY <2>1, <2>3, <2>4, SMTT(40)
  <2>f. wallet' = Transfer(w, t, VaultAddress, Collector, fee) /\ fee \in Nat
    BY <2>1
  <2> HIDE DEF e, n, d
  <2>6. /\ w \in [Tokens -> [Accounts -> Nat]]
        /\ w[t][VaultAddress] = wallet[t][VaultAddress] - sent
        /\ \A s \in Tokens \ {t} : w[s] = wallet[s]
    BY <1>1, <2>2, <2>4, <2>5, VaultPays
  <2> HIDE DEF w
  <2>7. /\ wallet' \in [Tokens -> [Accounts -> Nat]]
        /\ wallet'[t][VaultAddress] = w[t][VaultAddress] - fee
        /\ \A s \in Tokens \ {t} : wallet'[s] = w[s]
    <3>1. fee <= w[t][VaultAddress]
      BY <2>1, <2>3, <2>4, <2>6
    <3> QED  BY <2>6, <2>f, <3>1, VaultPaysFee
  <2>8. /\ Books(balances, internal')
        /\ Total(Claims(balances, internal', t)) = Total(Claims(balances, internal, t)) + e
        /\ \A s \in Tokens \ {t} :
              Total(Claims(balances, internal', s)) = Total(Claims(balances, internal, s))
    BY <1>1, <2>1, <2>2, <2>5, InternalAdd
  <2>9. /\ wallet'[t][VaultAddress] = wallet[t][VaultAddress] + d
        /\ \A s \in Tokens \ {t} : wallet'[s][VaultAddress] = wallet[s][VaultAddress]
    BY <2>5, <2>6, <2>7
  <2>10. Moves(t, d, e)
    BY <2>7, <2>8, <2>9 DEF Moves
  <2> QED  BY <2>1, <2>5, <2>10, PoolTransferNext
<1>5. CASE StoreFinalBalances
  <2> DEFINE p == Top.pool
             final == Top.final
  <2>1. /\ stack # <<>> /\ Top.fn \in {"join", "exit"} /\ Top.todo = {} /\ Leave
        /\ balances' = [balances EXCEPT ![p] = final]
        /\ UNCHANGED <<paused, registered, assetManager, internal, wallet,
                       relayers, approved, signed>>
    BY <1>5 DEF StoreFinalBalances, Running
  <2>2. p \in Pools /\ final \in [Tokens -> Word]
    BY <1>1, <2>1, TopKinds DEF PoolFrame
  <2>3. \A t \in Tokens : InFlight(t) = balances[p][t].cash - final[t].cash
    BY <2>1, InFlightOf
  <2> HIDE DEF p, final
  <2>4. balances' \in [Pools -> [Tokens -> Word]]
    BY <1>1, <2>1, <2>2
  <2>5. StorageTyped' /\ Books(balances', internal)
    BY <1>1, <2>1, <2>4 DEF StorageTyped, Books
  <2>6. balances'[p] = final /\ \A q \in Pools \ {p} : balances'[q] = balances[q]
    BY <1>1, <2>1, <2>2
  <2>7. ASSUME NEW t \in Tokens
        PROVE  Total(Claims(balances', internal, t)) <= wallet[t][VaultAddress]
    <3>1. \A q \in Pools \ {p} : balances'[q][t] = balances[q][t]
      BY <2>6
    <3>2. Total(Claims(balances', internal, t))
            = Total(Claims(balances, internal, t)) - balances[p][t].cash + balances'[p][t].cash
      BY <1>1, <2>2, <2>5, <3>1, CashChanges
    <3>3. Total(Claims(balances, internal, t)) <= wallet[t][VaultAddress] + InFlight(t)
      BY DEF IInv, Backed
    <3>4. /\ wallet[t][VaultAddress] \in Nat /\ Total(Claims(balances, internal, t)) \in Nat
          /\ balances[p][t].cash \in Nat /\ final[t].cash \in Nat
      BY <1>1, <2>2 DEF Word
    <3> QED  BY <2>3, <2>6, <3>2, <3>3, <3>4
  <2>8. Solvent(balances', internal', wallet')
    BY <2>1, <2>7 DEF Solvent
  <2> QED  BY <2>1, <2>5, <2>8, LeaveNext
<1> QED  BY <1>2, <1>3, <1>4, <1>5 DEF PoolBalancesNext

-----------------------------------------------------------------------------
(* Swaps *)

\* The frame of a swap when it calls a Pool and when the Pool has answered.
Called(r, h) == [r EXCEPT !.steps = @ - 1, !.hook = h]
Returned(r, h, d) == [r EXCEPT !.hook = h, !.delta = d]

LEMMA SwapFrameNext ==
    ASSUME NEW r \in SwapFrame
    PROVE  /\ \A t \in Tokens :
                 /\ Settled(r, t) \in SwapFrame
                 /\ Settled(r, t).saved = r.saved /\ Settled(r, t).fn = r.fn
                 /\ Settled(r, t).hook = r.hook
                 /\ Settled(r, t).delta = [r.delta EXCEPT ![t] = 0]
           /\ \A h \in Hook : r.steps > 0 =>
                 /\ Called(r, h) \in SwapFrame
                 /\ Called(r, h).saved = r.saved
                 /\ Called(r, h).fn = r.fn
                 /\ Called(r, h).hook = h
                 /\ Called(r, h).delta = r.delta
           /\ \A d \in [Tokens -> Int], h \in Hook :
                 /\ Returned(r, h, d) \in SwapFrame
                 /\ Returned(r, h, d).saved = r.saved
                 /\ Returned(r, h, d).fn = r.fn
                 /\ Returned(r, h, d).hook = h
                 /\ Returned(r, h, d).delta = d
<1>1. r.delta \in [Tokens -> Int] /\ r.steps \in Nat /\ r.hook \in Hook
  BY DEF SwapFrame
<1>2. \A d \in [Tokens -> Int], h \in Hook :
         /\ Returned(r, h, d) \in SwapFrame
         /\ Returned(r, h, d).saved = r.saved
         /\ Returned(r, h, d).fn = r.fn
         /\ Returned(r, h, d).hook = h
         /\ Returned(r, h, d).delta = d
  BY <1>1 DEF SwapFrame, Returned
<1>3. ASSUME NEW h \in Hook, r.steps > 0
      PROVE  /\ Called(r, h) \in SwapFrame
             /\ Called(r, h).saved = r.saved
             /\ Called(r, h).fn = r.fn
             /\ Called(r, h).hook = h
             /\ Called(r, h).delta = r.delta
  <2>1. r.steps - 1 \in Nat
    BY <1>1, <1>3
  <2> QED  BY <1>1, <2>1 DEF SwapFrame, Called
<1>4. ASSUME NEW t \in Tokens
      PROVE  /\ Settled(r, t) \in SwapFrame
             /\ Settled(r, t).saved = r.saved /\ Settled(r, t).fn = r.fn
             /\ Settled(r, t).hook = r.hook
             /\ Settled(r, t).delta = [r.delta EXCEPT ![t] = 0]
  <2>1. [r.delta EXCEPT ![t] = 0] \in [Tokens -> Int]
    BY <1>1
  <2> QED  BY <1>1, <2>1 DEF SwapFrame, Settled
<1> QED  BY <1>2, <1>3, <1>4

\* The settlement of one token: the Vault's tokens change by d and the claims
\* by e, and the token's delta becomes zero.
LEMMA SettleNext ==
    ASSUME IInv, SwapsDone,
           NEW t \in Tokens, NEW d \in Int, NEW e \in Int, e <= d - Top.delta[t],
           Continue(Settled(Top, t)), Moves(t, d, e),
           UNCHANGED <<paused, registered, assetManager, balances, relayers, approved, signed>>
    PROVE  IInv'
<1>1. /\ StorageTyped /\ Typed /\ balances \in [Pools -> [Tokens -> Word]]
      /\ wallet \in [Tokens -> [Accounts -> Nat]] /\ VaultAddress \in Accounts
      /\ \A s \in Tokens : Total(Claims(balances, internal, s)) \in Nat
  BY Parts DEF StorageTyped
<1>2. stack # <<>> /\ Top.fn \in {"swap", "batchSwap"} /\ ~Top.hook.pending
  BY DEF SwapsDone, Swapping, Running
<1>3. Top \in SwapFrame
  BY <1>1, <1>2, TopKinds
<1>4. Top.delta \in [Tokens -> Int]
  BY <1>3 DEF SwapFrame
<1> DEFINE f == Settled(Top, t)
           n == Top.delta[t]
<1>5. /\ f \in SwapFrame /\ f.saved = Top.saved /\ f.fn = Top.fn /\ f.hook = Top.hook
      /\ f.delta = [Top.delta EXCEPT ![t] = 0]
  BY <1>3, SwapFrameNext
<1>6. Continue(f)
  OBVIOUS
<1> HIDE DEF f
<1>7. /\ f.delta[t] = 0
      /\ \A s \in Tokens \ {t} : f.delta[s] = Top.delta[s]
  BY <1>4, <1>5
<1>8. f \in Frame
  BY <1>5 DEF Frame
<1>9. stack' # <<>> /\ Top' = f
  <2>1. stack' = <<f>> /\ Top' = f
    BY <1>1, <1>2, <1>6, <1>8, ContinueStack
  <2> QED  BY <2>1
<1>10. StorageTyped' /\ balances' = balances
  BY <1>1 DEF StorageTyped, Books, Moves
<1>11. n \in Int /\ e <= d - n
  BY <1>4
<1>12. ASSUME NEW s \in Tokens
       PROVE  /\ InFlight(s) \in Int /\ InFlight(s)' \in Int
              /\ s = t => InFlight(s) = n /\ InFlight(s)' = 0
              /\ s # t => InFlight(s)' = InFlight(s)
  <2>1. InFlight(s) = Top.delta[s]
    BY <1>2, InFlightOf
  <2>2. InFlight(s)' = f.delta[s]
    BY <1>2, <1>5, <1>9, InFlightNext
  <2> QED  BY <1>4, <1>7, <2>1, <2>2
<1> HIDE DEF n
<1>13. ASSUME NEW s \in Tokens
       PROVE  Total(Claims(balances', internal', s)) - Total(Claims(balances, internal, s))
              <= (wallet'[s][VaultAddress] + InFlight(s)')
                 - (wallet[s][VaultAddress] + InFlight(s))
  <2> DEFINE k == Total(Claims(balances, internal, s))
             k2 == Total(Claims(balances', internal', s))
             a == wallet[s][VaultAddress]
             a2 == wallet'[s][VaultAddress]
  <2>1. a \in Nat /\ k \in Nat /\ InFlight(s) \in Int
    BY <1>1, <1>12
  <2>2. CASE s = t
    <3>1. a2 = a + d /\ k2 = k + e
      BY <1>10, <2>2 DEF Moves
    <3>2. InFlight(s) = n /\ InFlight(s)' = 0
      BY <1>12, <2>2
    <3> HIDE DEF a, a2, k, k2
    <3>3. k2 - k <= (a2 + InFlight(s)') - (a + InFlight(s))
      BY <1>11, <2>1, <3>1, <3>2
    <3> QED  BY <3>3 DEF a, a2, k, k2
  <2>3. CASE s # t
    <3>1. a2 = a /\ k2 = k
      BY <1>10, <2>3 DEF Moves
    <3>2. InFlight(s)' = InFlight(s)
      BY <1>12, <2>3
    <3> QED  BY <2>1, <3>1, <3>2
  <2> QED  BY <2>2, <2>3
<1>14. ~f.hook.pending
  BY <1>2, <1>5
<1>15. Typed' /\ Backed' /\ CallOK'
  BY <1>2, <1>5, <1>6, <1>8, <1>10, <1>12, <1>13, <1>14, ContinueNext
<1>16. NoStaleBalances'
  <2>1. f.fn \notin {"join", "exit"}
    BY <1>2, <1>5
  <2> QED  BY <1>9, <1>14, <2>1 DEF NoStaleBalances, Running, Swapping
<1> QED  BY <1>15, <1>16 DEF IInv

\* onSwap returned: the Pool's cash changes by what the deltas change by.
LEMMA OnSwapReturnedStep ==
    ASSUME IInv, NEW amountIn \in Nat, NEW amountOut \in Nat,
           OnSwapReturned(amountIn, amountOut)
    PROVE  IInv'
<1> DEFINE h == Top.hook
           p == h.pool
           a == h.tokenIn
           b == h.tokenOut
           in == AddCash(h.balanceIn, amountIn)
           minus == -amountOut
           out == AddCash(h.balanceOut, minus)
           delta == [Top.delta EXCEPT ![a] = Top.delta[a] + amountIn,
                                      ![b] = Top.delta[b] - amountOut]
           f == Returned(Top, NoHook, delta)
<1>1. /\ StorageTyped /\ Typed /\ balances \in [Pools -> [Tokens -> Word]]
      /\ wallet \in [Tokens -> [Accounts -> Nat]] /\ VaultAddress \in Accounts
      /\ Books(balances, internal)
      /\ \A s \in Tokens : Total(Claims(balances, internal, s)) \in Nat
  BY Parts DEF StorageTyped
<1>2. /\ stack # <<>> /\ Top.fn \in {"swap", "batchSwap"} /\ h.pending
      /\ IsBalance(in) /\ IsBalance(out)
      /\ balances' = [balances EXCEPT ![p][a] = in, ![p][b] = out]
      /\ UNCHANGED <<paused, registered, assetManager, internal, wallet,
                     relayers, approved, signed>>
  BY DEF OnSwapReturned, Swapping, Running
<1>3. Top \in SwapFrame /\ Top.delta \in [Tokens -> Int]
  BY <1>1, <1>2, TopKinds DEF SwapFrame
<1>4. /\ p \in Pools /\ a \in Tokens /\ b \in Tokens
      /\ h.balanceIn \in Word /\ h.balanceOut \in Word
  <2>1. h \in Hook
    BY <1>3 DEF SwapFrame
  <2> QED  BY <1>2, <2>1 DEF Hook
<1>5. a # b /\ h.balanceIn = balances[p][a] /\ h.balanceOut = balances[p][b]
  BY <1>2 DEF IInv, CallOK, NoStaleBalances, Swapping, Running
<1>6. /\ in \in Word /\ in.cash = balances[p][a].cash + amountIn
      /\ out \in Word /\ out.cash = balances[p][b].cash + minus
  <2>1. minus \in Int
    OBVIOUS
  <2> HIDE DEF minus
  <2>2. h.balanceIn \in Word /\ h.balanceOut \in Word /\ IsBalance(in) /\ IsBalance(out)
    BY <1>2, <1>4
  <2>3. amountIn \in Int
    OBVIOUS
  <2>4. in \in Word /\ in.cash = h.balanceIn.cash + amountIn
    BY <2>2, <2>3, AddCashWord
  <2>5. out \in Word /\ out.cash = h.balanceOut.cash + minus
    BY <2>1, <2>2, AddCashWord
  <2> QED  BY <1>5, <2>4, <2>5
<1>7. Continue(f)
  BY <1>3, <1>4, <1>5 DEF OnSwapReturned, Returned
<1> HIDE DEF h, in, out
<1>8. /\ balances' \in [Pools -> [Tokens -> Word]]
      /\ balances'[p][a] = in /\ balances'[p][b] = out
      /\ \A s \in Tokens \ {a, b} : balances'[p][s] = balances[p][s]
      /\ \A q \in Pools \ {p} : balances'[q] = balances[q]
  <2>1. balances[p] \in [Tokens -> Word]
    BY <1>1, <1>4
  <2> QED  BY <1>1, <1>2, <1>4, <1>5, <1>6, <2>1
<1>9. /\ delta \in [Tokens -> Int]
      /\ delta[a] = Top.delta[a] + amountIn /\ delta[b] = Top.delta[b] - amountOut
      /\ \A s \in Tokens \ {a, b} : delta[s] = Top.delta[s]
  BY <1>3, <1>4, <1>5
<1> HIDE DEF delta
<1>10. /\ f \in SwapFrame /\ f.saved = Top.saved /\ f.fn = Top.fn
       /\ f.hook = NoHook /\ f.delta = delta
  <2>1. NoHook \in Hook
    BY DEF NoHook, Hook
  <2> QED  BY <1>3, <1>9, <2>1, SwapFrameNext
<1> HIDE DEF f
<1>11. f \in Frame /\ ~f.hook.pending
  BY <1>10 DEF Frame, NoHook
<1>12. stack' # <<>> /\ Top' = f
  <2>1. stack' = <<f>> /\ Top' = f
    BY <1>1, <1>2, <1>7, <1>11, ContinueStack
  <2> QED  BY <2>1
<1>13. StorageTyped' /\ Books(balances', internal)
  BY <1>1, <1>2, <1>8 DEF StorageTyped, Books
<1>14. ASSUME NEW s \in Tokens
       PROVE  /\ InFlight(s) = Top.delta[s] /\ InFlight(s)' = delta[s]
              /\ InFlight(s) \in Int /\ InFlight(s)' \in Int
  BY <1>2, <1>3, <1>9, <1>10, <1>12, InFlightOf, InFlightNext
<1>15. ASSUME NEW s \in Tokens
       PROVE  Total(Claims(balances', internal', s)) - Total(Claims(balances, internal, s))
              <= (wallet'[s][VaultAddress] + InFlight(s)')
                 - (wallet[s][VaultAddress] + InFlight(s))
  <2> DEFINE k == Total(Claims(balances, internal, s))
             k2 == Total(Claims(balances', internal, s))
             v == wallet[s][VaultAddress]
             c == balances[p][s].cash
             c2 == balances'[p][s].cash
             i == InFlight(s)
             i2 == InFlight(s)'
  <2>1. \A q \in Pools \ {p} : balances'[q][s] = balances[q][s]
    BY <1>8
  <2>2. k2 = k - c + c2
    BY <1>1, <1>4, <1>13, <2>1, CashChanges
  <2>3. k \in Nat /\ v \in Nat /\ c \in Nat /\ c2 \in Nat /\ i \in Int /\ i2 \in Int
    BY <1>1, <1>4, <1>8, <1>14 DEF Word
  <2>4. c2 - c = i2 - i
    <3>1. CASE s = a
      <4>1. c2 = c + amountIn /\ i2 = i + amountIn
        BY <1>6, <1>8, <1>9, <1>14, <3>1
      <4> HIDE DEF c, c2, i, i2
      <4> QED  BY <2>3, <4>1
    <3>2. CASE s = b
      <4>1. c2 = c + minus /\ i2 = i - amountOut
        BY <1>6, <1>8, <1>9, <1>14, <3>2
      <4> HIDE DEF c, c2, i, i2
      <4> QED  BY <2>3, <4>1
    <3>3. CASE s \notin {a, b}
      <4>1. c2 = c /\ i2 = i
        BY <1>8, <1>9, <1>14, <3>3
      <4> HIDE DEF c, c2, i, i2
      <4> QED  BY <2>3, <4>1
    <3> QED  BY <3>1, <3>2, <3>3
  <2> HIDE DEF k, k2, v, c, c2, i, i2
  <2>5. k2 - k <= (v + i2) - (v + i)
    BY <2>2, <2>3, <2>4
  <2> QED  BY <1>2, <2>5 DEF k, k2, v, i, i2
<1>16. Typed' /\ Backed' /\ CallOK'
  BY <1>2, <1>7, <1>10, <1>11, <1>13, <1>14, <1>15, ContinueNext
<1>17. NoStaleBalances'
  <2>1. f.fn \notin {"join", "exit"}
    BY <1>2, <1>10
  <2> QED  BY <1>11, <1>12, <2>1 DEF NoStaleBalances, Running, Swapping
<1> QED  BY <1>16, <1>17 DEF IInv

LEMMA CallOnSwapStep ==
    ASSUME IInv, NEW p \in Pools, NEW tokenIn \in Tokens, NEW tokenOut \in Tokens,
           CallOnSwap(p, tokenIn, tokenOut)
    PROVE  IInv'
<1> DEFINE h == [pending |-> TRUE, pool |-> p,
                 tokenIn |-> tokenIn, tokenOut |-> tokenOut,
                 balanceIn |-> balances[p][tokenIn],
                 balanceOut |-> balances[p][tokenOut]]
           f == Called(Top, h)
<1>1. /\ StorageTyped /\ Typed /\ balances \in [Pools -> [Tokens -> Word]]
  BY Parts DEF StorageTyped
<1>2. /\ stack # <<>> /\ Top.fn \in {"swap", "batchSwap"} /\ Top.steps > 0
      /\ tokenIn # tokenOut /\ Continue(f) /\ UNCHANGED storageVars
  BY DEF CallOnSwap, Swapping, Running, Called
<1>3. Top \in SwapFrame /\ Top.delta \in [Tokens -> Int]
  BY <1>1, <1>2, TopKinds DEF SwapFrame
<1>4. balances[p][tokenIn] \in Word /\ balances[p][tokenOut] \in Word
  BY <1>1
<1>5. /\ h \in Hook /\ h.pending /\ h.pool = p
      /\ h.tokenIn = tokenIn /\ h.tokenOut = tokenOut
      /\ h.balanceIn = balances[p][tokenIn] /\ h.balanceOut = balances[p][tokenOut]
  BY <1>4 DEF Hook
<1> HIDE DEF h
<1>6. f \in SwapFrame /\ f.saved = Top.saved /\ f.fn = Top.fn /\ f.hook = h /\ f.delta = Top.delta
  BY <1>2, <1>3, <1>5, SwapFrameNext
<1> HIDE DEF f
<1>7. f \in Frame
  BY <1>6 DEF Frame
<1>8. stack' # <<>> /\ Top' = f
  <2>1. stack' = <<f>> /\ Top' = f
    BY <1>1, <1>2, <1>7, ContinueStack
  <2> QED  BY <2>1
<1>9. StorageTyped' /\ UNCHANGED <<balances, internal, wallet>>
  BY <1>1, <1>2 DEF StorageTyped, storageVars
<1>10. ASSUME NEW s \in Tokens
       PROVE  /\ InFlight(s) \in Int /\ InFlight(s)' \in Int
              /\ InFlight(s)' = InFlight(s)
  BY <1>2, <1>3, <1>6, <1>8, InFlightOf, InFlightNext
<1>11. ASSUME NEW s \in Tokens
       PROVE  Total(Claims(balances', internal', s)) - Total(Claims(balances, internal, s))
              <= (wallet'[s][VaultAddress] + InFlight(s)')
                 - (wallet[s][VaultAddress] + InFlight(s))
  <2>1. wallet[s][VaultAddress] \in Nat /\ Total(Claims(balances, internal, s)) \in Nat
    BY Parts
  <2> QED  BY <1>9, <1>10, <2>1
<1>12. Typed' /\ Backed' /\ CallOK'
  BY <1>2, <1>5, <1>6, <1>7, <1>9, <1>10, <1>11, ContinueNext
<1>13. NoStaleBalances'
  <2>1. f.fn \notin {"join", "exit"}
    BY <1>2, <1>6
  <2> QED  BY <1>5, <1>6, <1>8, <1>9, <2>1 DEF NoStaleBalances, Running, Swapping
<1> QED  BY <1>12, <1>13 DEF IInv

LEMMA SettleReceiveStep ==
    ASSUME IInv, NEW t \in Tokens, SettleReceive(t)
    PROVE  IInv'
<1> DEFINE u == Top.party
           n == Top.delta[t]
           deducted == Deducted(Top.fromInternal, u, t, n)
           pulled == n - deducted
           e == -deducted
<1>1. /\ Typed /\ Books(balances, internal)
      /\ wallet \in [Tokens -> [Accounts -> Nat]] /\ internal \in [Users -> [Tokens -> Nat]]
  BY Parts DEF StorageTyped
<1>2. /\ SwapsDone /\ n > 0 /\ pulled <= wallet[t][u]
      /\ internal' = Add(internal, u, t, e)
      /\ wallet' = Transfer(wallet, t, u, VaultAddress, pulled)
      /\ Continue(Settled(Top, t))
      /\ UNCHANGED <<paused, registered, assetManager, balances, relayers, approved, signed>>
  BY DEF SettleReceive
<1>3. stack # <<>> /\ Top.fn \in {"swap", "batchSwap"}
  BY <1>2 DEF SwapsDone, Swapping, Running
<1>4. u \in Users /\ n \in Int
  BY <1>1, <1>3, TopKinds DEF SwapFrame
<1>5. internal[u][t] \in Nat /\ n \in Nat
  BY <1>1, <1>2, <1>4
<1>6. n = Top.delta[t]
  OBVIOUS
<1> HIDE DEF u, n
<1>7. deducted \in Nat /\ deducted <= n /\ deducted <= internal[u][t]
  BY <1>5, DeductedBounds
<1> HIDE DEF deducted
<1>8. pulled \in Nat /\ pulled \in Int /\ e \in Int /\ e <= pulled - n /\ internal[u][t] + e >= 0
  BY <1>5, <1>7
<1>9. pulled <= wallet[t][u] /\ wallet' = Transfer(wallet, t, u, VaultAddress, pulled)
  BY <1>2
<1> HIDE DEF pulled, e
<1>10. /\ wallet' \in [Tokens -> [Accounts -> Nat]]
       /\ wallet'[t][VaultAddress] = wallet[t][VaultAddress] + pulled
       /\ \A s \in Tokens \ {t} : wallet'[s] = wallet[s]
  BY <1>1, <1>4, <1>8, <1>9, UserPays, SMTT(40)
<1>11. /\ Books(balances, internal')
       /\ Total(Claims(balances, internal', t)) = Total(Claims(balances, internal, t)) + e
       /\ \A s \in Tokens \ {t} :
             Total(Claims(balances, internal', s)) = Total(Claims(balances, internal, s))
  BY <1>1, <1>2, <1>4, <1>8, InternalAdd
<1>12. Moves(t, pulled, e)
  BY <1>10, <1>11 DEF Moves
<1> QED  BY <1>2, <1>6, <1>8, <1>12, SettleNext

LEMMA SettleSendStep ==
    ASSUME IInv, NEW t \in Tokens, SettleSend(t)
    PROVE  IInv'
<1> DEFINE u == Top.recipient
           n == Top.delta[t]
           amount == -n
           sent == IF Top.toInternal THEN 0 ELSE amount
           e == amount - sent
           d == -sent
<1>1. /\ Typed /\ Books(balances, internal)
      /\ wallet \in [Tokens -> [Accounts -> Nat]] /\ internal \in [Users -> [Tokens -> Nat]]
      /\ VaultAddress \in Accounts
  BY Parts DEF StorageTyped
<1>2. /\ SwapsDone /\ n < 0 /\ sent <= wallet[t][VaultAddress]
      /\ internal' = Add(internal, u, t, e)
      /\ wallet' = Transfer(wallet, t, VaultAddress, u, sent)
      /\ Continue(Settled(Top, t))
      /\ UNCHANGED <<paused, registered, assetManager, balances, relayers, approved, signed>>
  BY DEF SettleSend
<1>3. stack # <<>> /\ Top.fn \in {"swap", "batchSwap"}
  BY <1>2 DEF SwapsDone, Swapping, Running
<1>4. u \in Users /\ n \in Int
  BY <1>1, <1>3, TopKinds DEF SwapFrame
<1>5. internal[u][t] \in Nat /\ wallet[t][VaultAddress] \in Nat
  BY <1>1, <1>4
<1>6. n = Top.delta[t]
  OBVIOUS
<1> HIDE DEF u, n
<1>7. amount \in Nat /\ sent \in Nat /\ sent <= amount
  BY <1>2, <1>4
<1>8. d \in Int /\ e \in Int /\ e <= d - n /\ internal[u][t] + e >= 0
      /\ wallet[t][VaultAddress] - sent = wallet[t][VaultAddress] + d
  <2> HIDE DEF sent
  <2> QED  BY <1>4, <1>5, <1>7
<1>9. /\ sent \in Nat /\ sent <= wallet[t][VaultAddress]
      /\ wallet' = Transfer(wallet, t, VaultAddress, u, sent)
  BY <1>2, <1>7
<1> HIDE DEF amount, sent, e, d
<1>10. /\ wallet' \in [Tokens -> [Accounts -> Nat]]
       /\ wallet'[t][VaultAddress] = wallet[t][VaultAddress] - sent
       /\ \A s \in Tokens \ {t} : wallet'[s] = wallet[s]
  <2>1. wallet \in [Tokens -> [Accounts -> Nat]] /\ u \in Users
    BY <1>1, <1>4
  <2>2. /\ Transfer(wallet, t, VaultAddress, u, sent) \in [Tokens -> [Accounts -> Nat]]
        /\ Transfer(wallet, t, VaultAddress, u, sent)[t][VaultAddress]
             = wallet[t][VaultAddress] - sent
        /\ \A s \in Tokens \ {t} : Transfer(wallet, t, VaultAddress, u, sent)[s] = wallet[s]
    BY <1>9, <2>1, VaultPays
  <2> QED  BY <1>9, <2>2
<1>11. /\ Books(balances, internal')
       /\ Total(Claims(balances, internal', t)) = Total(Claims(balances, internal, t)) + e
       /\ \A s \in Tokens \ {t} :
             Total(Claims(balances, internal', s)) = Total(Claims(balances, internal, s))
  BY <1>1, <1>2, <1>4, <1>8, InternalAdd
<1>12. Moves(t, d, e)
  BY <1>8, <1>10, <1>11 DEF Moves
<1> QED  BY <1>2, <1>6, <1>8, <1>12, SettleNext

LEMMA SwapStart ==
    ASSUME IInv, NEW fn \in {"swap", "batchSwap"}, NEW caller \in Users, NEW sender \in Users,
           NEW recipient \in Users, NEW fromInternal \in BOOLEAN, NEW toInternal \in BOOLEAN,
           NEW steps \in Nat,
           Swap(fn, caller, sender, recipient, fromInternal, toInternal, steps)
    PROVE  IInv'
<1> DEFINE f == [fn |-> fn, caller |-> caller, party |-> sender, recipient |-> recipient,
                 fromInternal |-> fromInternal, toInternal |-> toInternal,
                 steps |-> steps, hook |-> NoHook,
                 delta |-> [t \in Tokens |-> 0], saved |-> Storage]
<1>1. StorageTyped /\ Typed /\ wallet \in [Tokens -> [Accounts -> Nat]] /\ VaultAddress \in Accounts
  BY Parts
<1>2. /\ Enter(f) /\ AuthenticateFor(caller, sender)
      /\ UNCHANGED <<paused, registered, assetManager, balances, internal,
                     wallet, relayers, approved>>
  BY DEF Swap
<1>3. Storage \in StorageType /\ NoHook \in Hook /\ ~NoHook.pending
      /\ [t \in Tokens |-> 0] \in [Tokens -> Int]
  BY <1>1, StorageParts DEF Typed, NoHook, Hook
<1> HIDE DEF NoHook
<1>4. f \in SwapFrame /\ f.hook = NoHook /\ f.fn = fn /\ f.saved = Storage
      /\ f.delta = [t \in Tokens |-> 0]
  BY <1>3 DEF SwapFrame
<1> HIDE DEF f
<1>5. f \in Frame /\ f.fn \notin {"join", "exit"} /\ ~f.hook.pending
  BY <1>3, <1>4 DEF Frame
<1>6. stack' # <<>> /\ Top' = f
  <2>1. stack' = <<f>> /\ Top' = f
    BY <1>1, <1>2, <1>5, EnterStack
  <2> QED  BY <2>1
<1>7. signed' \in SUBSET (Users \X RelayerContracts)
  BY <1>1, <1>2, AuthenticateForType
<1>8. StorageTyped'
  BY <1>1, <1>2, <1>7 DEF StorageTyped
<1>9. ASSUME NEW t \in Tokens
      PROVE  /\ InFlight(t)' \in Int
             /\ wallet'[t][VaultAddress] + InFlight(t)' = wallet[t][VaultAddress]
  <2>1. InFlight(t)' = 0
    BY <1>4, <1>6, InFlightNext
  <2>2. wallet[t][VaultAddress] \in Nat
    BY <1>1
  <2> QED  BY <1>2, <2>1, <2>2
<1>10. Typed' /\ Backed' /\ CallOK'
  BY <1>2, <1>4, <1>5, <1>8, <1>9, EnterNext
<1>11. NoStaleBalances'
  BY <1>5, <1>6 DEF NoStaleBalances, Running, Swapping
<1> QED  BY <1>10, <1>11 DEF IInv

LEMMA SwapsStep ==
    ASSUME IInv, SwapsNext
    PROVE  IInv'
<1>1. /\ StorageTyped /\ wallet \in [Tokens -> [Accounts -> Nat]] /\ VaultAddress \in Accounts
      /\ Amounts \subseteq Nat
  BY Parts
<1>2. ASSUME NEW fn \in {"swap", "batchSwap"}, NEW caller \in Users, NEW sender \in Users,
             NEW recipient \in Users, NEW fromInternal \in BOOLEAN, NEW toInternal \in BOOLEAN,
             NEW steps \in 1..MaxSwaps,
             Swap(fn, caller, sender, recipient, fromInternal, toInternal, steps)
      PROVE  IInv'
  <2>1. steps \in Nat
    BY AmountsAssumption
  <2> QED  BY <1>2, <2>1, SwapStart
<1>3. ASSUME NEW p \in Pools, NEW tokenIn \in Tokens, NEW tokenOut \in Tokens,
             CallOnSwap(p, tokenIn, tokenOut)
      PROVE  IInv'
  BY <1>3, CallOnSwapStep
<1>4. ASSUME NEW amountIn \in Amounts, NEW amountOut \in Amounts,
             OnSwapReturned(amountIn, amountOut)
      PROVE  IInv'
  <2>1. amountIn \in Nat /\ amountOut \in Nat
    BY <1>1
  <2> QED  BY <1>4, <2>1, OnSwapReturnedStep
<1>5. ASSUME NEW t \in Tokens, SettleReceive(t) \/ SettleSend(t)
      PROVE  IInv'
  BY <1>5, SettleReceiveStep, SettleSendStep
<1>6. CASE SwapEnd
  <2>1. /\ stack # <<>> /\ Top.fn \in {"swap", "batchSwap"} /\ Leave /\ UNCHANGED storageVars
        /\ \A t \in Tokens : Top.delta[t] = 0
    BY <1>6 DEF SwapEnd, SwapsDone, Swapping, Running
  <2>2. StorageTyped' /\ UNCHANGED <<balances, internal, wallet>>
    BY <1>1, <2>1 DEF StorageTyped, storageVars
  <2>3. ASSUME NEW t \in Tokens
        PROVE  Total(Claims(balances, internal, t)) <= wallet[t][VaultAddress]
    <3>1. InFlight(t) = 0 /\ wallet[t][VaultAddress] \in Nat
      BY <1>1, <2>1, InFlightOf
    <3>2. Total(Claims(balances, internal, t)) <= wallet[t][VaultAddress] + InFlight(t)
      BY DEF IInv, Backed
    <3> QED  BY <3>1, <3>2
  <2>4. Solvent(balances', internal', wallet')
    BY <2>2, <2>3 DEF Solvent
  <2> QED  BY <2>1, <2>2, <2>4, LeaveNext
<1> QED  BY <1>2, <1>3, <1>4, <1>5, <1>6 DEF SwapsNext

-----------------------------------------------------------------------------
(* The invariant holds initially and is preserved *)

LEMMA InitIInv == Init => IInv
<1> SUFFICES ASSUME Init
             PROVE  IInv
  OBVIOUS
<1>1. /\ status = "NOT_ENTERED" /\ stack = <<>> /\ paused = FALSE
      /\ registered = [p \in Pools |-> {}]
      /\ assetManager = [p \in Pools |-> [t \in Tokens |-> NoManager]]
      /\ balances = [p \in Pools |-> [t \in Tokens |-> [cash |-> 0, managed |-> 0]]]
      /\ internal = [u \in Users |-> [t \in Tokens |-> 0]]
      /\ wallet = InitialWallet /\ relayers = RelayerContracts
      /\ approved = [u \in Users |-> {}] /\ signed = {}
  BY DEF Init
<1>2. wallet \in [Tokens -> [Accounts -> Nat]] /\ VaultAddress \in Accounts
  BY <1>1, AmountsAssumption DEF Accounts
<1>3. balances \in [Pools -> [Tokens -> Word]]
  <2>1. [cash |-> 0, managed |-> 0] \in Word
    BY DEF Word
  <2> QED  BY <1>1, <2>1
<1>4. internal \in [Users -> [Tokens -> Nat]]
  BY <1>1
<1>5. StorageTyped
  BY <1>1, <1>2, <1>3, <1>4 DEF StorageTyped
<1>6. Typed
  BY <1>1, <1>5 DEF Typed, ContractTyped, OneCall, Storage, StorageType, StorageTyped
<1>7. ASSUME NEW t \in Tokens
      PROVE  Total(Claims(balances, internal, t)) <= wallet[t][VaultAddress] + InFlight(t)
  <2>1. Claims(balances, internal, t) \in [Pools \cup Users -> Nat]
    BY <1>3, <1>4, ClaimsType DEF Books
  <2>2. \A c \in Pools \cup Users : Claims(balances, internal, t)[c] = 0
    BY <1>1 DEF Claims
  <2>3. Total(Claims(balances, internal, t)) = 0
    BY <2>1, <2>2, TotalZero
  <2>4. InFlight(t) = 0 /\ wallet[t][VaultAddress] \in Nat
    BY <1>1, <1>2, InFlightOf
  <2> QED  BY <2>3, <2>4
<1>8. NoStaleBalances /\ CallOK
  BY <1>1 DEF NoStaleBalances, CallOK, Running, Swapping
<1> QED  BY <1>6, <1>7, <1>8 DEF IInv, Backed

LEMMA NextIInv == IInv /\ [Next]_vars => IInv'
<1> SUFFICES ASSUME IInv, [Next]_vars
             PROVE  IInv'
  OBVIOUS
<1>1. CASE PoolTokensNext
  BY <1>1, PoolTokensStep
<1>2. CASE PoolBalancesNext
  BY <1>2, PoolBalancesStep
<1>3. CASE SwapsNext
  BY <1>3, SwapsStep
<1>4. CASE FlashLoansNext
  BY <1>4, FlashLoansStep
<1>5. CASE AssetManagersNext
  BY <1>5, AssetManagersStep
<1>6. CASE UserBalanceNext
  BY <1>6, UserBalanceStep
<1>7. CASE AuthorizationNext
  BY <1>7, AuthorizationStep
<1>8. CASE EnvironmentNext
  BY <1>8, EnvironmentStep
<1>9. CASE UNCHANGED vars
  <2>1. /\ StorageTyped /\ wallet \in [Tokens -> [Accounts -> Nat]] /\ VaultAddress \in Accounts
    BY Parts
  <2>2. StorageTyped' /\ UNCHANGED <<status, stack, balances, internal, wallet>>
    BY <1>9, <2>1 DEF vars, storageVars, StorageTyped
  <2>3. \A t \in Tokens : wallet'[t][VaultAddress] >= wallet[t][VaultAddress]
    BY <2>1, <2>2
  <2> QED  BY <2>2, <2>3, EnvironmentMoves
<1> QED  BY <1>1, <1>2, <1>3, <1>4, <1>5, <1>6, <1>7, <1>8, <1>9 DEF Next

LEMMA Invariance == Spec => []IInv
<1>1. Init => IInv
  BY InitIInv
<1>2. IInv /\ [Next]_vars => IInv'
  BY NextIInv
<1> QED  BY <1>1, <1>2, PTL DEF Spec

-----------------------------------------------------------------------------
(* The theorems *)

\* The storage keeps its types, whatever is called in whatever order: no checked
\* subtraction of the code lets a balance become negative.
THEOREM TypeCorrect == Spec => []TypeOK
<1> DEFINE Acted == managing \in Users \cup {NoManager}
<1>1. Init => Acted
  BY DEF Init
<1>2. Acted /\ [Next]_vars => Acted'
  BY DEF Next, AssetManagersNext, vars
<1>3. IInv /\ Acted => TypeOK
  BY DEF IInv, Typed, TypeOK
<1> QED  BY <1>1, <1>2, <1>3, Invariance, PTL DEF Spec

\* The guard works: at most one call of the Vault's guarded functions is in
\* progress, and the guard is set exactly while it is.
THEOREM NoReentrancy == Spec => []OneCall
<1>1. IInv => OneCall
  BY DEF IInv, Typed
<1> QED  BY <1>1, Invariance, PTL

\* At every point of every call, the Vault's tokens and what the call still has
\* to settle cover the cash of all Pools and all Internal Balances.
THEOREM AlwaysBacked == Spec => []Backed
<1>1. IInv => Backed
  BY DEF IInv
<1> QED  BY <1>1, Invariance, PTL

\* Outside of a call the Vault's tokens cover what it owes.
THEOREM AlwaysSolvent == Spec => []VaultSolvent
<1>1. IInv => VaultSolvent
  <2> SUFFICES ASSUME IInv, status = "NOT_ENTERED"
               PROVE  Solvent(balances, internal, wallet)
    BY DEF VaultSolvent
  <2>1. stack = <<>>
    BY StackType DEF IInv, NotEntered
  <2> QED  BY <2>1, IdleParts
<1> QED  BY <1>1, Invariance, PTL

\* No join, exit or swap writes back a balance that changed after it was read.
THEOREM NeverStale == Spec => []NoStaleBalances
<1>1. IInv => NoStaleBalances
  BY DEF IInv
<1> QED  BY <1>1, Invariance, PTL

-----------------------------------------------------------------------------
(* What a call may do to the balances, to the users' tokens and while the  *)
(* Vault is paused.                                                        *)
(*                                                                         *)
(* These theorems are about single steps, but most of the steps end a call *)
(* that began long before: the end of a join writes back the words it      *)
(* computed, a revert restores a storage, a settlement takes the tokens of *)
(* a user who consented at the start. The invariant says what a call in    *)
(* progress knows of that.                                                 *)

(* The invariant *)

\* The words fit, and nothing is stored for a token that is not registered.
StorageSound(r, m, b) ==
    \A p \in Pools, t \in Tokens :
        /\ b[p][t].cash + b[p][t].managed <= MaxBalance
        /\ t \notin r[p] => /\ b[p][t] = [cash |-> 0, managed |-> 0]
                            /\ m[p][t] = NoManager

\* Nothing of this changes during the call in f: s is the storage, and a revert returns
\* to f.saved. Only a swap stores a balance before its end.
SavedOK(f, s) ==
    /\ StorageSound(f.saved.registered, f.saved.assetManager, f.saved.balances)
    /\ s.paused = f.saved.paused /\ s.approved = f.saved.approved
    /\ s.registered = f.saved.registered /\ s.assetManager = f.saved.assetManager
    /\ f.fn \notin {"swap", "batchSwap"} => s.balances = f.saved.balances
    /\ \A p \in Pools, t \in Tokens :
          s.balances[p][t].managed = f.saved.balances[p][t].managed

\* What the pause blocks does not run while the Vault is paused.
PauseOK(f, s) ==
    /\ f.fn \in {"join", "swap", "batchSwap", "flashLoan"} => ~s.paused
    /\ f.fn = "manageUserBalance" => (f.notPaused => ~s.paused)

\* The words that a join or an exit will store.
PoolCallOK(f, s) ==
    f.fn \in {"join", "exit"} =>
        /\ f.todo \subseteq s.registered[f.pool]
        /\ \A t \in Tokens :
              /\ f.final[t].cash + f.final[t].managed <= MaxBalance
              /\ t \notin s.registered[f.pool] => f.final[t] = [cash |-> 0, managed |-> 0]
              /\ f.fn = "exit" => f.final[t].cash <= s.balances[f.pool][t].cash

\* The Pool that a swap calls has both tokens.
SwapCallOK(f, s) ==
    f.fn \in {"swap", "batchSwap"} =>
        (f.hook.pending => {f.hook.tokenIn, f.hook.tokenOut} \subseteq s.registered[f.hook.pool])

\* A flash loan remembers the Vault's tokens before it.
LoanOK(f, s) ==
    f.fn = "flashLoan" =>
        /\ s.internal = f.saved.internal
        /\ \A t \in Tokens : f.pre[t] = f.saved.wallet[t][VaultAddress]

\* Who pays for a join or a swap has consented.
Consented(f, s, u) ==
    \/ f.caller = u
    \/ f.caller \in s.approved[u]
    \/ <<u, f.caller>> \in f.saved.signed \ s.signed

PayerOK(f, s) == f.fn \in {"join", "swap", "batchSwap"} => Consented(f, s, f.party)

FrameOK(f, s) ==
    /\ SavedOK(f, s) /\ PauseOK(f, s) /\ PoolCallOK(f, s) /\ SwapCallOK(f, s)
    /\ LoanOK(f, s) /\ PayerOK(f, s)

CallsOK ==
    /\ StorageSound(registered, assetManager, balances)
    /\ stack # <<>> => FrameOK(Top, Storage)

CallsInv == IInv /\ CallsOK

-----------------------------------------------------------------------------
(* What a step may do: the actions of the properties *)

PauseStep ==
    paused =>
        /\ \A p \in Pools, t \in Tokens :
              /\ balances'[p][t].cash <= balances[p][t].cash
              /\ balances'[p][t].managed = balances[p][t].managed
        /\ UNCHANGED <<registered, assetManager, approved>>
        /\ stack' # stack /\ ~Revert =>
              \A u \in Users, t \in Tokens : wallet'[t][u] >= wallet[t][u]

DebitStep ==
    \A u \in Users, t \in Tokens :
        \/ internal'[u][t] < internal[u][t]
        \/ stack' # stack /\ wallet'[t][u] < wallet[t][u]
        => stack # <<>> /\ (Revert \/ ConsentOf(u))

ManagedStep ==
    \A p \in Pools, t \in Tokens :
        balances'[p][t].managed # balances[p][t].managed
        => /\ Idle /\ managing' \in Users /\ managing' = assetManager[p][t]
           /\ \/ balances'[p][t].cash = balances[p][t].cash /\ UNCHANGED wallet
              \/ /\ balances'[p][t].cash + balances'[p][t].managed
                      = balances[p][t].cash + balances[p][t].managed
                 /\ wallet' = Transfer(wallet, t, VaultAddress, managing',
                                       balances[p][t].cash - balances'[p][t].cash)

Allowed == PauseStep /\ DebitStep /\ ManagedStep

Types ==
    /\ balances \in [Pools -> [Tokens -> Word]]
    /\ internal \in [Users -> [Tokens -> Nat]]
    /\ wallet \in [Tokens -> [Accounts -> Nat]]
    /\ registered \in [Pools -> SUBSET Tokens]

LEMMA TypesOf ==
    ASSUME Typed
    PROVE  Types
BY DEF Typed, ContractTyped, Storage, StorageType, Types

LEMMA TypesOfNext ==
    ASSUME IInv'
    PROVE  Types' /\ Typed'
BY DEF IInv, Typed, ContractTyped, Storage, StorageType, Types

\* A balance of the Vault, and a user's tokens and Internal Balance.
LEMMA ValueTypes ==
    ASSUME NEW w \in [Tokens -> [Accounts -> Nat]], NEW i \in [Users -> [Tokens -> Nat]],
           NEW b \in [Pools -> [Tokens -> Word]]
    PROVE  /\ \A t \in Tokens, u \in Users : w[t][u] \in Nat /\ i[u][t] \in Nat
           /\ \A p \in Pools, t \in Tokens : b[p][t].cash \in Nat /\ b[p][t].managed \in Nat
BY DEF Accounts, Word

\* Nobody loses tokens, or only x does.
NoLess(w, w2) == \A u \in Users, t \in Tokens : w2[t][u] >= w[t][u]
NoLessBut(x, w, w2) == \A u \in Users \ {x}, t \in Tokens : w2[t][u] >= w[t][u]

NoLessInternal(i, i2) == \A u \in Users, t \in Tokens : i2[u][t] >= i[u][t]
NoLessInternalBut(x, i, i2) == \A u \in Users \ {x}, t \in Tokens : i2[u][t] >= i[u][t]

\* A step that takes nothing from anybody and leaves the Pools alone.
LEMMA QuietStep ==
    ASSUME Types, Types', UNCHANGED <<registered, assetManager, balances, approved>>,
           NoLessInternal(internal, internal'), stack' = stack \/ NoLess(wallet, wallet')
    PROVE  Allowed
<1>0. /\ \A u \in Users, t \in Tokens :
            /\ wallet'[t][u] \in Nat /\ wallet[t][u] \in Nat
            /\ internal'[u][t] \in Nat /\ internal[u][t] \in Nat
      /\ \A p \in Pools, t \in Tokens : balances[p][t].cash \in Nat
  BY ValueTypes DEF Types
<1>1. PauseStep
  BY <1>0 DEF PauseStep, NoLess
<1>2. DebitStep
  <2> SUFFICES ASSUME NEW u \in Users, NEW t \in Tokens,
                      \/ internal'[u][t] < internal[u][t]
                      \/ stack' # stack /\ wallet'[t][u] < wallet[t][u]
               PROVE  FALSE
    BY DEF DebitStep
  <2> QED  BY <1>0 DEF NoLess, NoLessInternal
<1>3. ManagedStep
  BY DEF ManagedStep
<1> QED  BY <1>1, <1>2, <1>3 DEF Allowed

\* A step in which only one user pays, who has consented.
LEMMA PayStep ==
    ASSUME Types, Types', UNCHANGED <<registered, assetManager, balances, approved>>,
           stack # <<>>, NEW x, ConsentOf(x),
           NoLessInternalBut(x, internal, internal'), NoLessBut(x, wallet, wallet'),
           paused => NoLess(wallet, wallet')
    PROVE  Allowed
<1>1. PauseStep
  <2>1. \A p \in Pools, t \in Tokens : balances[p][t].cash \in Nat
    BY ValueTypes DEF Types
  <2> QED  BY <2>1 DEF PauseStep, NoLess
<1>2. DebitStep
  <2> SUFFICES ASSUME NEW u \in Users, NEW t \in Tokens,
                      \/ internal'[u][t] < internal[u][t]
                      \/ wallet'[t][u] < wallet[t][u]
               PROVE  ConsentOf(u)
    BY DEF DebitStep
  <2>1. CASE u = x
    BY <2>1
  <2>2. CASE u # x
    <3>1. wallet'[t][u] >= wallet[t][u] /\ internal'[u][t] >= internal[u][t]
      BY <2>2 DEF NoLessBut, NoLessInternalBut
    <3>2. /\ wallet'[t][u] \in Nat /\ wallet[t][u] \in Nat
          /\ internal'[u][t] \in Nat /\ internal[u][t] \in Nat
      BY ValueTypes DEF Types
    <3> QED  BY <3>1, <3>2
  <2> QED  BY <2>1, <2>2
<1>3. ManagedStep
  BY DEF ManagedStep
<1> QED  BY <1>1, <1>2, <1>3 DEF Allowed

\* A step that changes balances only: while the Vault is not paused, or downwards.
LEMMA BooksStep ==
    ASSUME Types, Types', UNCHANGED <<internal, wallet>>,
           paused => /\ \A p \in Pools, t \in Tokens : balances'[p][t].cash <= balances[p][t].cash
                     /\ UNCHANGED <<registered, assetManager, approved>>,
           \A p \in Pools, t \in Tokens : balances'[p][t].managed = balances[p][t].managed
    PROVE  Allowed
<1>0. \A u \in Users, t \in Tokens :
         /\ wallet'[t][u] = wallet[t][u] /\ wallet[t][u] \in Nat
         /\ internal'[u][t] = internal[u][t] /\ internal[u][t] \in Nat
  BY ValueTypes DEF Types
<1>1. PauseStep
  BY <1>0 DEF PauseStep
<1>2. DebitStep
  BY <1>0 DEF DebitStep
<1>3. ManagedStep
  BY DEF ManagedStep
<1> QED  BY <1>1, <1>2, <1>3 DEF Allowed

-----------------------------------------------------------------------------
(* Who pays in a transfer *)

LEMMA UserTransfer ==
    ASSUME NEW w \in [Tokens -> [Accounts -> Nat]], NEW t \in Tokens, NEW u \in Users,
           NEW v \in Accounts, NEW n \in Nat, n <= w[t][u]
    PROVE  NoLessBut(u, w, Transfer(w, t, u, v, n))
<1> DEFINE w2 == Transfer(w, t, u, v, n)
<1>1. /\ \A s \in Tokens \ {t} : w2[s] = w[s]
      /\ \A x \in Accounts \ {u, v} : w2[t][x] = w[t][x]
      /\ u # v => w2[t][v] = w[t][v] + n
  <2>1. u \in Accounts
    BY DEF Accounts
  <2> QED  BY <2>1, TransferType
<1> HIDE DEF w2
<1> SUFFICES ASSUME NEW x \in Users \ {u}, NEW s \in Tokens
             PROVE  w2[s][x] >= w[s][x]
  BY DEF NoLessBut, w2
<1>2. x \in Accounts /\ w[s][x] \in Nat
  BY DEF Accounts
<1>3. CASE s # t
  BY <1>1, <1>2, <1>3
<1>4. CASE s = t
  BY <1>1, <1>2, <1>4
<1> QED  BY <1>3, <1>4

LEMMA VaultTransfer ==
    ASSUME NEW w \in [Tokens -> [Accounts -> Nat]], NEW t \in Tokens, NEW a \in Accounts \ Users,
           NEW v \in Accounts, NEW n \in Nat, n <= w[t][a]
    PROVE  NoLess(w, Transfer(w, t, a, v, n))
<1> DEFINE w2 == Transfer(w, t, a, v, n)
<1>1. /\ \A s \in Tokens \ {t} : w2[s] = w[s]
      /\ \A x \in Accounts \ {a, v} : w2[t][x] = w[t][x]
      /\ a # v => w2[t][v] = w[t][v] + n
  BY TransferType
<1> HIDE DEF w2
<1> SUFFICES ASSUME NEW x \in Users, NEW s \in Tokens
             PROVE  w2[s][x] >= w[s][x]
  BY DEF NoLess, w2
<1>2. x \in Accounts /\ x # a /\ w[s][x] \in Nat
  BY DEF Accounts
<1>3. CASE s # t
  BY <1>1, <1>2, <1>3
<1>4. CASE s = t
  BY <1>1, <1>2, <1>4
<1> QED  BY <1>3, <1>4

LEMMA NoLessTrans ==
    ASSUME NEW w \in [Tokens -> [Accounts -> Nat]], NEW w1 \in [Tokens -> [Accounts -> Nat]],
           NEW w2 \in [Tokens -> [Accounts -> Nat]], NoLess(w1, w2), NEW x
    PROVE  /\ NoLessBut(x, w, w1) => NoLessBut(x, w, w2)
           /\ NoLess(w, w1) => NoLess(w, w2)
<1>1. \A t \in Tokens, u \in Users : w[t][u] \in Nat /\ w1[t][u] \in Nat /\ w2[t][u] \in Nat
  BY DEF Accounts
<1> QED  BY <1>1 DEF NoLess, NoLessBut

LEMMA NotUsers ==
    /\ VaultAddress \in Accounts \ Users /\ Collector \in Accounts \ Users
    /\ Users \subseteq Accounts /\ Managers \subseteq Accounts /\ NoManager \notin Managers
BY AccountsAssumption DEF Accounts

LEMMA InternalTransfer ==
    ASSUME NEW i \in [Users -> [Tokens -> Nat]], NEW u \in Users, NEW t \in Tokens,
           NEW n \in Int, i[u][t] + n >= 0
    PROVE  /\ NoLessInternalBut(u, i, Add(i, u, t, n))
           /\ n >= 0 => NoLessInternal(i, Add(i, u, t, n))
<1> DEFINE i2 == Add(i, u, t, n)
<1>1. /\ i2[u][t] = i[u][t] + n
      /\ \A s \in Tokens \ {t} : i2[u][s] = i[u][s]
      /\ \A v \in Users \ {u} : i2[v] = i[v]
  BY AddType
<1> HIDE DEF i2
<1>2. \A v \in Users, s \in Tokens : i[v][s] \in Nat
  OBVIOUS
<1>3. NoLessInternalBut(u, i, i2)
  BY <1>1, <1>2 DEF NoLessInternalBut
<1>4. n >= 0 => NoLessInternal(i, i2)
  BY <1>1, <1>2 DEF NoLessInternal
<1> QED  BY <1>3, <1>4 DEF i2

-----------------------------------------------------------------------------
(* The invariant from one call to the next, and through a call *)

LEMMA StorageFields ==
    /\ Storage.paused = paused /\ Storage.registered = registered
    /\ Storage.assetManager = assetManager /\ Storage.balances = balances
    /\ Storage.internal = internal /\ Storage.wallet = wallet
    /\ Storage.approved = approved /\ Storage.signed = signed
BY DEF Storage

LEMMA StorageFieldsNext ==
    /\ Storage'.paused = paused' /\ Storage'.registered = registered'
    /\ Storage'.assetManager = assetManager' /\ Storage'.balances = balances'
    /\ Storage'.internal = internal' /\ Storage'.wallet = wallet'
    /\ Storage'.approved = approved' /\ Storage'.signed = signed'
BY DEF Storage

LEMMA SavedKept ==
    ASSUME NEW f, NEW g, NEW s, NEW s2, SavedOK(f, s), g.saved = f.saved, g.fn = f.fn,
           s2.paused = s.paused, s2.approved = s.approved, s2.registered = s.registered,
           s2.assetManager = s.assetManager,
           f.fn \notin {"swap", "batchSwap"} => s2.balances = s.balances,
           \A p \in Pools, t \in Tokens :
              s2.balances[p][t].managed = s.balances[p][t].managed
    PROVE  SavedOK(g, s2)
BY DEF SavedOK

LEMMA FrameKept ==
    ASSUME NEW f, NEW s, NEW s2, FrameOK(f, s),
           s2.paused = s.paused, s2.approved = s.approved, s2.registered = s.registered,
           s2.assetManager = s.assetManager, s2.balances = s.balances,
           s2.internal = s.internal, s2.signed = s.signed
    PROVE  FrameOK(f, s2)
<1>1. SavedOK(f, s2)
  BY SavedKept DEF FrameOK
<1> QED  BY <1>1 DEF FrameOK, PauseOK, PoolCallOK, SwapCallOK, LoanOK, PayerOK, Consented

LEMMA IdleCalls ==
    ASSUME stack' = <<>>, StorageSound(registered', assetManager', balances')
    PROVE  CallsOK'
BY DEF CallsOK

LEMMA LeaveCalls ==
    ASSUME IInv, stack # <<>>, Leave, StorageSound(registered', assetManager', balances')
    PROVE  CallsOK'
BY LeaveStack, IdleCalls DEF IInv

LEMMA ContinueCalls ==
    ASSUME IInv, CallsOK, stack # <<>>, NEW f \in Frame, Continue(f),
           StorageSound(registered', assetManager', balances'), FrameOK(f, Storage')
    PROVE  CallsOK'
<1>1. Top' = f
  BY ContinueStack DEF IInv
<1> QED  BY <1>1 DEF CallsOK

\* A call begins: what it saves is the present storage.
LEMMA EnterCalls ==
    ASSUME IInv, CallsOK, NEW f \in Frame, Enter(f), f.saved = Storage,
           UNCHANGED <<paused, registered, assetManager, balances, approved>>,
           PauseOK(f, Storage'), PoolCallOK(f, Storage'), SwapCallOK(f, Storage'),
           LoanOK(f, Storage'), PayerOK(f, Storage')
    PROVE  CallsOK'
<1>1. Top' = f
  BY EnterStack DEF IInv
<1>2. StorageSound(registered, assetManager, balances)
  BY DEF CallsOK
<1>3. SavedOK(f, Storage')
  BY <1>2, StorageFields, StorageFieldsNext DEF SavedOK
<1> QED  BY <1>1, <1>2, <1>3 DEF CallsOK, FrameOK

\* The start of a call that takes nothing yet.
LEMMA EnterQuietly ==
    ASSUME IInv, IInv', UNCHANGED <<registered, assetManager, balances, approved, internal>>,
           NoLess(wallet, wallet')
    PROVE  Allowed
<1>1. Types /\ Types'
  BY TypesOf, TypesOfNext DEF IInv
<1>2. NoLessInternal(internal, internal')
  BY <1>1 DEF NoLessInternal, Types
<1> QED  BY <1>1, <1>2, QuietStep

LEMMA NoLessSame ==
    ASSUME NEW w \in [Tokens -> [Accounts -> Nat]]
    PROVE  NoLess(w, w)
BY ValueTypes DEF NoLess, Accounts

LEMMA AtomicCalls ==
    ASSUME IInv, Atomically
    PROVE  stack = <<>> /\ stack' = <<>> /\ Idle
BY StackType DEF IInv, Atomically, Idle

LEMMA CallParts ==
    ASSUME CallsInv, IInv'
    PROVE  /\ IInv /\ CallsOK /\ Typed /\ Types /\ Types'
           /\ StorageSound(registered, assetManager, balances)
           /\ stack # <<>> => FrameOK(Top, Storage)
           /\ balances \in [Pools -> [Tokens -> Word]]
           /\ internal \in [Users -> [Tokens -> Nat]]
           /\ wallet \in [Tokens -> [Accounts -> Nat]]
           /\ registered \in [Pools -> SUBSET Tokens]
           /\ Amounts \subseteq Nat
BY TypesOf, TypesOfNext, AmountsAssumption DEF CallsInv, IInv, CallsOK, Types

-----------------------------------------------------------------------------
(* The operations without a call to other code *)

LEMMA PoolTokensCalls ==
    ASSUME CallsInv, IInv', PoolTokensNext
    PROVE  CallsOK' /\ Allowed
<1>1. /\ IInv /\ Types /\ Types' /\ StorageSound(registered, assetManager, balances)
      /\ balances \in [Pools -> [Tokens -> Word]]
      /\ registered \in [Pools -> SUBSET Tokens]
      /\ assetManager \in [Pools -> [Tokens -> Managers \cup {NoManager}]]
  BY CallParts, Parts DEF StorageTyped
<1>2. PICK p \in Pools, toks \in SUBSET Tokens :
         \/ \E managers \in [toks -> Managers \cup {NoManager}] :
                RegisterTokens(p, toks, managers)
         \/ DeregisterTokens(p, toks)
  BY DEF PoolTokensNext
<1>3. Atomically /\ ~paused /\ UNCHANGED <<balances, internal, wallet>>
  BY <1>2 DEF RegisterTokens, DeregisterTokens
<1>4. ASSUME NEW q \in Pools, NEW t \in Tokens, t \notin registered'[q]
      PROVE  balances[q][t] = [cash |-> 0, managed |-> 0] /\ assetManager'[q][t] = NoManager
  <2>1. CASE DeregisterTokens(p, toks)
    <3>1. /\ registered' = [registered EXCEPT ![p] = @ \ toks]
          /\ assetManager' = [assetManager EXCEPT ![p] =
                [s \in Tokens |-> IF s \in toks THEN NoManager ELSE @[s]]]
          /\ \A s \in toks : balances[p][s].cash + balances[p][s].managed = 0
      BY <2>1 DEF DeregisterTokens
    <3>2. balances[q][t] \in Word
      BY <1>1
    <3>3. CASE t \in registered[q]
      <4>1. q = p /\ t \in toks
        BY <1>1, <1>4, <3>1, <3>3
      <4>2. balances[q][t] = [cash |-> 0, managed |-> 0]
        BY <3>1, <3>2, <4>1 DEF Word
      <4> QED  BY <1>1, <3>1, <4>1, <4>2
    <3>4. CASE t \notin registered[q]
      BY <1>1, <3>1, <3>4 DEF StorageSound
    <3> QED  BY <3>3, <3>4
  <2>2. ASSUME NEW managers \in [toks -> Managers \cup {NoManager}],
               RegisterTokens(p, toks, managers)
        PROVE  balances[q][t] = [cash |-> 0, managed |-> 0] /\ assetManager'[q][t] = NoManager
    <3>1. /\ registered' = [registered EXCEPT ![p] = @ \cup toks]
          /\ assetManager' = [assetManager EXCEPT ![p] =
                [s \in Tokens |-> IF s \in toks THEN managers[s] ELSE @[s]]]
      BY <2>2 DEF RegisterTokens
    <3>2. t \notin registered[q] /\ (q = p => t \notin toks)
      BY <1>1, <1>4, <3>1
    <3> QED  BY <1>1, <3>1, <3>2 DEF StorageSound
  <2> QED  BY <1>2, <2>1, <2>2
<1>5. StorageSound(registered', assetManager', balances')
  BY <1>1, <1>3, <1>4 DEF StorageSound
<1>6. Allowed
  BY <1>1, <1>3, BooksStep
<1> QED  BY <1>1, <1>3, <1>5, <1>6, AtomicCalls, IdleCalls

\* Paying n is taking -n back.
LEMMA TransferBack ==
    ASSUME NEW w \in [Tokens -> [Accounts -> Nat]], NEW t \in Tokens,
           NEW a \in Accounts, NEW b \in Accounts, a # b, NEW n \in Int
    PROVE  Transfer(w, t, a, b, n) = Transfer(w, t, b, a, -n)
<1> DEFINE v1 == Transfer(w, t, a, b, n)
           v2 == Transfer(w, t, b, a, -n)
<1>1. \A x \in Accounts : w[t][x] \in Int
  OBVIOUS
<1>2. v1 = [w EXCEPT ![t] = [@ EXCEPT ![a] = w[t][a] + (-n), ![b] = w[t][b] + n]]
  BY <1>1 DEF Transfer, Add
<1>3. v2 = [w EXCEPT ![t] = [@ EXCEPT ![b] = w[t][b] + n, ![a] = w[t][a] + (-n)]]
  <2>1. -(-n) = n
    OBVIOUS
  <2>2. v2 = Add(Add(w, t, b, n), t, a, -n)
    BY <2>1 DEF Transfer
  <2> QED  BY <1>1, <2>2 DEF Add
<1> QED  BY <1>2, <1>3

LEMMA AssetManagersCalls ==
    ASSUME CallsInv, IInv', AssetManagersNext
    PROVE  CallsOK' /\ Allowed
<1>1. /\ IInv /\ StorageSound(registered, assetManager, balances)
      /\ balances \in [Pools -> [Tokens -> Word]]
      /\ internal \in [Users -> [Tokens -> Nat]] /\ Amounts \subseteq Nat
      /\ wallet \in [Tokens -> [Accounts -> Nat]]
  BY CallParts
<1>2. PICK caller \in Users, p \in Pools, t \in Tokens, amount \in Amounts :
         /\ \/ WithdrawPoolBalance(caller, p, t, amount)
            \/ DepositPoolBalance(caller, p, t, amount)
            \/ UpdateManagedBalance(caller, p, t, amount)
         /\ managing' = caller
  BY DEF AssetManagersNext
<1>3. amount \in Nat /\ balances[p][t] \in Word
  BY <1>1
<1>4. /\ Atomically /\ ~paused /\ IsAssetManager(caller, p, t)
      /\ UNCHANGED <<registered, assetManager, internal>>
  BY <1>2 DEF WithdrawPoolBalance, DepositPoolBalance, UpdateManagedBalance
<1>5. PICK w : /\ balances' = [balances EXCEPT ![p][t] = w]
               /\ w.cash + w.managed <= MaxBalance
               /\ \/ w.cash = balances[p][t].cash /\ UNCHANGED wallet
                  \/ /\ w.cash + w.managed = balances[p][t].cash + balances[p][t].managed
                     /\ wallet' = Transfer(wallet, t, VaultAddress, caller,
                                           balances[p][t].cash - w.cash)
  <2>1. balances[p][t].cash + balances[p][t].managed <= MaxBalance
    BY <1>1 DEF StorageSound
  <2>2. balances[p][t].cash \in Nat /\ balances[p][t].managed \in Nat
    BY <1>3 DEF Word
  <2>3. CASE WithdrawPoolBalance(caller, p, t, amount)
    <3> DEFINE w == [cash |-> balances[p][t].cash - amount,
                     managed |-> balances[p][t].managed + amount]
    <3>1. balances' = [balances EXCEPT ![p][t] = w]
      BY <1>1, <2>3 DEF WithdrawPoolBalance
    <3>2. /\ w.cash + w.managed = balances[p][t].cash + balances[p][t].managed
          /\ balances[p][t].cash - w.cash = amount
      BY <1>3, <2>2
    <3>3. wallet' = Transfer(wallet, t, VaultAddress, caller, balances[p][t].cash - w.cash)
      BY <2>3, <3>2 DEF WithdrawPoolBalance
    <3> HIDE DEF w
    <3> QED  BY <2>1, <3>1, <3>2, <3>3
  <2>4. CASE DepositPoolBalance(caller, p, t, amount)
    <3> DEFINE w == [cash |-> balances[p][t].cash + amount,
                     managed |-> balances[p][t].managed - amount]
    <3>1. balances' = [balances EXCEPT ![p][t] = w]
      BY <1>1, <2>4 DEF DepositPoolBalance
    <3>2. /\ w.cash + w.managed = balances[p][t].cash + balances[p][t].managed
          /\ balances[p][t].cash - w.cash = -amount
      BY <1>3, <2>2
    <3>3. wallet' = Transfer(wallet, t, caller, VaultAddress, amount)
      BY <2>4 DEF DepositPoolBalance
    <3> HIDE DEF w
    <3>4. wallet' = Transfer(wallet, t, VaultAddress, caller, -amount)
      <4>1. /\ caller \in Accounts /\ VaultAddress \in Accounts
            /\ caller # VaultAddress /\ amount \in Int
        BY <1>3, NotUsers
      <4>2. Transfer(wallet, t, caller, VaultAddress, amount)
              = Transfer(wallet, t, VaultAddress, caller, -amount)
        BY <1>1, <4>1, TransferBack
      <4> QED  BY <3>3, <4>2
    <3>5. wallet' = Transfer(wallet, t, VaultAddress, caller, balances[p][t].cash - w.cash)
      BY <3>2, <3>4
    <3> QED  BY <2>1, <3>1, <3>2, <3>5
  <2>5. CASE UpdateManagedBalance(caller, p, t, amount)
    <3> DEFINE w == [cash |-> balances[p][t].cash, managed |-> amount]
    <3>1. balances' = [balances EXCEPT ![p][t] = w]
      BY <1>1, <2>5 DEF UpdateManagedBalance
    <3>2. /\ w.cash = balances[p][t].cash /\ w.cash + w.managed <= MaxBalance
          /\ UNCHANGED wallet
      BY <1>3, <2>5 DEF UpdateManagedBalance, IsBalance, Word
    <3> HIDE DEF w
    <3> QED  BY <3>1, <3>2
  <2> QED  BY <1>2, <2>3, <2>4, <2>5
<1>6. /\ balances'[p][t] = w
      /\ \A q \in Pools, s \in Tokens : q # p \/ s # t => balances'[q][s] = balances[q][s]
  BY <1>1, <1>5
<1>7. /\ t \in registered[p] /\ assetManager[p][t] = caller
      /\ assetManager[p][t] # NoManager
  BY <1>4, AccountsAssumption DEF IsAssetManager
<1>8. stack = <<>> /\ stack' = <<>> /\ Idle
  BY <1>1, <1>4, AtomicCalls
<1>9. StorageSound(registered', assetManager', balances')
  BY <1>1, <1>4, <1>5, <1>6, <1>7 DEF StorageSound
<1>10. PauseStep
  BY <1>4 DEF PauseStep
<1>11. DebitStep
  <2>1. \A u \in Users, s \in Tokens : internal'[u][s] = internal[u][s] /\ internal[u][s] \in Nat
    BY <1>1, <1>4
  <2> QED  BY <1>8, <2>1 DEF DebitStep
<1>12. ManagedStep
  BY <1>2, <1>5, <1>6, <1>7, <1>8 DEF ManagedStep
<1> QED  BY <1>8, <1>9, <1>10, <1>11, <1>12, IdleCalls DEF Allowed

LEMMA AuthorizationCalls ==
    ASSUME CallsInv, IInv', AuthorizationNext
    PROVE  CallsOK' /\ Allowed
<1>1. /\ IInv /\ Types /\ Types' /\ StorageSound(registered, assetManager, balances)
      /\ balances \in [Pools -> [Tokens -> Word]]
  BY CallParts
<1> DEFINE AuthKeeps == /\ UNCHANGED <<registered, assetManager, balances, internal, wallet>>
                        /\ stack = <<>> /\ stack' = <<>> /\ (paused => UNCHANGED approved)
<1>2. AuthKeeps
  <2>1. ASSUME NEW caller, NEW sender, NEW relayer, NEW isApproved,
               SetRelayerApproval(caller, sender, relayer, isApproved)
        PROVE  AuthKeeps
    BY <1>1, <2>1, AtomicCalls DEF SetRelayerApproval
  <2>2. ASSUME NEW b, SetPaused(b)
        PROVE  AuthKeeps
    BY <1>1, <2>2, AtomicCalls DEF SetPaused
  <2>3. CASE PauseExpires
    BY <2>3 DEF PauseExpires, Idle
  <2> QED  BY <2>1, <2>2, <2>3 DEF AuthorizationNext
<1>3. \A p \in Pools, t \in Tokens : balances[p][t].cash \in Nat
  BY <1>1, ValueTypes DEF Types
<1>4. Allowed
  BY <1>1, <1>2, <1>3, BooksStep
<1> QED  BY <1>1, <1>2, <1>4, IdleCalls

\* Code outside the Vault leaves its books alone, and a revert restores sound ones.
LEMMA EnvironmentCalls ==
    ASSUME CallsInv, IInv', EnvironmentNext
    PROVE  CallsOK' /\ Allowed
<1>1. /\ IInv /\ CallsOK /\ Typed /\ Types /\ Types'
      /\ StorageSound(registered, assetManager, balances)
      /\ balances \in [Pools -> [Tokens -> Word]] /\ wallet \in [Tokens -> [Accounts -> Nat]]
      /\ internal \in [Users -> [Tokens -> Nat]]
  BY CallParts
\* What everything but a revert leaves as it is.
<1>2. ASSUME UNCHANGED <<stack, paused, registered, assetManager, balances, internal, approved>>,
             stack # <<>> => UNCHANGED signed
      PROVE  CallsOK' /\ Allowed
  <2>1. CallsOK'
    <3>1. CASE stack = <<>>
      BY <1>1, <1>2, <3>1, IdleCalls
    <3>2. CASE stack # <<>>
      <4>1. FrameOK(Top, Storage)
        BY <1>1, <3>2 DEF CallsOK
      <4>2. FrameOK(Top, Storage')
        BY <1>2, <3>2, <4>1, FrameKept, StorageFields, StorageFieldsNext
      <4>3. Top' = Top
        BY <1>2 DEF Top
      <4> QED  BY <1>1, <1>2, <4>2, <4>3 DEF CallsOK
    <3> QED  BY <3>1, <3>2
  <2>2. NoLessInternal(internal, internal')
    BY <1>1, <1>2 DEF NoLessInternal
  <2> QED  BY <1>1, <1>2, <2>1, <2>2, QuietStep
<1>3. CASE Revert
  <2>1. stack # <<>> /\ Leave /\ SavedOK(Top, Storage) /\ PauseOK(Top, Storage)
    BY <1>1, <1>3 DEF Revert, CallsOK, FrameOK
  <2>2. /\ registered' = Top.saved.registered /\ assetManager' = Top.saved.assetManager
        /\ balances' = Top.saved.balances /\ approved' = Top.saved.approved
        /\ paused' = Top.saved.paused
    BY <1>3 DEF Revert
  <2>3. StorageSound(registered', assetManager', balances')
    BY <2>1, <2>2 DEF SavedOK
  <2>4. CallsOK'
    BY <1>1, <2>1, <2>3, LeaveCalls
  <2>5. /\ UNCHANGED <<registered, assetManager, approved>>
        /\ \A p \in Pools, t \in Tokens : balances'[p][t].managed = balances[p][t].managed
        /\ Top.fn \notin {"swap", "batchSwap"} => balances' = balances
    BY <2>1, <2>2, StorageFields DEF SavedOK
  <2>6. paused => Top.fn \notin {"swap", "batchSwap"}
    BY <2>1, StorageFields DEF PauseOK
  <2>7. \A p \in Pools, t \in Tokens : balances[p][t].cash \in Nat
    BY <1>1, ValueTypes DEF Types
  <2>8. PauseStep
    BY <1>3, <2>5, <2>6, <2>7 DEF PauseStep
  <2>9. DebitStep
    BY <1>3, <2>1 DEF DebitStep
  <2>10. ManagedStep
    BY <2>5 DEF ManagedStep
  <2> QED  BY <2>4, <2>8, <2>9, <2>10 DEF Allowed
<1>4. ASSUME NEW u, NEW t, NEW amount, SendToVault(u, t, amount) \/ WithdrawCollectedFees(u, t, amount)
      PROVE  CallsOK' /\ Allowed
  BY <1>2, <1>4 DEF SendToVault, WithdrawCollectedFees
<1>5. ASSUME NEW r, ChangeRelayerPermission(r)
      PROVE  CallsOK' /\ Allowed
  BY <1>2, <1>5 DEF ChangeRelayerPermission
<1>6. ASSUME NEW u, NEW r, Sign(u, r)
      PROVE  CallsOK' /\ Allowed
  BY <1>2, <1>6 DEF Sign, Idle
<1> QED  BY <1>3, <1>4, <1>5, <1>6 DEF EnvironmentNext

-----------------------------------------------------------------------------
(* Joins and exits *)

\* The caller of a call that begins is, or has the consent of, the user it names.
LEMMA AuthenticatedConsent ==
    ASSUME NEW caller, NEW user, AuthenticateFor(caller, user), approved' = approved
    PROVE  caller = user \/ caller \in approved'[user] \/ <<user, caller>> \in signed \ signed'
BY DEF AuthenticateFor

LEMMA JoinOrExitCalls ==
    ASSUME CallsInv, IInv', NEW kind \in {"join", "exit"}, NEW caller \in Users,
           NEW sender \in Users, NEW recipient \in Users, NEW p \in Pools,
           NEW useInternal \in BOOLEAN,
           JoinOrExit(kind, caller, sender, recipient, p, useInternal)
    PROVE  CallsOK' /\ Allowed
<1>1. /\ IInv /\ CallsOK /\ Typed /\ StorageSound(registered, assetManager, balances)
      /\ balances \in [Pools -> [Tokens -> Word]] /\ wallet \in [Tokens -> [Accounts -> Nat]]
      /\ registered \in [Pools -> SUBSET Tokens]
  BY CallParts
<1> DEFINE party == IF kind = "join" THEN sender ELSE recipient
           f == [fn |-> kind, caller |-> caller, party |-> party,
                 pool |-> p, useInternal |-> useInternal,
                 final |-> balances[p], todo |-> registered[p], saved |-> Storage]
<1>2. /\ Enter(f) /\ AuthenticateFor(caller, sender) /\ (kind = "join" => ~paused)
      /\ UNCHANGED <<paused, registered, assetManager, balances, internal,
                     wallet, relayers, approved>>
  BY DEF JoinOrExit
<1>3. /\ Storage \in StorageType /\ party \in Users
      /\ balances[p] \in [Tokens -> Word] /\ registered[p] \in SUBSET Tokens
  BY <1>1, StorageParts DEF Typed
<1>4. kind = "join" => party = sender
  OBVIOUS
<1> HIDE DEF party
<1>5. f \in PoolFrame
  BY <1>3 DEF PoolFrame
<1>6. /\ f \in Frame /\ f.saved = Storage /\ f.fn = kind /\ f.pool = p /\ f.caller = caller
      /\ f.final = balances[p] /\ f.todo = registered[p] /\ f.party = party
  BY <1>5 DEF Frame
<1> HIDE DEF f
<1>7. PauseOK(f, Storage')
  BY <1>2, <1>6, StorageFieldsNext DEF PauseOK
<1>8. PoolCallOK(f, Storage')
  <2>1. \A t \in Tokens : balances[p][t].cash \in Nat
    BY <1>3 DEF Word
  <2>2. \A t \in Tokens :
           /\ balances[p][t].cash + balances[p][t].managed <= MaxBalance
           /\ t \notin registered[p] => balances[p][t] = [cash |-> 0, managed |-> 0]
    BY <1>1 DEF StorageSound
  <2> QED  BY <1>2, <1>6, <2>1, <2>2, StorageFieldsNext DEF PoolCallOK
<1>9. SwapCallOK(f, Storage') /\ LoanOK(f, Storage')
  BY <1>6 DEF SwapCallOK, LoanOK
<1>10. PayerOK(f, Storage')
  <2>1. caller = sender \/ caller \in approved'[sender] \/ <<sender, caller>> \in signed \ signed'
    BY <1>2, AuthenticatedConsent
  <2> QED  BY <1>4, <1>6, <2>1, StorageFields, StorageFieldsNext DEF PayerOK, Consented
<1>11. CallsOK'
  BY <1>1, <1>2, <1>6, <1>7, <1>8, <1>9, <1>10, EnterCalls
<1>12. NoLess(wallet, wallet')
  BY <1>1, <1>2, NoLessSame
<1>13. Allowed
  BY <1>1, <1>2, <1>12, EnterQuietly
<1> QED  BY <1>11, <1>13

\* One token of a join or an exit is done.
LEMMA ProcessedCalls ==
    ASSUME CallsInv, IInv', stack # <<>>, Top.fn \in {"join", "exit"},
           NEW t \in Top.todo, NEW n \in Int, Top.fn = "exit" => n <= 0,
           IsBalance(AddCash(Top.final[t], n)),
           Continue(Processed(Top, t, AddCash(Top.final[t], n))),
           UNCHANGED <<paused, registered, assetManager, balances, approved, signed>>
    PROVE  CallsOK'
<1>1. /\ IInv /\ CallsOK /\ Typed /\ FrameOK(Top, Storage)
      /\ StorageSound(registered, assetManager, balances)
      /\ balances \in [Pools -> [Tokens -> Word]]
  BY CallParts
<1>2. Top \in PoolFrame
  BY <1>1, TopKinds
<1>3. /\ Top.pool \in Pools /\ Top.final \in [Tokens -> Word] /\ t \in Tokens
      /\ balances[Top.pool] \in [Tokens -> Word]
  BY <1>1, <1>2 DEF PoolFrame
<1> DEFINE w == AddCash(Top.final[t], n)
           f == Processed(Top, t, w)
<1>4. w \in Word /\ w.cash = Top.final[t].cash + n
  BY <1>3, AddCashWord
<1>5. w.cash + w.managed <= MaxBalance
  BY DEF IsBalance
<1>6. Continue(f)
  OBVIOUS
<1> HIDE DEF w
<1>7. /\ f \in PoolFrame /\ f.saved = Top.saved /\ f.fn = Top.fn /\ f.pool = Top.pool
      /\ f.todo = Top.todo \ {t} /\ f.final = [Top.final EXCEPT ![t] = w]
  BY <1>2, <1>3, <1>4, PoolFrameNext
<1>8. f.caller = Top.caller /\ f.party = Top.party
  BY <1>2 DEF Processed, PoolFrame
<1> HIDE DEF f
<1>9. f \in Frame
  BY <1>7 DEF Frame
<1>10. SavedOK(f, Storage')
  BY <1>1, <1>7, SavedKept, StorageFields, StorageFieldsNext DEF FrameOK
<1>11. PauseOK(f, Storage') /\ SwapCallOK(f, Storage') /\ LoanOK(f, Storage')
  BY <1>1, <1>7, StorageFields, StorageFieldsNext DEF FrameOK, PauseOK, SwapCallOK, LoanOK
<1>12. PayerOK(f, Storage')
  BY <1>1, <1>7, <1>8, StorageFields, StorageFieldsNext DEF FrameOK, PayerOK, Consented
<1>13. PoolCallOK(f, Storage')
  <2>1. /\ Top.todo \subseteq registered[Top.pool]
        /\ \A s \in Tokens :
              /\ Top.final[s].cash + Top.final[s].managed <= MaxBalance
              /\ s \notin registered[Top.pool] => Top.final[s] = [cash |-> 0, managed |-> 0]
              /\ Top.fn = "exit" => Top.final[s].cash <= balances[Top.pool][s].cash
    BY <1>1, StorageFields DEF FrameOK, PoolCallOK
  <2>2. /\ f.final[t] = w
        /\ \A s \in Tokens \ {t} : f.final[s] = Top.final[s]
    BY <1>3, <1>4, <1>7
  <2>3. Top.final[t].cash \in Nat /\ balances[Top.pool][t].cash \in Nat
    BY <1>3 DEF Word
  <2>4. Top.fn = "exit" => w.cash <= balances[Top.pool][t].cash
    BY <1>3, <1>4, <2>1, <2>3
  <2>5. ASSUME NEW s \in Tokens
        PROVE  /\ f.final[s].cash + f.final[s].managed <= MaxBalance
               /\ s \notin registered[Top.pool] => f.final[s] = [cash |-> 0, managed |-> 0]
               /\ Top.fn = "exit" => f.final[s].cash <= balances[Top.pool][s].cash
    BY <1>5, <2>1, <2>2, <2>4
  <2> QED  BY <1>7, <2>1, <2>5, StorageFieldsNext DEF PoolCallOK
<1>14. FrameOK(f, Storage')
  BY <1>10, <1>11, <1>12, <1>13 DEF FrameOK
<1> QED  BY <1>1, <1>6, <1>9, <1>14, ContinueCalls

\* The party of a join, or the payer of a swap, has consented.
LEMMA PartyConsents ==
    ASSUME CallsInv, stack # <<>>, Top.fn \in {"join", "swap", "batchSwap"}
    PROVE  ConsentOf(Top.party) /\ ~paused
<1>1. PayerOK(Top, Storage) /\ PauseOK(Top, Storage)
  BY DEF CallsInv, CallsOK, FrameOK
<1> QED  BY <1>1, StorageFields DEF PayerOK, PauseOK, Consented, ConsentOf

\* _receiveAsset: what is taken comes from the Internal Balance first.
LEMMA ReceiveAsset ==
    ASSUME NEW w \in [Tokens -> [Accounts -> Nat]], internal \in [Users -> [Tokens -> Nat]],
           NEW u \in Users, NEW t \in Tokens, NEW e \in Int, internal[u][t] + e >= 0,
           NEW pulled \in Nat, pulled <= w[t][u], internal' = Add(internal, u, t, e)
    PROVE  /\ NoLessInternalBut(u, internal, internal')
           /\ NoLessBut(u, w, Transfer(w, t, u, VaultAddress, pulled))
           /\ Transfer(w, t, u, VaultAddress, pulled) \in [Tokens -> [Accounts -> Nat]]
           /\ Transfer(w, t, u, VaultAddress, pulled)[t][VaultAddress]
                = w[t][VaultAddress] + pulled
<1>1. NoLessInternalBut(u, internal, internal')
  BY InternalTransfer
<1>2. NoLessBut(u, w, Transfer(w, t, u, VaultAddress, pulled))
  BY NotUsers, UserTransfer
<1> QED  BY <1>1, <1>2, UserPays

LEMMA ProcessJoinCalls ==
    ASSUME CallsInv, IInv', NEW t \in Tokens, NEW amountIn \in Amounts, NEW fee \in Amounts,
           ProcessJoinTransfer(t, amountIn, fee)
    PROVE  CallsOK' /\ Allowed
<1>1. /\ IInv /\ Typed /\ Types /\ Types' /\ Amounts \subseteq Nat
      /\ wallet \in [Tokens -> [Accounts -> Nat]] /\ internal \in [Users -> [Tokens -> Nat]]
  BY CallParts
<1> DEFINE u == Top.party
           d == Deducted(Top.useInternal, u, t, amountIn)
           n == amountIn - fee
           pulled == amountIn - d
           e == -d
           w == Transfer(wallet, t, u, VaultAddress, pulled)
<1>2. /\ stack # <<>> /\ Top.fn = "join" /\ t \in Top.todo /\ amountIn \in Nat /\ fee \in Nat
      /\ pulled <= wallet[t][u]
      /\ fee <= wallet[t][VaultAddress] + pulled
      /\ IsBalance(AddCash(Top.final[t], n))
      /\ internal' = Add(internal, u, t, e)
      /\ wallet' = Transfer(w, t, VaultAddress, Collector, fee)
      /\ Continue(Processed(Top, t, AddCash(Top.final[t], n)))
      /\ UNCHANGED <<paused, registered, assetManager, balances, relayers, approved, signed>>
  BY <1>1 DEF ProcessJoinTransfer, Running
<1>3. n \in Int
  BY <1>2
<1> HIDE DEF n
<1>4. CallsOK'
  BY <1>2, <1>3, ProcessedCalls
<1>5. u \in Users
  BY <1>1, <1>2, TopKinds DEF PoolFrame
<1> HIDE DEF u
<1>6. e \in Int /\ internal[u][t] + e >= 0 /\ pulled \in Nat
  <2>1. internal[u][t] \in Nat
    BY <1>1, <1>5
  <2>2. d \in Nat /\ d <= amountIn /\ d <= internal[u][t]
    BY <1>2, <2>1, DeductedBounds
  <2> QED  BY <1>2, <2>1, <2>2
<1> HIDE DEF d, e, pulled
<1>7. /\ NoLessInternalBut(u, internal, internal') /\ NoLessBut(u, wallet, w)
      /\ w \in [Tokens -> [Accounts -> Nat]]
      /\ w[t][VaultAddress] = wallet[t][VaultAddress] + pulled
  BY <1>1, <1>2, <1>5, <1>6, ReceiveAsset
<1> HIDE DEF w
<1>8. fee <= w[t][VaultAddress]
  BY <1>2, <1>7
<1>9. NoLess(w, wallet')
  BY <1>2, <1>7, <1>8, NotUsers, VaultTransfer
<1>10. wallet' \in [Tokens -> [Accounts -> Nat]]
  BY <1>1 DEF Types
<1>11. NoLessBut(u, wallet, wallet')
  BY <1>1, <1>7, <1>9, <1>10, NoLessTrans
<1>12. ConsentOf(u) /\ ~paused
  BY <1>2, PartyConsents DEF u
<1>13. Allowed
  BY <1>1, <1>2, <1>7, <1>11, <1>12, PayStep
<1> QED  BY <1>4, <1>13

\* What the Vault sends out: to a user's Internal Balance or to an account.
LEMMA SendAsset ==
    ASSUME NEW w \in [Tokens -> [Accounts -> Nat]], internal \in [Users -> [Tokens -> Nat]],
           NEW u \in Users, NEW t \in Tokens, NEW n \in Nat, NEW sent \in Nat,
           sent <= n, sent <= w[t][VaultAddress], internal' = Add(internal, u, t, n - sent)
    PROVE  /\ NoLessInternal(internal, internal')
           /\ NoLess(w, Transfer(w, t, VaultAddress, u, sent))
           /\ Transfer(w, t, VaultAddress, u, sent) \in [Tokens -> [Accounts -> Nat]]
           /\ Transfer(w, t, VaultAddress, u, sent)[t][VaultAddress] = w[t][VaultAddress] - sent
<1>1. internal[u][t] \in Nat /\ u \in Accounts
  BY NotUsers
<1> DEFINE k == n - sent
<1>2. k \in Int /\ k >= 0 /\ internal[u][t] + k >= 0 /\ internal' = Add(internal, u, t, k)
  BY <1>1
<1> HIDE DEF k
<1>3. NoLessInternal(internal, internal')
  BY <1>2, InternalTransfer
<1>4. NoLess(w, Transfer(w, t, VaultAddress, u, sent))
  BY <1>1, NotUsers, VaultTransfer
<1> QED  BY <1>3, <1>4, VaultPays

LEMMA ProcessExitCalls ==
    ASSUME CallsInv, IInv', NEW t \in Tokens, NEW amountOut \in Amounts, NEW fee \in Amounts,
           ProcessExitTransfer(t, amountOut, fee)
    PROVE  CallsOK' /\ Allowed
<1>1. /\ IInv /\ Typed /\ Types /\ Types' /\ Amounts \subseteq Nat
      /\ wallet \in [Tokens -> [Accounts -> Nat]] /\ internal \in [Users -> [Tokens -> Nat]]
  BY CallParts
<1> DEFINE u == Top.party
           sent == IF Top.useInternal THEN 0 ELSE amountOut
           n == -(amountOut + fee)
           w == Transfer(wallet, t, VaultAddress, u, sent)
<1>2. /\ stack # <<>> /\ Top.fn = "exit" /\ t \in Top.todo /\ amountOut \in Nat /\ fee \in Nat
      /\ sent + fee <= wallet[t][VaultAddress]
      /\ IsBalance(AddCash(Top.final[t], n))
      /\ internal' = Add(internal, u, t, amountOut - sent)
      /\ wallet' = Transfer(w, t, VaultAddress, Collector, fee)
      /\ Continue(Processed(Top, t, AddCash(Top.final[t], n)))
      /\ UNCHANGED <<paused, registered, assetManager, balances, relayers, approved, signed>>
  BY <1>1 DEF ProcessExitTransfer, Running
<1>3. n \in Int /\ n <= 0
  BY <1>2
<1> HIDE DEF n
<1>4. CallsOK'
  BY <1>2, <1>3, ProcessedCalls
<1>5. u \in Users /\ wallet[t][VaultAddress] \in Nat
  BY <1>1, <1>2, TopKinds, NotUsers DEF PoolFrame
<1>6. sent \in Nat /\ sent <= amountOut
  BY <1>2
<1> HIDE DEF sent
<1>7. sent <= wallet[t][VaultAddress] /\ fee <= wallet[t][VaultAddress] - sent
  BY <1>2, <1>5, <1>6
<1> HIDE DEF u
<1>8. /\ NoLessInternal(internal, internal') /\ NoLess(wallet, w)
      /\ w \in [Tokens -> [Accounts -> Nat]]
      /\ w[t][VaultAddress] = wallet[t][VaultAddress] - sent
  BY <1>1, <1>2, <1>5, <1>6, <1>7, SendAsset
<1> HIDE DEF w
<1>9. fee <= w[t][VaultAddress]
  BY <1>7, <1>8
<1>10. NoLess(w, wallet')
  BY <1>2, <1>8, <1>9, NotUsers, VaultTransfer
<1>11. wallet' \in [Tokens -> [Accounts -> Nat]]
  BY <1>1 DEF Types
<1>12. NoLess(wallet, wallet')
  BY <1>1, <1>8, <1>10, <1>11, NoLessTrans
<1>13. Allowed
  BY <1>1, <1>2, <1>8, <1>12, QuietStep
<1> QED  BY <1>4, <1>13

LEMMA StoreFinalCalls ==
    ASSUME CallsInv, IInv', StoreFinalBalances
    PROVE  CallsOK' /\ Allowed
<1>1. /\ IInv /\ Typed /\ Types /\ Types' /\ StorageSound(registered, assetManager, balances)
      /\ balances \in [Pools -> [Tokens -> Word]]
  BY CallParts
<1>2. /\ stack # <<>> /\ Top.fn \in {"join", "exit"} /\ Leave
      /\ balances' = [balances EXCEPT ![Top.pool] = Top.final]
      /\ UNCHANGED <<paused, registered, assetManager, internal, wallet,
                     relayers, approved, signed>>
  BY DEF StoreFinalBalances, Running
<1>3. Top.pool \in Pools /\ Top.final \in [Tokens -> Word]
  BY <1>1, <1>2, TopKinds DEF PoolFrame
<1>4. /\ balances'[Top.pool] = Top.final
      /\ \A q \in Pools \ {Top.pool} : balances'[q] = balances[q]
  BY <1>1, <1>2, <1>3
<1>5. /\ Top.fn = "join" => ~paused
      /\ \A t \in Tokens :
            /\ Top.final[t].cash + Top.final[t].managed <= MaxBalance
            /\ t \notin registered[Top.pool] => Top.final[t] = [cash |-> 0, managed |-> 0]
            /\ Top.fn = "exit" => Top.final[t].cash <= balances[Top.pool][t].cash
  BY <1>2, CallParts, StorageFields DEF FrameOK, PauseOK, PoolCallOK
<1>6. \A t \in Tokens : Top.final[t].managed = balances[Top.pool][t].managed
  BY <1>1, <1>2 DEF IInv, NoStaleBalances, Running
<1>7. StorageSound(registered', assetManager', balances')
  BY <1>1, <1>2, <1>4, <1>5 DEF StorageSound
<1>8. CallsOK'
  BY <1>1, <1>2, <1>7, LeaveCalls
<1>9. \A p \in Pools, t \in Tokens : balances[p][t].cash \in Nat
  BY <1>1, ValueTypes DEF Types
<1>10. \A p \in Pools, t \in Tokens :
          /\ paused => balances'[p][t].cash <= balances[p][t].cash
          /\ balances'[p][t].managed = balances[p][t].managed
  BY <1>2, <1>4, <1>5, <1>6, <1>9
<1>11. Allowed
  BY <1>1, <1>2, <1>10, BooksStep
<1> QED  BY <1>8, <1>11

LEMMA PoolBalancesCalls ==
    ASSUME CallsInv, IInv', PoolBalancesNext
    PROVE  CallsOK' /\ Allowed
BY JoinOrExitCalls, ProcessJoinCalls, ProcessExitCalls, StoreFinalCalls DEF PoolBalancesNext

-----------------------------------------------------------------------------
(* manageUserBalance *)

\* An operation goes on with a frame that differs in its count and its caches.
LEMMA UserOpCalls ==
    ASSUME CallsInv, IInv', NEW sender \in Users, NEW b \in BOOLEAN, UserBalanceOp(sender, b)
    PROVE  /\ CallsOK' /\ stack # <<>> /\ ConsentOf(sender) /\ (b => ~paused)
           /\ UNCHANGED <<registered, assetManager, balances, approved>>
<1>1. /\ IInv /\ CallsOK /\ Typed /\ StorageSound(registered, assetManager, balances)
  BY CallParts
<1>2. /\ stack # <<>> /\ Top.fn = "manageUserBalance" /\ Top.steps > 0 /\ MayActFor(sender)
      /\ b => Top.notPaused \/ ~paused
      /\ UNCHANGED <<paused, registered, assetManager, balances, relayers, approved, signed>>
  BY DEF UserBalanceOp, Running
<1>3. Top \in UserFrame /\ FrameOK(Top, Storage)
  BY <1>2, CallParts, TopKinds
<1>4. b => ~paused
  BY <1>2, <1>3, StorageFields DEF FrameOK, PauseOK
<1> DEFINE r == Top.isRelayer \/ sender # Top.caller
           c == Top.notPaused \/ b
           f == [Top EXCEPT !.steps = @ - 1, !.isRelayer = r, !.notPaused = c]
<1>5. Continue(f)
  BY <1>3 DEF UserBalanceOp, UserFrame
<1>6. r \in BOOLEAN /\ c \in BOOLEAN /\ (c => Top.notPaused \/ ~paused)
  BY <1>3, <1>4 DEF UserFrame
<1> HIDE DEF r, c
<1>7. /\ f \in UserFrame /\ f.saved = Top.saved /\ f.fn = "manageUserBalance"
      /\ f.notPaused = c
  BY <1>2, <1>3, <1>6, UserFrameNext DEF UserFrame
<1> HIDE DEF f
<1>8. SavedOK(f, Storage')
  BY <1>2, <1>3, <1>7, SavedKept, StorageFields, StorageFieldsNext DEF FrameOK
<1>9. PauseOK(f, Storage')
  BY <1>2, <1>3, <1>6, <1>7, StorageFields, StorageFieldsNext DEF FrameOK, PauseOK
<1>10. FrameOK(f, Storage')
  BY <1>7, <1>8, <1>9 DEF FrameOK, PoolCallOK, SwapCallOK, LoanOK, PayerOK
<1>11. f \in Frame
  BY <1>7 DEF Frame
<1>12. CallsOK'
  BY <1>1, <1>2, <1>5, <1>10, <1>11, ContinueCalls
<1>13. ConsentOf(sender)
  BY <1>2 DEF MayActFor, ConsentOf
<1> QED  BY <1>2, <1>4, <1>12, <1>13

LEMMA UserBalanceCalls ==
    ASSUME CallsInv, IInv', UserBalanceNext
    PROVE  CallsOK' /\ Allowed
<1>1. /\ IInv /\ CallsOK /\ Typed /\ Types /\ Types' /\ Amounts \subseteq Nat
      /\ StorageSound(registered, assetManager, balances)
      /\ wallet \in [Tokens -> [Accounts -> Nat]] /\ internal \in [Users -> [Tokens -> Nat]]
      /\ wallet' \in [Tokens -> [Accounts -> Nat]]
  BY CallParts DEF Types
<1>2. \A u \in Users, t \in Tokens : internal[u][t] \in Nat
  BY <1>1
<1>3. NoLess(wallet, wallet) /\ \A x : NoLessBut(x, wallet, wallet)
  BY <1>1, NoLessSame DEF NoLess, NoLessBut
<1>4. ASSUME NEW caller \in Users, NEW steps \in 1..MaxOps, ManageUserBalance(caller, steps)
      PROVE  CallsOK' /\ Allowed
  <2> DEFINE f == [fn |-> "manageUserBalance", caller |-> caller, steps |-> steps,
                   isRelayer |-> FALSE, notPaused |-> FALSE, saved |-> Storage]
  <2>1. Enter(f) /\ UNCHANGED storageVars
    BY <1>4 DEF ManageUserBalance
  <2>2. Storage \in StorageType /\ steps \in Nat
    BY <1>1, StorageParts, AmountsAssumption DEF Typed
  <2>3. f \in Frame /\ f.saved = Storage /\ f.fn = "manageUserBalance" /\ ~f.notPaused
    BY <2>2 DEF Frame, UserFrame
  <2> HIDE DEF f
  <2>4. /\ PauseOK(f, Storage') /\ PoolCallOK(f, Storage') /\ SwapCallOK(f, Storage')
        /\ LoanOK(f, Storage') /\ PayerOK(f, Storage')
    BY <2>3 DEF PauseOK, PoolCallOK, SwapCallOK, LoanOK, PayerOK
  <2>5. CallsOK'
    BY <1>1, <2>1, <2>3, <2>4, EnterCalls DEF storageVars
  <2>6. Allowed
    BY <1>1, <1>3, <2>1, EnterQuietly DEF storageVars
  <2> QED  BY <2>5, <2>6
\* What the operations have in common.
<1>5. ASSUME NEW sender \in Users, NEW b \in BOOLEAN, UserBalanceOp(sender, b),
             NoLessInternalBut(sender, internal, internal'), NoLessBut(sender, wallet, wallet'),
             ~b => NoLess(wallet, wallet')
      PROVE  CallsOK' /\ Allowed
  <2>1. /\ CallsOK' /\ stack # <<>> /\ ConsentOf(sender) /\ (b => ~paused)
        /\ UNCHANGED <<registered, assetManager, balances, approved>>
    BY <1>5, UserOpCalls
  <2> QED  BY <1>1, <1>5, <2>1, PayStep
<1>6. ASSUME NEW sender \in Users, NEW recipient \in Users, NEW t \in Tokens,
             NEW amount \in Amounts, DepositToInternalBalance(sender, recipient, t, amount)
      PROVE  CallsOK' /\ Allowed
  <2>1. /\ UserBalanceOp(sender, TRUE) /\ amount \in Nat /\ amount <= wallet[t][sender]
        /\ internal' = Add(internal, recipient, t, amount)
        /\ wallet' = Transfer(wallet, t, sender, VaultAddress, amount)
    BY <1>1, <1>6 DEF DepositToInternalBalance
  <2>2. amount >= 0 /\ internal[recipient][t] + amount >= 0
    BY <1>2, <2>1
  <2>3. NoLessInternal(internal, internal')
    BY <1>1, <2>1, <2>2, InternalTransfer
  <2>4. NoLessInternalBut(sender, internal, internal')
    BY <2>3 DEF NoLessInternal, NoLessInternalBut
  <2>5. NoLessBut(sender, wallet, wallet')
    BY <1>1, <2>1, NotUsers, UserTransfer
  <2> QED  BY <1>5, <2>1, <2>4, <2>5
<1>7. ASSUME NEW sender \in Users, NEW recipient \in Users, NEW t \in Tokens,
             NEW amount \in Amounts, WithdrawFromInternalBalance(sender, recipient, t, amount)
      PROVE  CallsOK' /\ Allowed
  <2> DEFINE d == -amount
  <2>1. /\ UserBalanceOp(sender, FALSE) /\ amount \in Nat /\ amount <= internal[sender][t]
        /\ amount <= wallet[t][VaultAddress]
        /\ internal' = Add(internal, sender, t, d)
        /\ wallet' = Transfer(wallet, t, VaultAddress, recipient, amount)
    BY <1>1, <1>7 DEF WithdrawFromInternalBalance
  <2>2. d \in Int /\ internal[sender][t] + d >= 0
    BY <1>2, <2>1
  <2> HIDE DEF d
  <2>3. NoLessInternalBut(sender, internal, internal')
    BY <1>1, <2>1, <2>2, InternalTransfer
  <2>4. recipient \in Accounts /\ VaultAddress \in Accounts \ Users
    BY NotUsers
  <2>5. NoLess(wallet, wallet')
    BY <1>1, <2>1, <2>4, VaultTransfer
  <2>6. NoLessBut(sender, wallet, wallet')
    BY <2>5 DEF NoLess, NoLessBut
  <2> QED  BY <1>5, <2>1, <2>3, <2>5, <2>6
<1>8. ASSUME NEW sender \in Users, NEW recipient \in Users, NEW t \in Tokens,
             NEW amount \in Amounts, TransferInternalBalance(sender, recipient, t, amount)
      PROVE  CallsOK' /\ Allowed
  <2> DEFINE d == -amount
             i == Add(internal, sender, t, d)
  <2>1. /\ UserBalanceOp(sender, TRUE) /\ amount \in Nat /\ amount <= internal[sender][t]
        /\ internal' = Add(i, recipient, t, amount) /\ wallet' = wallet
    BY <1>1, <1>8 DEF TransferInternalBalance
  <2>2. d \in Int /\ internal[sender][t] + d >= 0
    BY <1>2, <2>1
  <2> HIDE DEF d
  <2>3. NoLessInternalBut(sender, internal, i)
    BY <1>1, <2>2, InternalTransfer
  <2>4. i \in [Users -> [Tokens -> Nat]]
    BY <1>1, <2>2, AddType
  <2> HIDE DEF i
  <2>5. amount >= 0 /\ i[recipient][t] + amount >= 0
    BY <2>1, <2>4
  <2>6. NoLessInternal(i, internal')
    BY <2>1, <2>4, <2>5, InternalTransfer
  <2>7. \A u \in Users, s \in Tokens :
           i[u][s] \in Nat /\ internal[u][s] \in Nat /\ internal'[u][s] \in Nat
    BY <1>1, <2>4 DEF Types
  <2>8. NoLessInternalBut(sender, internal, internal')
    BY <2>3, <2>6, <2>7 DEF NoLessInternal, NoLessInternalBut
  <2> QED  BY <1>3, <1>5, <2>1, <2>8
<1>9. ASSUME NEW sender \in Users, NEW recipient \in Users, NEW t \in Tokens,
             NEW amount \in Amounts, TransferToExternalBalance(sender, recipient, t, amount)
      PROVE  CallsOK' /\ Allowed
  <2>1. /\ UserBalanceOp(sender, TRUE) /\ amount \in Nat /\ amount <= wallet[t][sender]
        /\ internal' = internal /\ wallet' = Transfer(wallet, t, sender, recipient, amount)
    BY <1>1, <1>9 DEF TransferToExternalBalance
  <2>2. NoLessBut(sender, wallet, wallet')
    BY <1>1, <2>1, NotUsers, UserTransfer
  <2>3. NoLessInternalBut(sender, internal, internal')
    BY <1>2, <2>1 DEF NoLessInternalBut
  <2> QED  BY <1>5, <2>1, <2>2, <2>3
<1>10. CASE ManageUserBalanceEnd
  <2>1. stack # <<>> /\ Leave /\ UNCHANGED storageVars
    BY <1>10 DEF ManageUserBalanceEnd, Running
  <2>2. CallsOK'
    BY <1>1, <2>1, LeaveCalls DEF storageVars
  <2>3. Allowed
    BY <1>1, <1>3, <2>1, EnterQuietly DEF storageVars
  <2> QED  BY <2>2, <2>3
<1> QED  BY <1>4, <1>6, <1>7, <1>8, <1>9, <1>10 DEF UserBalanceNext

-----------------------------------------------------------------------------
(* Swaps *)

\* A swap goes on: with the same caller and payer, and sound balances.
LEMMA SwapContinues ==
    ASSUME CallsInv, IInv', stack # <<>>, Top.fn \in {"swap", "batchSwap"},
           NEW f \in SwapFrame, Continue(f), f.saved = Top.saved, f.fn = Top.fn,
           f.caller = Top.caller, f.party = Top.party,
           UNCHANGED <<paused, registered, assetManager, approved, signed>>,
           StorageSound(registered', assetManager', balances'),
           \A p \in Pools, t \in Tokens : balances'[p][t].managed = balances[p][t].managed,
           f.hook.pending => {f.hook.tokenIn, f.hook.tokenOut} \subseteq registered[f.hook.pool]
    PROVE  CallsOK'
<1>1. IInv /\ CallsOK /\ FrameOK(Top, Storage)
  BY CallParts
<1>2. SavedOK(f, Storage')
  BY <1>1, SavedKept, StorageFields, StorageFieldsNext DEF FrameOK
<1>3. PauseOK(f, Storage') /\ PoolCallOK(f, Storage') /\ LoanOK(f, Storage')
  BY <1>1, StorageFields, StorageFieldsNext DEF FrameOK, PauseOK, PoolCallOK, LoanOK
<1>4. SwapCallOK(f, Storage')
  BY StorageFieldsNext DEF SwapCallOK
<1>5. PayerOK(f, Storage')
  BY <1>1, StorageFields, StorageFieldsNext DEF FrameOK, PayerOK, Consented
<1>6. FrameOK(f, Storage') /\ f \in Frame
  BY <1>2, <1>3, <1>4, <1>5 DEF FrameOK, Frame
<1> QED  BY <1>1, <1>6, ContinueCalls

LEMMA SwapKeepsParties ==
    ASSUME NEW r \in SwapFrame
    PROVE  /\ \A t : Settled(r, t).caller = r.caller /\ Settled(r, t).party = r.party
           /\ \A h : Called(r, h).caller = r.caller /\ Called(r, h).party = r.party
           /\ \A h, d : /\ Returned(r, h, d).caller = r.caller
                        /\ Returned(r, h, d).party = r.party
BY DEF SwapFrame, Settled, Called, Returned

LEMMA SwapStartCalls ==
    ASSUME CallsInv, IInv', NEW fn \in {"swap", "batchSwap"}, NEW caller \in Users,
           NEW sender \in Users, NEW recipient \in Users, NEW fromInternal \in BOOLEAN,
           NEW toInternal \in BOOLEAN, NEW steps \in Nat,
           Swap(fn, caller, sender, recipient, fromInternal, toInternal, steps)
    PROVE  CallsOK' /\ Allowed
<1> DEFINE f == [fn |-> fn, caller |-> caller, party |-> sender, recipient |-> recipient,
                 fromInternal |-> fromInternal, toInternal |-> toInternal,
                 steps |-> steps, hook |-> NoHook,
                 delta |-> [t \in Tokens |-> 0], saved |-> Storage]
<1>1. IInv /\ CallsOK /\ Typed /\ wallet \in [Tokens -> [Accounts -> Nat]]
  BY CallParts
<1>2. /\ Enter(f) /\ AuthenticateFor(caller, sender) /\ ~paused
      /\ UNCHANGED <<paused, registered, assetManager, balances, internal,
                     wallet, relayers, approved>>
  BY DEF Swap
<1>3. Storage \in StorageType /\ NoHook \in Hook /\ ~NoHook.pending
      /\ [t \in Tokens |-> 0] \in [Tokens -> Int]
  BY <1>1, StorageParts DEF Typed, NoHook, Hook
<1> HIDE DEF NoHook
<1>4. /\ f \in SwapFrame /\ f.hook = NoHook /\ f.fn = fn /\ f.saved = Storage
      /\ f.caller = caller /\ f.party = sender
  BY <1>3 DEF SwapFrame
<1> HIDE DEF f
<1>5. f \in Frame
  BY <1>4 DEF Frame
<1>6. /\ PauseOK(f, Storage') /\ PoolCallOK(f, Storage') /\ SwapCallOK(f, Storage')
      /\ LoanOK(f, Storage')
  BY <1>2, <1>3, <1>4, StorageFieldsNext DEF PauseOK, PoolCallOK, SwapCallOK, LoanOK
<1>7. PayerOK(f, Storage')
  <2>1. caller = sender \/ caller \in approved'[sender] \/ <<sender, caller>> \in signed \ signed'
    BY <1>2, AuthenticatedConsent
  <2> QED  BY <1>4, <2>1, StorageFields, StorageFieldsNext DEF PayerOK, Consented
<1>8. CallsOK'
  BY <1>1, <1>2, <1>4, <1>5, <1>6, <1>7, EnterCalls
<1>9. NoLess(wallet, wallet')
  BY <1>1, <1>2, NoLessSame
<1>10. Allowed
  BY <1>1, <1>2, <1>9, EnterQuietly
<1> QED  BY <1>8, <1>10

LEMMA CallOnSwapCalls ==
    ASSUME CallsInv, IInv', NEW p \in Pools, NEW tokenIn \in Tokens, NEW tokenOut \in Tokens,
           CallOnSwap(p, tokenIn, tokenOut)
    PROVE  CallsOK' /\ Allowed
<1> DEFINE h == [pending |-> TRUE, pool |-> p,
                 tokenIn |-> tokenIn, tokenOut |-> tokenOut,
                 balanceIn |-> balances[p][tokenIn],
                 balanceOut |-> balances[p][tokenOut]]
           f == Called(Top, h)
<1>1. /\ IInv /\ Typed /\ StorageSound(registered, assetManager, balances)
      /\ balances \in [Pools -> [Tokens -> Word]] /\ wallet \in [Tokens -> [Accounts -> Nat]]
  BY CallParts
<1>2. /\ stack # <<>> /\ Top.fn \in {"swap", "batchSwap"} /\ Top.steps > 0
      /\ {tokenIn, tokenOut} \subseteq registered[p] /\ Continue(f) /\ UNCHANGED storageVars
  BY DEF CallOnSwap, Swapping, Running, Called
<1>3. Top \in SwapFrame
  BY <1>1, <1>2, TopKinds
<1>4. balances[p][tokenIn] \in Word /\ balances[p][tokenOut] \in Word
  BY <1>1
<1>5. h \in Hook /\ h.pool = p /\ h.tokenIn = tokenIn /\ h.tokenOut = tokenOut
  BY <1>4 DEF Hook
<1> HIDE DEF h
<1>6. /\ f \in SwapFrame /\ f.saved = Top.saved /\ f.fn = Top.fn /\ f.hook = h
      /\ f.caller = Top.caller /\ f.party = Top.party
  BY <1>2, <1>3, <1>5, SwapFrameNext, SwapKeepsParties
<1> HIDE DEF f
<1>7. CallsOK'
  BY <1>1, <1>2, <1>5, <1>6, SwapContinues DEF storageVars
<1>8. Allowed
  BY <1>1, <1>2, NoLessSame, EnterQuietly DEF storageVars
<1> QED  BY <1>7, <1>8

LEMMA OnSwapReturnedCalls ==
    ASSUME CallsInv, IInv', NEW amountIn \in Nat, NEW amountOut \in Nat,
           OnSwapReturned(amountIn, amountOut)
    PROVE  CallsOK' /\ Allowed
<1> DEFINE h == Top.hook
           p == h.pool
           a == h.tokenIn
           b == h.tokenOut
           in == AddCash(h.balanceIn, amountIn)
           minus == -amountOut
           out == AddCash(h.balanceOut, minus)
           delta == [Top.delta EXCEPT ![a] = Top.delta[a] + amountIn,
                                      ![b] = Top.delta[b] - amountOut]
           f == Returned(Top, NoHook, delta)
<1>1. /\ IInv /\ Typed /\ Types /\ Types' /\ StorageSound(registered, assetManager, balances)
      /\ balances \in [Pools -> [Tokens -> Word]]
  BY CallParts
<1>2. /\ stack # <<>> /\ Top.fn \in {"swap", "batchSwap"} /\ h.pending
      /\ IsBalance(in) /\ IsBalance(out)
      /\ balances' = [balances EXCEPT ![p][a] = in, ![p][b] = out]
      /\ UNCHANGED <<paused, registered, assetManager, internal, wallet,
                     relayers, approved, signed>>
  BY DEF OnSwapReturned, Swapping, Running
<1>3. Top \in SwapFrame /\ Top.delta \in [Tokens -> Int]
  BY <1>1, <1>2, TopKinds DEF SwapFrame
<1>4. /\ p \in Pools /\ a \in Tokens /\ b \in Tokens
      /\ h.balanceIn \in Word /\ h.balanceOut \in Word
  <2>1. h \in Hook
    BY <1>3 DEF SwapFrame
  <2> QED  BY <1>2, <2>1 DEF Hook
<1>5. a # b /\ h.balanceIn = balances[p][a] /\ h.balanceOut = balances[p][b]
  BY <1>1, <1>2 DEF IInv, CallOK, NoStaleBalances, Swapping, Running
<1>6. a \in registered[p] /\ b \in registered[p]
  BY <1>2, CallParts, StorageFields DEF FrameOK, SwapCallOK
<1>7. /\ in.managed = balances[p][a].managed /\ in.cash + in.managed <= MaxBalance
      /\ out.managed = balances[p][b].managed /\ out.cash + out.managed <= MaxBalance
  <2>1. minus \in Int /\ amountIn \in Int
    OBVIOUS
  <2> HIDE DEF minus
  <2>2. in.managed = h.balanceIn.managed /\ out.managed = h.balanceOut.managed
    BY <1>4, <2>1, AddCashWord
  <2>3. in.cash + in.managed <= MaxBalance /\ out.cash + out.managed <= MaxBalance
    BY <1>2 DEF IsBalance
  <2> QED  BY <1>5, <2>2, <2>3
<1>8. Continue(f)
  BY <1>3, <1>4, <1>5 DEF OnSwapReturned, Returned
<1> HIDE DEF h, in, out
<1>9. /\ balances'[p][a] = in /\ balances'[p][b] = out
      /\ \A s \in Tokens \ {a, b} : balances'[p][s] = balances[p][s]
      /\ \A q \in Pools \ {p} : balances'[q] = balances[q]
  <2>1. balances[p] \in [Tokens -> Word]
    BY <1>1, <1>4
  <2> QED  BY <1>1, <1>2, <1>4, <1>5, <2>1
<1>10. delta \in [Tokens -> Int]
  BY <1>3, <1>4, <1>5
<1> HIDE DEF delta
<1>11. /\ f \in SwapFrame /\ f.saved = Top.saved /\ f.fn = Top.fn /\ f.hook = NoHook
       /\ f.caller = Top.caller /\ f.party = Top.party
  <2>1. NoHook \in Hook
    BY DEF NoHook, Hook
  <2> QED  BY <1>3, <1>10, <2>1, SwapFrameNext, SwapKeepsParties
<1> HIDE DEF f
<1>12. ~f.hook.pending
  BY <1>11 DEF NoHook
<1>13. \A q \in Pools, s \in Tokens : balances'[q][s].managed = balances[q][s].managed
  BY <1>7, <1>9
<1>14. StorageSound(registered', assetManager', balances')
  <2> SUFFICES ASSUME NEW q \in Pools, NEW s \in Tokens
               PROVE  /\ balances'[q][s].cash + balances'[q][s].managed <= MaxBalance
                      /\ s \notin registered[q] =>
                            /\ balances'[q][s] = [cash |-> 0, managed |-> 0]
                            /\ assetManager[q][s] = NoManager
    BY <1>2 DEF StorageSound
  <2>1. CASE q = p /\ s \in {a, b}
    BY <1>6, <1>7, <1>9, <2>1
  <2>2. CASE q # p \/ s \notin {a, b}
    <3>1. balances'[q][s] = balances[q][s]
      BY <1>9, <2>2
    <3> QED  BY <1>1, <3>1 DEF StorageSound
  <2> QED  BY <2>1, <2>2
<1>15. CallsOK'
  BY <1>2, <1>8, <1>11, <1>12, <1>13, <1>14, SwapContinues
<1>16. ~paused
  BY <1>2, PartyConsents
<1>17. Allowed
  BY <1>1, <1>2, <1>13, <1>16, BooksStep
<1> QED  BY <1>15, <1>17

\* A token is settled: the balances and the swap's parties stay.
LEMMA SettledCalls ==
    ASSUME CallsInv, IInv', SwapsDone, NEW t \in Tokens, Continue(Settled(Top, t)),
           UNCHANGED <<paused, registered, assetManager, balances, relayers, approved, signed>>
    PROVE  CallsOK' /\ stack # <<>> /\ Top.fn \in {"swap", "batchSwap"} /\ Top \in SwapFrame
<1>1. IInv /\ Typed /\ StorageSound(registered, assetManager, balances)
  BY CallParts
<1>2. stack # <<>> /\ Top.fn \in {"swap", "batchSwap"} /\ ~Top.hook.pending
  BY DEF SwapsDone, Swapping, Running
<1>3. Top \in SwapFrame
  BY <1>1, <1>2, TopKinds
<1> DEFINE f == Settled(Top, t)
<1>4. /\ f \in SwapFrame /\ f.saved = Top.saved /\ f.fn = Top.fn /\ f.hook = Top.hook
      /\ f.caller = Top.caller /\ f.party = Top.party /\ Continue(f)
  BY <1>3, SwapFrameNext, SwapKeepsParties
<1> HIDE DEF f
<1>5. CallsOK'
  BY <1>1, <1>2, <1>4, SwapContinues
<1> QED  BY <1>2, <1>3, <1>5

LEMMA SettleReceiveCalls ==
    ASSUME CallsInv, IInv', NEW t \in Tokens, SettleReceive(t)
    PROVE  CallsOK' /\ Allowed
<1> DEFINE u == Top.party
           n == Top.delta[t]
           d == Deducted(Top.fromInternal, u, t, n)
           pulled == n - d
           e == -d
<1>1. /\ IInv /\ Typed /\ Types /\ Types'
      /\ wallet \in [Tokens -> [Accounts -> Nat]] /\ internal \in [Users -> [Tokens -> Nat]]
  BY CallParts
<1>2. /\ SwapsDone /\ n > 0 /\ pulled <= wallet[t][u]
      /\ internal' = Add(internal, u, t, e)
      /\ wallet' = Transfer(wallet, t, u, VaultAddress, pulled)
      /\ Continue(Settled(Top, t))
      /\ UNCHANGED <<paused, registered, assetManager, balances, relayers, approved, signed>>
  BY DEF SettleReceive
<1>3. CallsOK' /\ stack # <<>> /\ Top.fn \in {"swap", "batchSwap"} /\ Top \in SwapFrame
  BY <1>2, SettledCalls
<1>4. u \in Users /\ n \in Int
  BY <1>3 DEF SwapFrame
<1>5. ConsentOf(u) /\ ~paused
  BY <1>3, PartyConsents
<1> HIDE DEF u, n
<1>6. n \in Nat /\ internal[u][t] \in Nat
  BY <1>1, <1>2, <1>4
<1>7. d \in Nat /\ d <= n /\ d <= internal[u][t]
  BY <1>6, DeductedBounds
<1> HIDE DEF d
<1>8. e \in Int /\ internal[u][t] + e >= 0 /\ pulled \in Nat
  BY <1>6, <1>7
<1> HIDE DEF e, pulled
<1>9. NoLessInternalBut(u, internal, internal') /\ NoLessBut(u, wallet, wallet')
  BY <1>1, <1>2, <1>4, <1>8, ReceiveAsset
<1>10. Allowed
  BY <1>1, <1>2, <1>3, <1>5, <1>9, PayStep
<1> QED  BY <1>3, <1>10

LEMMA SettleSendCalls ==
    ASSUME CallsInv, IInv', NEW t \in Tokens, SettleSend(t)
    PROVE  CallsOK' /\ Allowed
<1> DEFINE u == Top.recipient
           amount == -Top.delta[t]
           sent == IF Top.toInternal THEN 0 ELSE amount
<1>1. /\ IInv /\ Typed /\ Types /\ Types'
      /\ wallet \in [Tokens -> [Accounts -> Nat]] /\ internal \in [Users -> [Tokens -> Nat]]
  BY CallParts
<1>2. /\ SwapsDone /\ Top.delta[t] < 0 /\ sent <= wallet[t][VaultAddress]
      /\ internal' = Add(internal, u, t, amount - sent)
      /\ wallet' = Transfer(wallet, t, VaultAddress, u, sent)
      /\ Continue(Settled(Top, t))
      /\ UNCHANGED <<paused, registered, assetManager, balances, relayers, approved, signed>>
  BY DEF SettleSend
<1>3. CallsOK' /\ Top \in SwapFrame
  BY <1>2, SettledCalls
<1>4. u \in Users /\ Top.delta[t] \in Int
  BY <1>3 DEF SwapFrame
<1>5. amount \in Nat
  BY <1>2, <1>4
<1> HIDE DEF amount
<1>6. sent \in Nat /\ sent <= amount
  BY <1>5
<1> HIDE DEF u, sent
<1>7. NoLessInternal(internal, internal') /\ NoLess(wallet, wallet')
  BY <1>1, <1>2, <1>4, <1>5, <1>6, SendAsset
<1>8. Allowed
  BY <1>1, <1>2, <1>7, QuietStep
<1> QED  BY <1>3, <1>8

LEMMA SwapsCalls ==
    ASSUME CallsInv, IInv', SwapsNext
    PROVE  CallsOK' /\ Allowed
<1>1. /\ IInv /\ Typed /\ StorageSound(registered, assetManager, balances) /\ Amounts \subseteq Nat
      /\ wallet \in [Tokens -> [Accounts -> Nat]]
  BY CallParts
<1>2. ASSUME NEW fn \in {"swap", "batchSwap"}, NEW caller \in Users, NEW sender \in Users,
             NEW recipient \in Users, NEW fromInternal \in BOOLEAN, NEW toInternal \in BOOLEAN,
             NEW steps \in 1..MaxSwaps,
             Swap(fn, caller, sender, recipient, fromInternal, toInternal, steps)
      PROVE  CallsOK' /\ Allowed
  <2>1. steps \in Nat
    BY AmountsAssumption
  <2> QED  BY <1>2, <2>1, SwapStartCalls
<1>3. ASSUME NEW p \in Pools, NEW tokenIn \in Tokens, NEW tokenOut \in Tokens,
             CallOnSwap(p, tokenIn, tokenOut)
      PROVE  CallsOK' /\ Allowed
  BY <1>3, CallOnSwapCalls
<1>4. ASSUME NEW amountIn \in Amounts, NEW amountOut \in Amounts,
             OnSwapReturned(amountIn, amountOut)
      PROVE  CallsOK' /\ Allowed
  <2>1. amountIn \in Nat /\ amountOut \in Nat
    BY <1>1
  <2> QED  BY <1>4, <2>1, OnSwapReturnedCalls
<1>5. ASSUME NEW t \in Tokens, SettleReceive(t) \/ SettleSend(t)
      PROVE  CallsOK' /\ Allowed
  BY <1>5, SettleReceiveCalls, SettleSendCalls
<1>6. CASE SwapEnd
  <2>1. stack # <<>> /\ Leave /\ UNCHANGED storageVars
    BY <1>6 DEF SwapEnd, SwapsDone, Swapping, Running
  <2>2. CallsOK'
    BY <1>1, <2>1, LeaveCalls DEF storageVars
  <2>3. Allowed
    BY <1>1, <2>1, NoLessSame, EnterQuietly DEF storageVars
  <2> QED  BY <2>2, <2>3
<1> QED  BY <1>2, <1>3, <1>4, <1>5, <1>6 DEF SwapsNext

-----------------------------------------------------------------------------
(* Flash loans *)

\* What the Vault sends of each of several tokens, nobody else loses.
LEMMA NobodyPays ==
    ASSUME NEW w \in [Tokens -> [Accounts -> Nat]], NEW sent \in SUBSET Tokens,
           NEW n \in [sent -> Nat], NEW v \in Accounts, NEW w2,
           \A t \in sent : n[t] <= w[t][VaultAddress],
           w2 = [t \in Tokens |-> IF t \in sent THEN Transfer(w, t, VaultAddress, v, n[t])[t]
                                                ELSE w[t]]
    PROVE  NoLess(w, w2)
<1> SUFFICES ASSUME NEW u \in Users, NEW t \in Tokens
             PROVE  w2[t][u] >= w[t][u]
  BY DEF NoLess
<1>1. w[t][u] \in Nat
  BY NotUsers
<1>2. CASE t \in sent
  <2> DEFINE k == n[t]
  <2>1. k \in Nat /\ k <= w[t][VaultAddress] /\ VaultAddress \in Accounts \ Users
    BY <1>2, NotUsers
  <2>2. w2[t] = Transfer(w, t, VaultAddress, v, k)[t]
    BY <1>2
  <2> HIDE DEF k
  <2>3. NoLess(w, Transfer(w, t, VaultAddress, v, k))
    BY <2>1, VaultTransfer
  <2> QED  BY <2>2, <2>3 DEF NoLess
<1>3. CASE t \notin sent
  BY <1>1, <1>3
<1> QED  BY <1>2, <1>3

LEMMA FlashLoanCalls ==
    ASSUME CallsInv, IInv', NEW recipient \in Users, NEW lent \in SUBSET Tokens,
           NEW loan \in [Tokens -> Amounts], FlashLoan(recipient, lent, loan)
    PROVE  CallsOK' /\ Allowed
<1> DEFINE f == [fn |-> "flashLoan", caller |-> recipient, lent |-> lent, loan |-> loan,
                 pre |-> [t \in Tokens |-> wallet[t][VaultAddress]], saved |-> Storage]
<1>1. /\ IInv /\ CallsOK /\ Typed /\ Types /\ Types' /\ Amounts \subseteq Nat
      /\ wallet \in [Tokens -> [Accounts -> Nat]] /\ internal \in [Users -> [Tokens -> Nat]]
  BY CallParts
<1>2. /\ Enter(f) /\ ~paused
      /\ UNCHANGED <<paused, registered, assetManager, balances, internal,
                     relayers, approved, signed>>
      /\ \A t \in lent : loan[t] <= wallet[t][VaultAddress]
      /\ wallet' = [t \in Tokens |->
            IF t \in lent THEN Transfer(wallet, t, VaultAddress, recipient, loan[t])[t]
                          ELSE wallet[t]]
  BY DEF FlashLoan
<1>3. Storage \in StorageType
  BY <1>1, StorageParts DEF Typed
<1>4. /\ f \in Frame /\ f.saved = Storage /\ f.fn = "flashLoan"
      /\ f.pre = [t \in Tokens |-> wallet[t][VaultAddress]]
  <2>1. loan \in [Tokens -> Nat]
    BY <1>1
  <2>2. [t \in Tokens |-> wallet[t][VaultAddress]] \in [Tokens -> Nat]
    BY <1>1, NotUsers
  <2> QED  BY <1>3, <2>1, <2>2 DEF Frame, LoanFrame
<1> HIDE DEF f
<1>5. /\ PauseOK(f, Storage') /\ PoolCallOK(f, Storage') /\ SwapCallOK(f, Storage')
      /\ PayerOK(f, Storage')
  BY <1>2, <1>4, StorageFieldsNext DEF PauseOK, PoolCallOK, SwapCallOK, PayerOK
<1>6. LoanOK(f, Storage')
  BY <1>2, <1>4, StorageFields, StorageFieldsNext DEF LoanOK
<1>7. CallsOK'
  BY <1>1, <1>2, <1>4, <1>5, <1>6, EnterCalls
<1>8. NoLess(wallet, wallet')
  <2> DEFINE n == [t \in lent |-> loan[t]]
  <2>1. n \in [lent -> Nat] /\ \A t \in lent : n[t] = loan[t]
    BY <1>1
  <2> HIDE DEF n
  <2>2. wallet' = [t \in Tokens |->
           IF t \in lent THEN Transfer(wallet, t, VaultAddress, recipient, n[t])[t]
                         ELSE wallet[t]]
    BY <1>2, <2>1
  <2>3. recipient \in Accounts /\ \A t \in lent : n[t] <= wallet[t][VaultAddress]
    BY <1>2, <2>1, NotUsers
  <2> QED  BY <1>1, <2>1, <2>2, <2>3, NobodyPays
<1>9. Allowed
  BY <1>1, <1>2, <1>8, EnterQuietly
<1> QED  BY <1>7, <1>9

\* The end of a loan: the books and the Vault's tokens are those of its start.
NeutralStep ==
    FlashLoanRepaid =>
        /\ \A t \in Top.lent : wallet'[t][VaultAddress] = Top.saved.wallet[t][VaultAddress]
        /\ balances = Top.saved.balances /\ internal = Top.saved.internal

LEMMA FlashLoanRepaidCalls ==
    ASSUME CallsInv, IInv', FlashLoanRepaid
    PROVE  CallsOK' /\ Allowed /\ NeutralStep
<1>1. /\ IInv /\ Typed /\ Types /\ Types' /\ StorageSound(registered, assetManager, balances)
      /\ wallet \in [Tokens -> [Accounts -> Nat]] /\ internal \in [Users -> [Tokens -> Nat]]
  BY CallParts
<1>2. /\ stack # <<>> /\ Top.fn = "flashLoan" /\ Leave
      /\ \A t \in Top.lent :
            wallet[t][VaultAddress] >= Top.pre[t] + FlashLoanFeeAmount(Top.loan[t])
      /\ wallet' = [t \in Tokens |->
            IF t \in Top.lent
            THEN Transfer(wallet, t, VaultAddress, Collector,
                          wallet[t][VaultAddress] - Top.pre[t])[t]
            ELSE wallet[t]]
      /\ UNCHANGED <<paused, registered, assetManager, balances, internal,
                     relayers, approved, signed>>
  BY DEF FlashLoanRepaid, Running
<1>3. Top.lent \in SUBSET Tokens /\ Top.pre \in [Tokens -> Nat] /\ Top.loan \in [Tokens -> Nat]
  BY <1>1, <1>2, TopKinds DEF LoanFrame
<1> DEFINE n == [t \in Top.lent |-> wallet[t][VaultAddress] - Top.pre[t]]
<1>4. ASSUME NEW t \in Top.lent
      PROVE  /\ n[t] \in Nat /\ n[t] <= wallet[t][VaultAddress]
             /\ wallet[t][VaultAddress] - n[t] = Top.pre[t]
  <2>1. wallet[t][VaultAddress] \in Nat /\ Top.pre[t] \in Nat /\ Top.loan[t] \in Nat
    BY <1>1, <1>3, NotUsers
  <2>2. FlashLoanFeeAmount(Top.loan[t]) \in Nat
    BY <2>1, FeeType
  <2> QED  BY <1>2, <2>1, <2>2
<1>5. n \in [Top.lent -> Nat]
  BY <1>4
<1>6. wallet' = [t \in Tokens |->
         IF t \in Top.lent THEN Transfer(wallet, t, VaultAddress, Collector, n[t])[t]
                           ELSE wallet[t]]
  BY <1>2, <1>3
<1> HIDE DEF n
<1>7. NoLess(wallet, wallet')
  BY <1>1, <1>3, <1>4, <1>5, <1>6, NotUsers, NobodyPays
<1>8. ASSUME NEW t \in Top.lent
      PROVE  wallet'[t][VaultAddress] = Top.pre[t]
  <2> DEFINE k == n[t]
  <2>1. t \in Tokens /\ k \in Nat /\ k <= wallet[t][VaultAddress]
        /\ wallet[t][VaultAddress] - k = Top.pre[t]
    BY <1>3, <1>4
  <2>2. wallet'[t] = Transfer(wallet, t, VaultAddress, Collector, k)[t]
    BY <1>6, <2>1
  <2> HIDE DEF k
  <2>3. Transfer(wallet, t, VaultAddress, Collector, k)[t][VaultAddress]
          = wallet[t][VaultAddress] - k
    BY <1>1, <2>1, VaultPaysFee
  <2> QED  BY <2>1, <2>2, <2>3
<1>9. /\ balances = Top.saved.balances /\ internal = Top.saved.internal
      /\ \A t \in Tokens : Top.pre[t] = Top.saved.wallet[t][VaultAddress]
  BY <1>2, CallParts, StorageFields DEF FrameOK, SavedOK, LoanOK
<1>10. NeutralStep
  BY <1>3, <1>8, <1>9 DEF NeutralStep
<1>11. CallsOK'
  BY <1>1, <1>2, LeaveCalls
<1>12. Allowed
  BY <1>1, <1>2, <1>7, EnterQuietly
<1> QED  BY <1>10, <1>11, <1>12

LEMMA FlashLoansCalls ==
    ASSUME CallsInv, IInv', FlashLoansNext
    PROVE  CallsOK' /\ Allowed
BY FlashLoanCalls, FlashLoanRepaidCalls DEF FlashLoansNext

-----------------------------------------------------------------------------
(* The invariant holds initially and is preserved *)

LEMMA InitCalls == Init => CallsInv
<1> SUFFICES ASSUME Init  PROVE  CallsInv
  OBVIOUS
<1>1. /\ stack = <<>>
      /\ balances = [p \in Pools |-> [t \in Tokens |-> [cash |-> 0, managed |-> 0]]]
      /\ assetManager = [p \in Pools |-> [t \in Tokens |-> NoManager]]
  BY DEF Init
<1>2. StorageSound(registered, assetManager, balances)
  BY <1>1, AmountsAssumption DEF StorageSound
<1> QED  BY <1>1, <1>2, InitIInv DEF CallsInv, CallsOK

LEMMA StepCalls ==
    ASSUME CallsInv, [Next]_vars
    PROVE  CallsInv' /\ (Next => Allowed)
<1>1. IInv'
  BY NextIInv DEF CallsInv
<1>2. CASE PoolTokensNext
  BY <1>1, <1>2, PoolTokensCalls DEF CallsInv
<1>3. CASE PoolBalancesNext
  BY <1>1, <1>3, PoolBalancesCalls DEF CallsInv
<1>4. CASE SwapsNext
  BY <1>1, <1>4, SwapsCalls DEF CallsInv
<1>5. CASE FlashLoansNext
  BY <1>1, <1>5, FlashLoansCalls DEF CallsInv
<1>6. CASE AssetManagersNext
  BY <1>1, <1>6, AssetManagersCalls DEF CallsInv
<1>7. CASE UserBalanceNext
  BY <1>1, <1>7, UserBalanceCalls DEF CallsInv
<1>8. CASE AuthorizationNext
  BY <1>1, <1>8, AuthorizationCalls DEF CallsInv
<1>9. CASE EnvironmentNext
  BY <1>1, <1>9, EnvironmentCalls DEF CallsInv
<1>10. CASE ~Next
  <2>1. UNCHANGED vars
    BY <1>10
  <2> QED  BY <1>1, <1>10, <2>1 DEF CallsInv, CallsOK, vars, storageVars, Storage, Top
<1> QED  BY <1>2, <1>3, <1>4, <1>5, <1>6, <1>7, <1>8, <1>9, <1>10 DEF Next

LEMMA CallsInvariance == Spec => []CallsInv
<1>1. Init => CallsInv
  BY InitCalls
<1>2. CallsInv /\ [Next]_vars => CallsInv'
  BY StepCalls
<1> QED  BY <1>1, <1>2, PTL DEF Spec

-----------------------------------------------------------------------------
(* The theorems *)

\* Deregistering strands nothing: a token that a Pool has not registered has no
\* balance of that Pool and no asset manager.
THEOREM NothingStranded == Spec => []UnregisteredIsEmpty
<1>1. CallsInv => UnregisteredIsEmpty
  BY DEF CallsInv, CallsOK, StorageSound, UnregisteredIsEmpty
<1> QED  BY <1>1, CallsInvariance, PTL

\* No word of a Pool's balance ever overflows its 112 bits.
THEOREM WordsFit == Spec => []BalancesFit
<1>1. CallsInv => BalancesFit
  BY DEF CallsInv, CallsOK, StorageSound, BalancesFit
<1> QED  BY <1>1, CallsInvariance, PTL

\* A flash loan ends with the tokens and the books it began with, whatever its
\* recipient called meanwhile; only the fee has moved.
THEOREM LoansAreNeutral == Spec => FlashLoanIsNeutral
<1>1. CallsInv /\ [Next]_vars => [NeutralStep]_vars
  <2>1. CallsInv /\ [Next]_vars /\ FlashLoanRepaid => NeutralStep
    BY StepCalls, FlashLoanRepaidCalls DEF CallsInv
  <2> QED  BY <2>1 DEF NeutralStep
<1> QED  BY <1>1, CallsInvariance, PTL DEF Spec, FlashLoanIsNeutral, NeutralStep

\* While the Vault is paused, nobody pays in, no Pool gains, and nothing that
\* governs them changes.
THEOREM OnlyExitsWhilePaused == Spec => PauseOnlyLetsOut
<1>1. CallsInv /\ [Next]_vars => [PauseStep]_vars
  BY StepCalls DEF Allowed
<1> QED  BY <1>1, CallsInvariance, PTL DEF Spec, PauseOnlyLetsOut, PauseStep

\* Nobody's tokens or Internal Balance are taken without consent.
THEOREM DebitsHaveConsent == Spec => DebitNeedsConsent
<1>1. CallsInv /\ [Next]_vars => [DebitStep]_vars
  BY StepCalls DEF Allowed
<1> QED  BY <1>1, CallsInvariance, PTL DEF Spec, DebitNeedsConsent, DebitStep

\* A managed balance is changed only by an operation whose sender is the asset
\* manager of the Pool's token, never in the middle of a call, and what moves
\* between cash and managed moves between the Vault and that manager.
THEOREM ManagersManage == Spec => ManagedIsTheManagers
<1>1. CallsInv /\ [Next]_vars => [ManagedStep]_vars
  BY StepCalls DEF Allowed
<1> QED  BY <1>1, CallsInvariance, PTL DEF Spec, ManagedIsTheManagers, ManagedStep
=============================================================================
