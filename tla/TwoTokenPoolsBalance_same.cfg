SPECIFICATION TwoTokenSpec
CONSTANTS
    Tokens = {1, 2, 3}
    Amounts = {0, 1, 2}
    Limit = 3
    MaxBlock = 3
    DistinctTokens = FALSE
INVARIANTS TwoTokenNonZeroIsRegistered
