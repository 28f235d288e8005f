SPECIFICATION Spec
CONSTANTS
    Tokens = {1, 2, 3}
    Amounts = {0, 1}
    Limit = 3
    MaxBlock = 2
    DistinctTokens = TRUE
INVARIANTS StorageIsSound
PROPERTIES LayoutsKeepLedger ChangesAreRecorded
