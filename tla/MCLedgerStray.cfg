SPECIFICATION Spec
CONSTANTS
    Amounts = {1}
    Initials = {3}
    MaxWallets = 2
    MaxRecords = 5
    MaxTransfers = 2
INVARIANT NoStrayCommission
