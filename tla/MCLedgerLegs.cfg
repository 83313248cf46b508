SPECIFICATION Spec
CONSTANTS
    Amounts = {1}
    Initials = {2}
    MaxWallets = 2
    MaxRecords = 3
    MaxTransfers = 1
INVARIANT EveryTransferHasTwoLegs
