SPECIFICATION FairSpec
CONSTANTS
    Amounts = {1}
    Initials = {2}
    MaxWallets = 2
    MaxRecords = 5
    MaxTransfers = 2
INVARIANTS
    TypeOK
    LegsMatchTransfer
    AtMostOneGapAtRest
    RefusedOnlyAfterWipe
PROPERTIES
    StartNormalizes
    RenumberingKeepsBooks
    DeletionGapCloses

    WalletsStayCovered
    InactiveGetsNothingNew
