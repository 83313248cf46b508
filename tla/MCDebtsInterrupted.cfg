SPECIFICATION Spec
CONSTANTS
    Amounts = {1}
    Opening = 2
    MaxDebts = 2
    MaxRecords = 4
    MaxPayments = 2
    MaxInterrupts = 1
INVARIANTS
    TypeOK
    ClosedIffSettled
    LinksAgree
