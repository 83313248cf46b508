SPECIFICATION Spec
CONSTANTS
    Amounts = {1}
    Opening = 2
    MaxDebts = 1
    MaxRecords = 3
    MaxPayments = 2
    MaxInterrupts = 1
INVARIANT DebtsBalance
