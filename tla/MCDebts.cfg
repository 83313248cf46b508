SPECIFICATION Spec
CONSTANTS
    Amounts = {1, 2}
    Opening = 2
    MaxDebts = 2
    MaxRecords = 3
    MaxPayments = 2
    MaxInterrupts = 0
INVARIANTS
    DebtsBalance
PROPERTIES
    DeletesThePaymentAsked
    SavesTheSameDebt
