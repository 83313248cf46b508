-------------------------------- MODULE Debts -------------------------------
(***************************************************************************)
(* Debts and loans, their payments, and the cashflow records that both     *)
(* leave in the ledger (services/planning/debts over the SQLite            *)
(* repository).                                                            *)
(*                                                                         *)
(* Every operation runs inside "with repo.transaction()", but each         *)
(* repository call in it opens "with conn" again and commits when it       *)
(* leaves: an operation is a sequence of commits, one step each here, and  *)
(* it can be cut off between any two of them, by an exception or by the    *)
(* end of the process.  Deletions renumber the ids of every table in a     *)
(* commit of their own, and that renumbering also looks for a record for   *)
(* each payment that has none.                                             *)
(*                                                                         *)
(* One wallet that must not go negative, one contact, one day: the         *)
(* re-linking compares dates, and equal dates are its hardest case.        *)
(***************************************************************************)
EXTENDS Tables, FiniteSetsExt, Functions
Audit == INSTANCE Audit

CONSTANTS
    Amounts,       \* the amounts an operation may be entered with
    Opening,       \* the initial balance of the wallet
    MaxDebts, MaxRecords, MaxPayments,   \* bounds: rows of the tables
    MaxInterrupts  \* bound: operations cut off between two of their commits

ASSUME DebtsAssumption ==
    /\ Amounts \subseteq Nat \ {0} /\ Opening \in Nat
    /\ MaxDebts \in Nat /\ MaxRecords \in Nat /\ MaxPayments \in Nat
    /\ MaxInterrupts \in Nat

VARIABLES
    debts,      \* id -> [kind, total, remaining, status]
    records,    \* id -> [kind, debt, amount]: the records of the wallet that came from debts
    payments,   \* id -> [debt, record, type, amount]
    seq,        \* the AUTOINCREMENT counters of the three tables
    op,         \* the operation under way: its next commit and its local variables
    interrupts  \* operations cut off so far

tables == <<debts, records, payments, seq>>
vars   == <<tables, op, interrupts>>

None == 0       \* NULL in related_debt_id and record_id

DebtRow    == [kind : {"debt", "loan"}, total : Nat \ {0}, remaining : Nat,
               status : {"open", "closed"}]
RecordRow  == [kind : {"income", "expense"}, debt : Nat, amount : Nat \ {0}]
PaymentRow == [debt : Nat \ {0}, record : Nat,
               type : {"debt_repay", "loan_collect", "debt_forgive"}, amount : Nat \ {0}]

\* The commit an operation makes next.
Stage == {"idle", "open_record", "payment", "settle", "renumber",
          "renumber_then_delete", "delete_payment", "renumber_then_reopen", "reopen"}

Idle == [at |-> "idle"]

-----------------------------------------------------------------------------
Cash ==
    LET Signed(i) == IF records[i].kind = "income" THEN records[i].amount ELSE -records[i].amount
    IN  Opening + MapThenSumSet(Signed, DOMAIN records)

CanSpend(amount) == Cash - amount >= 0

\* The record a debt or loan is opened with, and the one its cash payments leave.
OpenKind(kind) == IF kind = "debt" THEN "income" ELSE "expense"
PayKind(kind)  == IF kind = "debt" THEN "expense" ELSE "income"
PayType(kind)  == IF kind = "debt" THEN "debt_repay" ELSE "loan_collect"

\* The kind of record a payment needs; a write-off needs none.
ExpectedKinds(type) ==
    CASE type = "debt_repay"   -> {"expense"}
      [] type = "loan_collect" -> {"income"}
      [] type = "debt_forgive" -> {}

PaymentsOf(d) == {p \in DOMAIN payments : payments[p].debt = d}

Paid(d) == LET Amount(p) == payments[p].amount IN MapThenSumSet(Amount, PaymentsOf(d))

\* The debt after a payment of amount, and the debt with the status its remainder asks for.
WithRemaining(row, remaining) ==
    [row EXCEPT !.remaining = remaining,
                !.status = IF remaining = 0 THEN "closed" ELSE "open"]

ApplyPayment(row, amount) ==
    WithRemaining(row, IF row.remaining >= amount THEN row.remaining - amount ELSE 0)

\* (Mutants of Reopened: only the status changes; only the remainder changes.)
ReopenedUnpaid(row, amount) == [row EXCEPT !.status = "open"]
StillClosed(row, amount) ==
    [row EXCEPT !.remaining = IF @ + amount <= row.total THEN @ + amount ELSE row.total]

\* The debt after a payment is taken back: never more than the total; open if anything remains.
Reopened(row, amount) ==
    LET restored == IF row.remaining + amount <= row.total THEN row.remaining + amount
                    ELSE row.total
    IN  [row EXCEPT !.remaining = restored,
                    !.status = IF restored > 0 THEN "open" ELSE row.status]

\* An insertion takes the next value of the table's counter.
InsertDebt(row) ==
    debts' = With(debts, seq.debts + 1, row) /\ seq' = [seq EXCEPT !.debts = @ + 1]
InsertRecord(row) ==
    records' = With(records, seq.records + 1, row) /\ seq' = [seq EXCEPT !.records = @ + 1]
InsertPayment(row) ==
    payments' = With(payments, seq.payments + 1, row) /\ seq' = [seq EXCEPT !.payments = @ + 1]

\* save_debt: an update when the id has a row, else an insertion under a new id.
SaveDebt(d, row) ==
    \/ d \in DOMAIN debts /\ debts' = [debts EXCEPT ![d] = row] /\ UNCHANGED seq
    \/ d \notin DOMAIN debts /\ InsertDebt(row)

-----------------------------------------------------------------------------
(***************************************************************************)
(* Deletions of rows, with what the foreign keys do about references:      *)
(* payments lose a deleted record (SET NULL); a deleted debt takes its     *)
(* payments (CASCADE) and leaves its records (SET NULL).                   *)
(***************************************************************************)
\* (Mutant of Unlink: payments keep the id of a deleted record.)
LinkedStill(S) == payments

Unlink(S) == [p \in DOMAIN payments |->
                 IF payments[p].record \in S THEN [payments[p] EXCEPT !.record = None]
                 ELSE payments[p]]

DropRecords(S) ==
    /\ records' = Without(records, S)
    /\ payments' = Unlink(S)
    /\ UNCHANGED debts

DropDebt(d) ==
    /\ debts' = Without(debts, {d})
    /\ payments' = Without(payments, PaymentsOf(d))
    /\ records' = [i \in DOMAIN records |->
                      IF records[i].debt = d THEN [records[i] EXCEPT !.debt = None]
                      ELSE records[i]]

(***************************************************************************)
(* The renumbering (replace_all_data): first every payment without a       *)
(* record gets, in id order, the first record of its debt with its amount  *)
(* and kind that no payment holds; then the tables are inserted again in   *)
(* id order and the references mapped.                                     *)
(***************************************************************************)
\* (Mutant of Candidates: records of any debt are tried.)
CandidatesOfAnyDebt(p) ==
    {i \in DOMAIN records : /\ records[i].amount = payments[p].amount
                            /\ records[i].kind \in ExpectedKinds(payments[p].type)}

Candidates(p) ==
    {i \in DOMAIN records : /\ records[i].debt = payments[p].debt
                            /\ records[i].amount = payments[p].amount
                            /\ records[i].kind \in ExpectedKinds(payments[p].type)}

RestoredLinks ==
    LET ids  == DOMAIN payments
        link[k \in 0 .. Cardinality(ids)] ==
            IF k = 0 THEN [p \in ids |-> payments[p].record]
            ELSE LET p    == Nth(ids, k)
                     free == Candidates(p) \ Range(link[k - 1])
                 IN  IF link[k - 1][p] # None \/ free = {} THEN link[k - 1]
                     ELSE [link[k - 1] EXCEPT ![p] = Min(free)]
    IN  link[Cardinality(ids)]

Renumbering ==
    /\ debts' = Reinserted(debts)
    /\ records' = Reinserted([i \in DOMAIN records |->
                     [records[i] EXCEPT !.debt = Rank(DOMAIN debts, records[i].debt)]])
    /\ payments' = Reinserted([p \in DOMAIN payments |->
                     [payments[p] EXCEPT
                        !.debt = Rank(DOMAIN debts, payments[p].debt),
                        !.record = Rank(DOMAIN records, RestoredLinks[p])]])
    /\ seq' = [debts |-> Cardinality(DOMAIN debts), records |-> Cardinality(DOMAIN records),
               payments |-> Cardinality(DOMAIN payments)]

IdsNormalized == Dense(DOMAIN debts) /\ Dense(DOMAIN records) /\ Dense(DOMAIN payments)

-----------------------------------------------------------------------------
Init ==
    /\ debts = [d \in {} |-> {}]
    /\ records = [i \in {} |-> {}]
    /\ payments = [p \in {} |-> {}]
    /\ seq = [debts |-> 0, records |-> 0, payments |-> 0]
    /\ op = Idle
    /\ interrupts = 0

\* The bound of a table; a row more on the counter leaves room for a gap.
Room(tbl, last, max) == Cardinality(DOMAIN tbl) < max /\ last <= max

RoomForDebt    == Room(debts, seq.debts, MaxDebts)
RoomForRecord  == Room(records, seq.records, MaxRecords)
RoomForPayment == Room(payments, seq.payments, MaxPayments)

(***************************************************************************)
(* create_debt and create_loan: the debt, then its opening record.         *)
(***************************************************************************)
CreateObligation(kind, amount) ==
    /\ op = Idle
    /\ RoomForDebt /\ RoomForRecord
    /\ kind = "loan" => CanSpend(amount)
    /\ LET row == [kind |-> kind, total |-> amount, remaining |-> amount, status |-> "open"]
       IN  /\ InsertDebt(row)
           /\ op' = [at |-> "open_record", debt |-> MaxId(DOMAIN debts'), kind |-> kind,
                     amount |-> amount]
    /\ UNCHANGED <<records, payments, interrupts>>

SaveOpenRecord ==
    /\ op.at = "open_record"
    /\ InsertRecord([kind |-> OpenKind(op.kind), debt |-> op.debt, amount |-> op.amount])
    /\ op' = Idle
    /\ UNCHANGED <<debts, payments, interrupts>>

(***************************************************************************)
(* register_payment: the record, the payment that names it, the debt.      *)
(* register_write_off: the payment, the debt.  close_debt is one of them   *)
(* with the whole remainder.                                               *)
(***************************************************************************)
PaymentOp(d, type, amount) ==
    [at |-> "payment", debt |-> d, type |-> type, amount |-> amount,
     row |-> ApplyPayment(debts[d], amount)]

RegisterPayment(d, amount) ==
    /\ op = Idle
    /\ RoomForRecord /\ RoomForPayment
    /\ amount <= debts[d].remaining
    /\ debts[d].kind = "debt" => CanSpend(amount)
    /\ InsertRecord([kind |-> PayKind(debts[d].kind), debt |-> d, amount |-> amount])
    /\ op' = PaymentOp(d, PayType(debts[d].kind), amount)
    /\ UNCHANGED <<debts, payments, interrupts>>

SavePaymentRow ==
    InsertPayment(
        [debt |-> op.debt, type |-> op.type, amount |-> op.amount,
         record |-> IF op.type = "debt_forgive" THEN None ELSE MaxId(DOMAIN records)])

SavePayment ==
    /\ op.at = "payment"
    /\ SavePaymentRow
    /\ op' = [op EXCEPT !.at = "settle"]
    /\ UNCHANGED <<debts, records, interrupts>>

RegisterWriteOff(d, amount) ==
    /\ op = Idle
    /\ RoomForPayment
    /\ amount <= debts[d].remaining
    /\ InsertPayment([debt |-> d, type |-> "debt_forgive", amount |-> amount, record |-> None])
    /\ op' = [PaymentOp(d, "debt_forgive", amount) EXCEPT !.at = "settle"]
    /\ UNCHANGED <<debts, records, interrupts>>

Settle ==
    /\ op.at = "settle"
    /\ SaveDebt(op.debt, op.row)
    /\ op' = Idle
    /\ UNCHANGED <<records, payments, interrupts>>

(***************************************************************************)
(* delete_payment: the debt as it will be is computed first; then, if the  *)
(* user asks for it, the linked record is deleted and everything           *)
(* renumbered; then the payment is deleted by the id it had at the start   *)
(* and everything renumbered; then the debt is saved under its old id.     *)
(***************************************************************************)
\* (Mutant of DeletionOp: the id of the payment stands for the id of its debt.)
DeletionOpById(p, stage) ==
    [at |-> stage, payment |-> p, amount |-> payments[p].amount, debt |-> p,
     row |-> Reopened(debts[payments[p].debt], payments[p].amount)]

DeletionOp(p, stage) ==
    [at |-> stage, payment |-> p, amount |-> payments[p].amount, debt |-> payments[p].debt,
     row |-> Reopened(debts[payments[p].debt], payments[p].amount)]

DropPayment(p, o) ==
    /\ p \in DOMAIN payments
    /\ payments' = Without(payments, {p})
    /\ op' = [o EXCEPT !.at = "renumber_then_reopen"]
    /\ UNCHANGED <<debts, records, seq, interrupts>>

DeletePayment(p, withRecord) ==
    /\ op = Idle
    /\ IF withRecord /\ payments[p].record # None
       THEN /\ DropRecords({payments[p].record})
            /\ op' = DeletionOp(p, "renumber_then_delete")
            /\ UNCHANGED <<seq, interrupts>>
       ELSE DropPayment(p, DeletionOp(p, "delete_payment"))

RenumberThenDelete ==
    /\ op.at = "renumber_then_delete"
    /\ Renumbering
    /\ op' = [op EXCEPT !.at = "delete_payment"]
    /\ UNCHANGED interrupts

DeletePaymentRow == op.at = "delete_payment" /\ DropPayment(op.payment, op)

\* "Debt payment not found": the id was renumbered away.
DeletePaymentRaises ==
    /\ op.at = "delete_payment"
    /\ op.payment \notin DOMAIN payments
    /\ op' = Idle
    /\ UNCHANGED <<tables, interrupts>>

RenumberThenReopen ==
    /\ op.at = "renumber_then_reopen"
    /\ Renumbering
    /\ op' = [op EXCEPT !.at = "reopen"]
    /\ UNCHANGED interrupts

Reopen ==
    /\ op.at = "reopen"
    /\ SaveDebt(op.debt, op.row)
    /\ op' = Idle
    /\ UNCHANGED <<records, payments, interrupts>>

(***************************************************************************)
(* delete_debt, recalculate_debt, and what the user may do to the records  *)
(* of a debt elsewhere: delete one, edit its amount, delete them all.      *)
(***************************************************************************)
RenumberOp == [at |-> "renumber"]

DeleteDebt(d) ==
    /\ op = Idle
    /\ DropDebt(d)
    /\ op' = RenumberOp
    /\ UNCHANGED <<seq, interrupts>>

RecalculateDebt(d) ==
    /\ op = Idle
    /\ debts' = [debts EXCEPT ![d] =
                    WithRemaining(@, IF Paid(d) <= debts[d].total THEN debts[d].total - Paid(d)
                                     ELSE 0)]
    /\ UNCHANGED <<records, payments, seq, op, interrupts>>

DeleteRecord(i) ==
    /\ op = Idle
    /\ DropRecords({i})
    /\ op' = RenumberOp
    /\ UNCHANGED <<seq, interrupts>>

UpdateRecordInline(i, amount) ==
    /\ op = Idle
    /\ records' = [records EXCEPT ![i].amount = amount]
    /\ UNCHANGED <<debts, payments, seq, op, interrupts>>

DeleteAllRecords ==
    /\ op = Idle
    /\ DropRecords(DOMAIN records)
    /\ seq' = [seq EXCEPT !.records = 0]
    /\ UNCHANGED <<op, interrupts>>

RenumberLast ==
    /\ op.at = "renumber"
    /\ Renumbering
    /\ op' = Idle
    /\ UNCHANGED interrupts

(***************************************************************************)
(* An operation is cut off between two commits: what is committed stays.   *)
(* After an exception the program goes on; after a crash it is started     *)
(* again, and the constructor of the repository renumbers ids that are not *)
(* dense.                                                                  *)
(***************************************************************************)
Interrupt ==
    /\ op # Idle
    /\ interrupts < MaxInterrupts
    /\ op' = Idle
    /\ interrupts' = interrupts + 1
    /\ UNCHANGED tables

Restart ==
    /\ op = Idle
    /\ ~ IdsNormalized
    /\ Renumbering
    /\ UNCHANGED <<op, interrupts>>

-----------------------------------------------------------------------------
Commit ==
    \/ SaveOpenRecord \/ SavePayment \/ Settle
    \/ RenumberThenDelete \/ DeletePaymentRow \/ DeletePaymentRaises
    \/ RenumberThenReopen \/ Reopen \/ RenumberLast

Next ==
    \/ \E kind \in {"debt", "loan"}, amount \in Amounts : CreateObligation(kind, amount)
    \/ \E d \in DOMAIN debts, amount \in Amounts :
          RegisterPayment(d, amount) \/ RegisterWriteOff(d, amount)
    \/ \E p \in DOMAIN payments, withRecord \in BOOLEAN : DeletePayment(p, withRecord)
    \/ \E d \in DOMAIN debts : DeleteDebt(d) \/ RecalculateDebt(d)
    \/ \E i \in DOMAIN records : DeleteRecord(i)
    \/ \E i \in DOMAIN records, amount \in Amounts : UpdateRecordInline(i, amount)
    \/ DeleteAllRecords
    \/ Commit
    \/ Interrupt
    \/ Restart

Spec == Init /\ [][Next]_vars

-----------------------------------------------------------------------------
(***************************************************************************)
(* Properties.                                                             *)
(***************************************************************************)

\* Every variable has its type; references resolve, and a debt stays within its total (the
\* foreign keys and CHECKs of the schema).
TypeOK ==
    /\ seq \in [debts : Nat, records : Nat, payments : Nat]
    /\ DOMAIN debts \subseteq 1 .. seq.debts
    /\ DOMAIN records \subseteq 1 .. seq.records
    /\ DOMAIN payments \subseteq 1 .. seq.payments
    /\ debts \in [DOMAIN debts -> DebtRow]
    /\ \A d \in DOMAIN debts : debts[d].remaining <= debts[d].total
    /\ records \in [DOMAIN records -> RecordRow]
    /\ \A i \in DOMAIN records : records[i].debt \in DOMAIN debts \cup {None}
    /\ payments \in [DOMAIN payments -> PaymentRow]
    /\ \A p \in DOMAIN payments : /\ payments[p].debt \in DOMAIN debts
                                  /\ payments[p].record \in DOMAIN records \cup {None}
    /\ op.at \in Stage
    /\ interrupts \in 0 .. MaxInterrupts

\* A debt is closed exactly when nothing remains of it, at every commit: paid off, written off,
\* reopened by the deletion of a payment, recalculated, or cut off in the middle of any of these.
ClosedIffSettled == Audit!StatusFindings(debts) = {}

\* What a cash payment is linked to is a record of its own debt and of the kind a payment of that
\* debt leaves, and no two payments share one: through re-linking, renumbering and restarts.
LinksAgree ==
    /\ \A p \in DOMAIN payments :
          LET r == payments[p].record
          IN  r # None => /\ records[r].debt = payments[p].debt
                          /\ records[r].kind \in ExpectedKinds(payments[p].type)
    /\ \A p, q \in DOMAIN payments :
          p # q /\ payments[p].record # None => payments[p].record # payments[q].record

\* Between operations, what was borrowed is what remains plus what was paid: the balance
\* decomposition that check_debt_balance_integrity of the audit asks of every debt.
DebtsBalance ==
    op = Idle => Audit!BalanceFindings(debts, payments) = {}

\* The payment delete_payment deletes is the one the user asked for, of the amount its debt is
\* reopened by, whatever the renumbering after the deletion of its record did to ids.
DeletesThePaymentAsked ==
    [][op.at = "delete_payment" /\ op'.at = "renumber_then_reopen" =>
         /\ payments[op.payment].amount = op.amount
         /\ payments[op.payment].debt = op.debt]_vars

\* The debt that is saved at the end of an operation is the one it was computed from: the save
\* never gives another debt's id new terms, and never brings a deleted debt back.
SavesTheSameDebt ==
    [][op.at \in {"settle", "reopen"} /\ op' = Idle /\ interrupts' = interrupts =>
         /\ op.debt \in DOMAIN debts
         /\ debts[op.debt].kind = op.row.kind /\ debts[op.debt].total = op.row.total]_vars
=============================================================================
