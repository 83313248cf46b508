------------------------------- MODULE Ledger -------------------------------
(***************************************************************************)
(* The ledger of the application: wallets, cashflow records and transfers  *)
(* between wallets, as the SQLite repository stores them and as the use    *)
(* cases change them.                                                      *)
(*                                                                         *)
(* A transfer is stored twice over: a row of transfers and two rows of     *)
(* records (an expense of the source, an income of the target) that point  *)
(* at it; its commission, if any, is a third record that is tied to it     *)
(* only by the text "[transfer:<id>]" of its description.  Ids are not     *)
(* stable: most deletions end by numbering every table from 1 again.       *)
(*                                                                         *)
(* One action is one commit.  DeleteRecord needs two commits (the row,     *)
(* then the renumbering), and the process may die between them.            *)
(*                                                                         *)
(* Amounts are base-currency minor units; dates, categories, tags, debts   *)
(* and mandatory templates are abstracted away.                            *)
(***************************************************************************)
EXTENDS Tables, FiniteSetsExt

CONSTANTS
    Amounts,       \* the amounts an operation may be entered with
    Initials,      \* the initial balances a wallet may be created with
    MaxWallets,    \* bound: wallets created by the user, the system one included
    MaxRecords,    \* bound: rows of records, and the value of their counter
    MaxTransfers   \* bound: rows of transfers

ASSUME LedgerAssumption ==
    /\ Amounts \subseteq Nat \ {0}
    /\ Initials \subseteq Nat
    /\ MaxWallets \in Nat \ {0} /\ MaxRecords \in Nat /\ MaxTransfers \in Nat

VARIABLES
    wallets,     \* id -> [active, neg, initial]; rows are never deleted
    records,     \* id -> [kind, wallet, amount, transfer, mark]
    transfers,   \* id -> [from, to, amount]
    recSeq,      \* the AUTOINCREMENT counter of records
    phase        \* what the process is doing

vars == <<wallets, records, transfers, recSeq, phase>>

SystemWallet == 1
NoTransfer   == 0     \* transfer_id IS NULL
NoMark       == 0     \* not a commission, or its description names no transfer

Wallet   == [active : BOOLEAN, neg : BOOLEAN, initial : Nat]
Record   == [kind : {"income", "expense"}, wallet : Nat \ {0}, amount : Nat,
             transfer : Nat, mark : Nat]
Transfer == [from : Nat \ {0}, to : Nat \ {0}, amount : Nat]

Phase == {"idle",         \* waiting for the user
          "renumbering",  \* a record was deleted and committed, ids not yet renumbered
          "down",         \* the process is not running
          "refused"}      \* the last start ended in an integrity error

(***************************************************************************)
(* Reading the books.                                                      *)
(***************************************************************************)
Signed(r) == IF r.kind = "income" THEN r.amount ELSE -r.amount

BalanceIn(recs, w) ==
    LET Amount(i) == Signed(recs[i])
    IN  wallets[w].initial
          + MapThenSumSet(Amount, {i \in DOMAIN recs : recs[i].wallet = w})

Balance(w) == BalanceIn(records, w)

\* (Mutant of CanSpend: the balance before the operation is checked, not the one after it.)
CanSpendAlready(recs, w, amount) == wallets[w].neg \/ BalanceIn(recs, w) >= 0

\* The wallet may be debited by amount, given the records recs.
CanSpend(recs, w, amount) == wallets[w].neg \/ BalanceIn(recs, w) - amount >= 0

Legs(recs, t) == {i \in DOMAIN recs : recs[i].transfer = t}

\* A commission is recognised by the id in its description, not by a reference.
IsCommissionFor(r, t) == r.transfer = NoTransfer /\ r.mark = t

Commissions(recs, t) == {i \in DOMAIN recs : IsCommissionFor(recs[i], t)}

(***************************************************************************)
(* What every bulk rewrite validates before it touches the tables.         *)
(***************************************************************************)
HasTwoLegs(recs, t) ==
    /\ Cardinality(Legs(recs, t)) = 2
    /\ {recs[i].kind : i \in Legs(recs, t)} = {"income", "expense"}

ValidTransfers(recs, trs) ==
    /\ \A i \in DOMAIN recs :
          recs[i].transfer # NoTransfer => recs[i].transfer \in DOMAIN trs
    /\ \A t \in DOMAIN trs : HasTwoLegs(recs, t)

(***************************************************************************)
(* The bulk rewrite: both tables are emptied and inserted again in id      *)
(* order; transfer_id is mapped to the new id, the id inside a commission  *)
(* description is text and stays as it is.  Wallets are rewritten too by   *)
(* replace_all_data, but they are never deleted, so their ids are already  *)
(* dense and come back the same.                                           *)
(***************************************************************************)
\* (Mutant of RelinkedRecords: transfer_id keeps the old id.)
UnlinkedRecords(recs, trs) == recs

RelinkedRecords(recs, trs) ==
    [i \in DOMAIN recs |->
        [recs[i] EXCEPT !.transfer = Rank(DOMAIN trs, @)]]

Rewrite(recs, trs) ==
    /\ ValidTransfers(recs, trs)
    /\ records' = Reinserted(RelinkedRecords(recs, trs))
    /\ transfers' = Reinserted(trs)
    /\ recSeq' = Cardinality(DOMAIN recs)

-----------------------------------------------------------------------------
Init ==
    /\ wallets = [w \in {SystemWallet} |-> [active |-> TRUE, neg |-> FALSE, initial |-> 0]]
    /\ records = [i \in {} |-> {}]
    /\ transfers = [t \in {} |-> {}]
    /\ recSeq = 0
    /\ phase = "idle"

(***************************************************************************)
(* Wallets.                                                                *)
(***************************************************************************)
CreateWallet(neg, initial) ==
    /\ phase = "idle"
    /\ Cardinality(DOMAIN wallets) < MaxWallets
    /\ wallets' = With(wallets, Cardinality(DOMAIN wallets) + 1,
                       [active |-> TRUE, neg |-> neg, initial |-> initial])
    /\ UNCHANGED <<records, transfers, recSeq, phase>>

\* (Mutant of SoftDeleteWallet: the row is removed.)
HardDeleteWallet(w) ==
    /\ phase = "idle"
    /\ w # SystemWallet
    /\ Balance(w) = 0
    /\ wallets' = Without(wallets, {w})
    /\ UNCHANGED <<records, transfers, recSeq, phase>>

SoftDeleteWallet(w) ==
    /\ phase = "idle"
    /\ w # SystemWallet
    /\ Balance(w) = 0
    /\ wallets' = [wallets EXCEPT ![w].active = FALSE]
    /\ UNCHANGED <<records, transfers, recSeq, phase>>

(***************************************************************************)
(* Single records.  A new row gets the next value of the counter.          *)
(***************************************************************************)
SaveRecord(r) ==
    /\ recSeq < MaxRecords
    /\ records' = With(records, recSeq + 1, r)
    /\ recSeq' = recSeq + 1
    /\ UNCHANGED <<wallets, transfers, phase>>

Plain(kind, w, amount) ==
    [kind |-> kind, wallet |-> w, amount |-> amount,
     transfer |-> NoTransfer, mark |-> NoMark]

\* (Mutant of CreateIncome: the wallet may be inactive.)
CreateIncomeAnywhere(w, amount) ==
    /\ phase = "idle"
    /\ SaveRecord(Plain("income", w, amount))

CreateIncome(w, amount) ==
    /\ phase = "idle"
    /\ wallets[w].active
    /\ SaveRecord(Plain("income", w, amount))

CreateExpense(w, amount) ==
    /\ phase = "idle"
    /\ wallets[w].active
    /\ CanSpend(records, w, amount)
    /\ SaveRecord(Plain("expense", w, amount))

\* Amount, wallet and text of a record that is no transfer leg, edited in place.  No funds
\* are checked; the wallet is only checked when the edit names one; the text may lose the marker.
UpdateRecordInline(i, amount, newWallet, keepMark) ==
    /\ phase = "idle"
    /\ records[i].transfer = NoTransfer
    /\ newWallet # records[i].wallet => wallets[newWallet].active
    /\ records' = [records EXCEPT ![i] =
                     [@ EXCEPT !.amount = amount,
                               !.wallet = newWallet,
                               !.mark = IF keepMark THEN records[i].mark ELSE NoMark]]
    /\ UNCHANGED <<wallets, transfers, recSeq, phase>>
(***************************************************************************)
(* Transfers.  Each use case reads both tables, builds the new lists and   *)
(* hands them to replace_records_and_transfers.                            *)
(***************************************************************************)
Leg(kind, w, amount, t) ==
    [kind |-> kind, wallet |-> w, amount |-> amount, transfer |-> t, mark |-> NoMark]

CommissionRow(w, amount, t) ==
    [kind |-> "expense", wallet |-> w, amount |-> amount,
     transfer |-> NoTransfer, mark |-> t]

\* The two legs after the last record and, when a commission was entered, its row after them.
WithTransferRows(recs, t, from, to, amount, commission) ==
    LET n    == MaxId(DOMAIN recs) + 1
        legs == With(With(recs, n, Leg("expense", from, amount, t)),
                     n + 1, Leg("income", to, amount, t))
    IN  IF commission = 0 THEN legs
        ELSE With(legs, n + 2, CommissionRow(from, commission, t))

CreateTransfer(from, to, amount, commission) ==
    /\ phase = "idle"
    /\ Cardinality(DOMAIN records) + (IF commission = 0 THEN 2 ELSE 3) <= MaxRecords
    /\ Cardinality(DOMAIN transfers) < MaxTransfers
    /\ from # to
    /\ wallets[from].active /\ wallets[to].active
    /\ CanSpend(records, from, amount + commission)
    /\ LET t == MaxId(DOMAIN transfers) + 1
       IN  Rewrite(WithTransferRows(records, t, from, to, amount, commission),
                   With(transfers, t, [from |-> from, to |-> to, amount |-> amount]))
    /\ UNCHANGED <<wallets, phase>>

\* The records after the transfer and its commissions are moved to other wallets.
WithMovedTransfer(recs, t, from, to, amount) ==
    [i \in DOMAIN recs |->
        IF i \in Legs(recs, t) THEN
            [recs[i] EXCEPT !.wallet = IF recs[i].kind = "expense" THEN from ELSE to,
                            !.amount = amount]
        ELSE IF i \in Commissions(recs, t) THEN [recs[i] EXCEPT !.wallet = from]
        ELSE recs[i]]

\* The source must afford the transfer and its commissions as if they were not yet booked.
CanAffordUpdate(t, from, amount) ==
    LET commissions == Commissions(records, t)
        preserved   == Without(records, Legs(records, t) \cup commissions)
        Amount(i)   == records[i].amount
    IN  CanSpend(preserved, from, amount + MapThenSumSet(Amount, commissions))

UpdateTransfer(t, from, to, amount) ==
    /\ phase = "idle"
    /\ from # to
    /\ wallets[from].active /\ wallets[to].active
    /\ HasTwoLegs(records, t)
    /\ CanAffordUpdate(t, from, amount)
    /\ Rewrite(WithMovedTransfer(records, t, from, to, amount),
               [transfers EXCEPT ![t] = [from |-> from, to |-> to, amount |-> amount]])
    /\ UNCHANGED <<wallets, phase>>

DeleteTransfer(t) ==
    /\ phase = "idle"
    /\ HasTwoLegs(records, t)
    /\ Rewrite(Without(records, Legs(records, t) \cup Commissions(records, t)),
               Without(transfers, {t}))
    /\ UNCHANGED <<wallets, phase>>

(***************************************************************************)
(* Deleting records.  A leg takes its whole transfer along; any other row  *)
(* is deleted by a commit of its own, and the ids are renumbered by the    *)
(* next one.                                                               *)
(***************************************************************************)
DeleteLeg(i) ==
    /\ records[i].transfer # NoTransfer
    /\ DeleteTransfer(records[i].transfer)

\* (Mutants of DeletePlainRecord: no renumbering follows; a leg is taken for a plain row.)
DeleteWithoutRenumbering(i) ==
    /\ phase = "idle"
    /\ records[i].transfer = NoTransfer
    /\ records' = Without(records, {i})
    /\ UNCHANGED <<wallets, transfers, recSeq, phase>>

DeleteAnyRow(i) ==
    /\ phase = "idle"
    /\ records' = Without(records, {i})
    /\ phase' = "renumbering"
    /\ UNCHANGED <<wallets, transfers, recSeq>>

DeletePlainRecord(i) ==
    /\ phase = "idle"
    /\ records[i].transfer = NoTransfer
    /\ records' = Without(records, {i})
    /\ phase' = "renumbering"
    /\ UNCHANGED <<wallets, transfers, recSeq>>

DeleteRecord(i) == DeleteLeg(i) \/ DeletePlainRecord(i)

\* The rows of records go and their counter restarts; the rows of transfers stay.
DeleteAllRecords ==
    /\ phase = "idle"
    /\ records' = [i \in {} |-> {}]
    /\ recSeq' = 0
    /\ UNCHANGED <<wallets, transfers, phase>>

\* The second commit of DeletePlainRecord ...
Renumber ==
    /\ phase = "renumbering"
    /\ Rewrite(records, transfers)
    /\ phase' = "idle"
    /\ UNCHANGED wallets

\* ... or the ValueError of its validation, which leaves the first commit in place.
RenumberRaises ==
    /\ phase = "renumbering"
    /\ ~ ValidTransfers(records, transfers)
    /\ phase' = "idle"
    /\ UNCHANGED <<wallets, records, transfers, recSeq>>

(***************************************************************************)
(* The process stops, between operations or between two commits, and is    *)
(* started again: the repository's constructor renumbers what is not       *)
(* dense, then the bootstrap checks the integrity and refuses to go on     *)
(* when a transfer has not its two legs or a record has no wallet.         *)
(***************************************************************************)
Stop ==
    /\ phase \in {"idle", "renumbering"}
    /\ phase' = "down"
    /\ UNCHANGED <<wallets, records, transfers, recSeq>>

IdsNormalized == Dense(DOMAIN wallets) /\ Dense(DOMAIN records) /\ Dense(DOMAIN transfers)

\* (Mutant of NormalizeAtStart: the constructor leaves the ids as they are.)
NothingAtStart == UNCHANGED <<records, transfers, recSeq>>

NormalizeAtStart ==
    IF IdsNormalized THEN UNCHANGED <<records, transfers, recSeq>>
    ELSE Rewrite(records, transfers)

IntegrityHolds(recs, trs) ==
    /\ \A t \in DOMAIN trs : HasTwoLegs(recs, t)
    /\ \A i \in DOMAIN recs : recs[i].wallet \in DOMAIN wallets

Start ==
    /\ phase \in {"down", "refused"}
    /\ NormalizeAtStart
    /\ phase' = IF IntegrityHolds(records', transfers') THEN "idle" ELSE "refused"
    /\ UNCHANGED wallets

\* The constructor's renumbering raises: the start ends there.
StartRaises ==
    /\ phase \in {"down", "refused"}
    /\ ~ IdsNormalized
    /\ ~ ValidTransfers(records, transfers)
    /\ phase' = "refused"
    /\ UNCHANGED <<wallets, records, transfers, recSeq>>

-----------------------------------------------------------------------------
WalletOps ==
    \/ \E neg \in BOOLEAN, initial \in Initials : CreateWallet(neg, initial)
    \/ \E w \in DOMAIN wallets : SoftDeleteWallet(w)

RecordOps ==
    \/ \E w \in DOMAIN wallets, amount \in Amounts :
          CreateIncome(w, amount) \/ CreateExpense(w, amount)
    \/ \E i \in DOMAIN records, amount \in Amounts, w \in DOMAIN wallets, keep \in BOOLEAN :
          UpdateRecordInline(i, amount, w, keep)
    \/ \E i \in DOMAIN records : DeleteRecord(i)
    \/ DeleteAllRecords

TransferOps ==
    \/ \E from, to \in DOMAIN wallets, amount \in Amounts, commission \in Amounts \cup {0} :
          CreateTransfer(from, to, amount, commission)
    \/ \E t \in DOMAIN transfers, from, to \in DOMAIN wallets, amount \in Amounts :
          UpdateTransfer(t, from, to, amount)
    \/ \E t \in DOMAIN transfers : DeleteTransfer(t)

ProcessSteps == Renumber \/ RenumberRaises \/ Stop \/ Start \/ StartRaises

Next == WalletOps \/ RecordOps \/ TransferOps \/ ProcessSteps

Spec == Init /\ [][Next]_vars

(***************************************************************************)
(* Fairness: the renumbering is the straight-line code that follows the    *)
(* deletion, and a user starts the program again some day.  Nothing else   *)
(* ever has to happen.                                                     *)
(***************************************************************************)
FairSpec ==
    /\ Spec
    /\ WF_vars(Renumber \/ RenumberRaises)
    /\ WF_vars(Start \/ StartRaises)
-----------------------------------------------------------------------------
(***************************************************************************)
(* Properties.                                                             *)
(***************************************************************************)

\* Every variable has its type: references of records and transfers to wallets resolve (the
\* foreign keys of the schema), and the counter of records is never behind its table.
TypeOK ==
    /\ Dense(DOMAIN wallets) /\ SystemWallet \in DOMAIN wallets
    /\ wallets \in [DOMAIN wallets -> Wallet]
    /\ DOMAIN records \subseteq 1 .. recSeq
    /\ records \in [DOMAIN records -> Record]
    /\ \A i \in DOMAIN records :
          records[i].wallet \in DOMAIN wallets
    /\ Dense(DOMAIN transfers)
    /\ transfers \in [DOMAIN transfers -> Transfer]
    /\ \A t \in DOMAIN transfers :
          transfers[t].from \in DOMAIN wallets /\ transfers[t].to \in DOMAIN wallets
    /\ recSeq \in Nat
    /\ phase \in Phase

\* The rows e and c tell the same story as the transfer t.
LegPair(recs, tr, e, c) ==
    /\ recs[e].kind = "expense" /\ recs[e].wallet = tr.from /\ recs[e].amount = tr.amount
    /\ recs[c].kind = "income"  /\ recs[c].wallet = tr.to   /\ recs[c].amount = tr.amount

\* A transfer that lost its legs: only DeleteAllRecords may do that.
Orphaned(recs, t) == Legs(recs, t) = {}

Wiped == \E t \in DOMAIN transfers : Orphaned(records, t)

LegsMatch(recs, trs) ==
    /\ \A i \in DOMAIN recs :
          recs[i].transfer # NoTransfer => recs[i].transfer \in DOMAIN trs
    /\ \A t \in DOMAIN trs :
          \/ Orphaned(recs, t)
          \/ \E e, c \in DOMAIN recs : Legs(recs, t) = {e, c} /\ LegPair(recs, trs[t], e, c)

\* A leg always points at an existing transfer, and the legs of a transfer that has any are one
\* expense of its source and one income of its target, both of its amount: through every
\* renumbering that creating, updating and deleting transfers and records and a restart make.
LegsMatchTransfer == LegsMatch(records, transfers)

\* When the program waits for the user, the ids of records have at most one gap, below the rows
\* booked last.  (A crash after the deletion of the newest row leaves dense ids, which the next
\* start does not renumber, and a counter ahead of them.)  A wiped ledger is the exception.
AtMostOneGapAtRest ==
    phase = "idle" /\ ~ Wiped =>
        \E k, m \in 0 .. recSeq + 1 : DOMAIN records = 1 .. k \cup m .. recSeq

\* A start that succeeds leaves ids 1..n in every table, whatever the process died in the middle of.
StartNormalizes == [][phase # "idle" /\ phase' = "idle" /\ ~ Wiped => IdsNormalized']_vars

\* The start is refused only to a ledger that DeleteAllRecords wiped: no crash between the two
\* commits of a deletion, and no other sequence of operations, makes the bootstrap refuse.
RefusedOnlyAfterWipe == phase = "refused" => Wiped

\* An operation that leaves every old row alone and only books new ones (an expense, a transfer
\* with its commission) never takes a wallet that must not go negative below zero.
OnlyBooks == \A i \in DOMAIN records : i \in DOMAIN records' /\ records'[i] = records[i]
BookingNeverOverdraws ==
    [][OnlyBooks =>
         \A w \in DOMAIN wallets :
            ~ wallets[w].neg /\ Balance(w) >= 0 => Balance(w)' >= 0]_vars

\* A transfer that is booked or edited leaves its source non-negative, commissions included,
\* whatever wallets and amount the edit moves it from.
TransferSourceCovered ==
    [][Cardinality(DOMAIN transfers') >= Cardinality(DOMAIN transfers) =>
         \A t \in DOMAIN transfers' :
            \/ t \in DOMAIN transfers /\ transfers'[t] = transfers[t]
            \/ wallets[transfers'[t].from].neg
            \/ BalanceIn(records', transfers'[t].from) >= 0]_vars

\* No wallet that must not go below zero does so by a booking or by an edited transfer.
WalletsStayCovered == BookingNeverOverdraws /\ TransferSourceCovered

\* A soft-deleted wallet never gets another record: not by a new operation, not by an edited
\* transfer and its commission, not by an inline edit that moves a record.
InactiveGetsNothingNew ==
    [][\A w \in DOMAIN wallets :
         ~ wallets[w].active =>
            Cardinality({i \in DOMAIN records' : records'[i].wallet = w})
              <= Cardinality({i \in DOMAIN records : records[i].wallet = w})]_vars

\* What runs without the user (the renumbering after a deletion, a restart) changes ids only:
\* the rows keep their order and contents, rows of one transfer stay rows of one transfer, and
\* so every balance stays.
RenumberingKeepsBooks ==
    [][phase # "idle" /\ records' # records =>
         LET New(i) == records'[Rank(DOMAIN records, i)]
         IN  /\ Cardinality(DOMAIN records') = Cardinality(DOMAIN records)
             /\ \A i \in DOMAIN records :
                   [New(i) EXCEPT !.transfer = 0] = [records[i] EXCEPT !.transfer = 0]
             /\ \A i, j \in DOMAIN records :
                   New(i).transfer = New(j).transfer <=> records[i].transfer = records[j].transfer
             /\ \A w \in DOMAIN wallets : Balance(w)' = Balance(w)]_vars

\* The gap a deletion leaves is closed in the end, whether or not the process dies after its first
\* commit, unless the ledger was wiped.
DeletionGapCloses == phase = "renumbering" ~> IdsNormalized \/ Wiped

\* What the tests assert of a ledger after every transfer operation (_assert_transfer_integrity
\* in tests/test_transfer_integrity.py: "assert len(linked) == 2") and the bootstrap expects.
EveryTransferHasTwoLegs == \A t \in DOMAIN transfers : HasTwoLegs(records, t)

\* What tests/test_transfer_integrity.py asserts after the only transfer was deleted: no
\* commission is left when no transfer is.
NoStrayCommission ==
    transfers = [t \in {} |-> {}] => \A i \in DOMAIN records : records[i].mark = NoMark
=============================================================================
