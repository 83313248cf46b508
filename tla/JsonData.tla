------------------------------ MODULE JsonData ------------------------------
(***************************************************************************)
(* What a JSON file of the old format holds and how it is read: wallets    *)
(* without the system wallet, a balance kept apart from the wallets,       *)
(* records without usable ids, commissions that are linked to a transfer   *)
(* are brought into the present form (src/infrastructure/repositories.py). *)
(*                                                                         *)
(* A row is [id, key, refs]: key stands for what it says, refs names rows  *)
(* of other tables, 0 being null.                                          *)
(***************************************************************************)
EXTENDS Integers, Sequences, FiniteSets, FiniteSetsExt, SequencesExt

SystemWallet == 1

Ids(rows) == {rows[i].id : i \in DOMAIN rows}

NextId(rows) == 1 + Max(Ids(rows) \cup {0})

Named(id, rows) == id \in Ids(rows)

\* The first row of an id: what a loop that breaks at it finds.
First(id, rows) == Min({i \in DOMAIN rows : rows[i].id = id})

MainWallet(balance) == [id |-> SystemWallet, key |-> balance, refs |-> <<>>]

\* What a record says: is it income, is it a commission, which transfer does its text
\* name, which tags has it.
Text(income, commission, mark, tags) ==
    [income |-> income, commission |-> commission, mark |-> mark, tags |-> tags]

\* No file, or one that was never written to.
NoData ==
    [wallets |-> <<MainWallet(0)>>, legacy |-> {}, records |-> <<>>, transfers |-> <<>>,
     templates |-> <<>>, debts |-> <<>>, payments |-> <<>>, tags |-> <<>>]

-----------------------------------------------------------------------------
(* The present form. *)

\* legacy is empty, or has the balance that stands beside the wallets.
Legacy(d) == IF d.legacy = {} THEN 0 ELSE Max(d.legacy)

NormalizedWallets(d) ==
    LET kept == SelectSeq(d.wallets, LAMBDA w : w.id > 0)
    IN  IF Named(SystemWallet, kept)
        THEN [kept EXCEPT ![First(SystemWallet, kept)].key = @ + Legacy(d)]
        ELSE <<MainWallet(Legacy(d))>> \o kept

Unusable(records, i) ==
    \/ records[i].id <= 0
    \/ \E j \in 1 .. i - 1 : records[j].id = records[i].id

NormalizedIds(records) ==
    [i \in DOMAIN records |->
        IF Unusable(records, i)
        THEN [records[i] EXCEPT !.id =
                 NextId(records) - 1 + Cardinality({j \in 1 .. i : Unusable(records, j)})]
        ELSE records[i]]

\* A commission says its transfer in its text and is not one of the legs.
Detached(r) ==
    IF r.key.commission /\ r.refs.transfers > 0
    THEN [r EXCEPT !.key.mark = r.refs.transfers, !.refs.transfers = 0]
    ELSE r

NormalizedRecords(records) ==
    LET numbered == NormalizedIds(records)
    IN  [i \in DOMAIN numbered |-> Detached(numbered[i])]

Renumbered(templates) == [i \in DOMAIN templates |-> [templates[i] EXCEPT !.id = i]]

\* (Mutant of Normalized: the balance is added and kept as well.)
NormalizedWithLegacy(d) ==
    [d EXCEPT
        !.wallets = NormalizedWallets(d),
        !.records = NormalizedRecords(d.records),
        !.templates = Renumbered(d.templates)]

Normalized(d) ==
    [d EXCEPT
        !.wallets = NormalizedWallets(d),
        !.legacy = {},
        !.records = NormalizedRecords(d.records),
        !.templates = Renumbered(d.templates)]

LegsOf(d, t) == SelectSeq(d.records, LAMBDA r : r.refs.transfers = t)

\* Every leg has its transfer, every transfer an expense and an income.
ValidTransfers(d) ==
    /\ \A r \in ToSet(d.records) : r.refs.transfers # 0 =>
          r.refs.transfers > 0 /\ Named(r.refs.transfers, d.transfers)
    /\ \A t \in Ids(d.transfers) :
          LET legs == LegsOf(d, t)
          IN  Len(legs) = 2 /\ {legs[i].key.income : i \in 1 .. 2} = BOOLEAN
=============================================================================
