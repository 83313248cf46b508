-------------------------------- MODULE Audit -------------------------------
(***************************************************************************)
(* The audit that the user starts from the settings: what it finds in the  *)
(* tables of the database.  Tables are functions from id to row; the        *)
(* modules of the components give it theirs.                               *)
(***************************************************************************)
EXTENDS Integers, FiniteSets, FiniteSetsExt

Finding(check, severity, id) == [check |-> check, severity |-> severity, id |-> id]

\* The rows of a table a check objects to.
Objections(check, severity, ids, Wrong(_)) ==
    {Finding(check, severity, id) : id \in {i \in ids : Wrong(i)}}

Errors(findings) == {f \in findings : f.severity = "error"}

-----------------------------------------------------------------------------
(* Wallets, records [kind, wallet, date, cur, amount, base, category, pair] *)
(* and transfers [from, to, date, cur, amount, base].                       *)

WalletFindings(wallets) ==
    IF 1 \notin DOMAIN wallets THEN {Finding("system_wallet_sanity", "error", 1)} ELSE {}

\* The records of a transfer; its commission is not one of them.
Linked(records, t) ==
    {i \in DOMAIN records : records[i].pair = t /\ records[i].category # "Commission"}

OfKind(records, ids, kind) == {i \in ids : records[i].kind = kind}

PairFindings(transfers, records) ==
    LET unpaired(t) ==
            LET linked == Linked(records, t)
            IN  ~ /\ Cardinality(linked) = 2
                  /\ Cardinality(OfKind(records, linked, "expense")) = 1
                  /\ Cardinality(OfKind(records, linked, "income")) = 1
        named == {records[i].pair : i \in DOMAIN records} \ {0}
    IN  Objections("transfer_pair_integrity", "error", DOMAIN transfers, unpaired)
        \cup {Finding("transfer_pair_integrity", "error", t) : t \in named \ DOMAIN transfers}

AlignmentFindings(transfers, records) ==
    LET amounts(row) == <<row.amount, row.cur, row.base>>
        misaligned(t) ==
            /\ Cardinality(Linked(records, t)) = 2
            /\ \E i \in Linked(records, t) : amounts(records[i]) # amounts(transfers[t])
    IN  Objections("transfer_amount_alignment", "error", DOMAIN transfers, misaligned)

LinkFindings(transfers, records) ==
    LET ofTransfer == UNION {Linked(records, t) : t \in DOMAIN transfers}
        wrong(i) ==
            LET r == records[i]
                t == transfers[r.pair]
            IN  \/ r.category # "Transfer" \/ r.date # t.date
                \/ r.kind = "expense" /\ r.wallet # t.from
                \/ r.kind = "income" /\ r.wallet # t.to
    IN  Objections("transfer_record_invariants", "error", ofTransfer, wrong)

PositivityFindings(rows) ==
    Objections("amount_positivity", "error", DOMAIN rows,
               LAMBDA i : rows[i].amount <= 0 \/ rows[i].base <= 0)

-----------------------------------------------------------------------------
(* Tags [name, uses] and the pairs of a record and a tag. *)

TagFindings(tags, links, records) ==
    LET again(t) == \E u \in DOMAIN tags : u < t /\ tags[u].name = tags[t].name
        lost == {l \in links : l[1] \notin records \/ l[2] \notin DOMAIN tags}
        miscounted(t) == tags[t].uses # Cardinality({l \in links \ lost : l[2] = t})
    IN  Objections("tag_integrity", "error", DOMAIN tags, again)
        \cup {Finding("tag_integrity", "error", l[2]) : l \in lost}
        \cup Objections("tag_integrity", "warning", DOMAIN tags, miscounted)

-----------------------------------------------------------------------------
(* Debts [total, remaining, status] and their payments [debt, amount].      *)

BalanceFindings(debts, payments) ==
    LET paid(d) == MapThenSumSet(LAMBDA p : payments[p].amount,
                                 {p \in DOMAIN payments : payments[p].debt = d})
        wrong(d) == debts[d].total # debts[d].remaining + paid(d)
    IN  Objections("balance", "error", DOMAIN debts, wrong)

StatusFindings(debts) ==
    LET wrong(d) == \/ debts[d].status = "closed" /\ debts[d].remaining # 0
                    \/ debts[d].status = "open" /\ debts[d].remaining = 0
    IN  Objections("status", "error", DOMAIN debts, wrong)

-----------------------------------------------------------------------------
(* Assets [created, currency], values of assets [asset, day, value,         *)
(* currency] and goals [target, created, due], due 0 when there is no date. *)

AssetFindings(assets, today) ==
    Objections("asset_integrity", "error", DOMAIN assets, LAMBDA a : assets[a].created > today)

SnapshotFindings(assets, snapshots, today) ==
    LET wrong(i) ==
            LET s == snapshots[i]
            IN  \/ s.asset \notin DOMAIN assets \/ s.value < 0
                \/ s.day > today \/ s.day < assets[s.asset].created
        foreign(i) ==
            /\ snapshots[i].asset \in DOMAIN assets
            /\ snapshots[i].currency # assets[snapshots[i].asset].currency
    IN  Objections("asset_snapshot_integrity", "error", DOMAIN snapshots, wrong)
        \cup Objections("asset_snapshot_integrity", "warning", DOMAIN snapshots, foreign)

GoalFindings(goals, today) ==
    LET wrong(g) ==
            \/ goals[g].target <= 0 \/ goals[g].created > today
            \/ goals[g].due # 0 /\ goals[g].due < goals[g].created
    IN  Objections("goal_integrity", "error", DOMAIN goals, wrong)
=============================================================================
