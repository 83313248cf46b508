------------------------------ MODULE Migration ------------------------------
(***************************************************************************)
(* The tool that moves the data of a JSON file to an SQLite file           *)
(* (src/migrate_json_to_sqlite.py): it loads and checks the source, looks  *)
(* whether the target has data, inserts table after table in a             *)
(* transaction, compares all rows and commits.  It may be run again, may   *)
(* be cut off anywhere, and the application may use the same file.         *)
(*                                                                         *)
(* A row is [id, key, refs] as in JsonData: refs names, by column, rows of *)
(* other tables, 0 being null.                                             *)
(***************************************************************************)
EXTENDS JsonData

CONSTANT Sources   \* JSON files to be migrated

VARIABLES
    source,  \* the file
    target,  \* table -> set of rows: what is committed
    draft,   \* the same with what the transaction has inserted
    maps,    \* table -> (id in the source -> id in the target)
    at,      \* the insertion that comes next, or 0
    result   \* how the last run ended

vars == <<source, target, draft, maps, at, result>>

Tables == {"wallets", "transfers", "debts", "records", "tags", "recordTags", "templates",
           "budgets", "payments", "assets", "snapshots", "goals", "items", "subitems", "months"}

Order == <<"wallets", "transfers", "debts", "records", "tags", "templates", "budgets",
           "payments", "assets", "snapshots", "goals", "structure", "months", "check">>

\* The table a column points into.
Refers(column) == IF column \in {"from", "to"} THEN "wallets" ELSE column

Nothing == [t \in Tables |-> {}]

NoMaps == [t \in Tables |-> <<>>]

Init ==
    /\ source \in Sources
    /\ target = Nothing /\ draft = Nothing /\ maps = NoMaps
    /\ at = 0 /\ result = "none"

Unique(rows) == Cardinality(Ids(rows)) = Len(rows)

\* _all_positive_unique_ids
PositiveUnique(rows) == Unique(rows) /\ \A id \in Ids(rows) : id > 0

Resolves(rows, column, others) ==
    \A i \in DOMAIN rows : rows[i].refs[column] \in Ids(others)

ResolvesOrNull(rows, column, others) ==
    \A i \in DOMAIN rows : rows[i].refs[column] \in Ids(others) \cup {0}

-----------------------------------------------------------------------------
(* The source: loaded through a repository over a copy of the file, the    *)
(* parts that it does not know from the file itself.                       *)

BudgetsLoad(s) == PositiveUnique(s.budgets)

AssetsAndGoalsLoad(s) ==
    /\ PositiveUnique(s.assets) /\ PositiveUnique(s.snapshots) /\ PositiveUnique(s.goals)
    /\ Resolves(s.snapshots, "assets", s.assets)

StructureLoads(s) ==
    /\ PositiveUnique(s.items) /\ PositiveUnique(s.subitems)
    /\ Resolves(s.subitems, "items", s.items)

UsedTags(s) == UNION {s.records[i].key.tags : i \in DOMAIN s.records}

\* Tags are those of the file and those that only records name, without an id.
Materialized(s) ==
    LET new == UsedTags(s) \ {s.tags[i].key : i \in DOMAIN s.tags}
    IN  s.tags \o SetToSeq({[id |-> 0, key |-> name, refs |-> <<>>] : name \in new})

Loads(s) ==
    /\ ValidTransfers(Normalized(s))
    /\ BudgetsLoad(s) /\ AssetsAndGoalsLoad(s) /\ StructureLoads(s)

Dataset(s) == [Normalized(s) EXCEPT !.tags = Materialized(Normalized(s))]

\* _validate_source_integrity
Accepted(d) ==
    /\ PositiveUnique(d.budgets) /\ Unique(d.payments) /\ Unique(d.goals) /\ Unique(d.months)
    /\ \A id \in Ids(d.transfers) : id > 0
    /\ Resolves(d.transfers, "from", d.wallets) /\ Resolves(d.transfers, "to", d.wallets)
    /\ Resolves(d.records, "wallets", d.wallets)
    /\ ResolvesOrNull(d.records, "transfers", d.transfers)
    /\ ResolvesOrNull(d.records, "debts", d.debts)
    /\ ValidTransfers(d)
    /\ Resolves(d.templates, "wallets", d.wallets)
    /\ Resolves(d.payments, "debts", d.debts)
    /\ ResolvesOrNull(d.payments, "records", d.records)
    /\ Resolves(d.snapshots, "assets", d.assets) /\ Resolves(d.subitems, "items", d.items)

-----------------------------------------------------------------------------
(* Comparison of a target with a source, ids translated. *)

Image(map, id) == IF id = 0 THEN 0 ELSE map[id]

\* A row of the source as it should stand in the target.
Translated(row, ms) ==
    [row EXCEPT !.refs = [c \in DOMAIN @ |-> Image(ms[Refers(c)], @[c])]]

RowsAgree(t, rows, ms, db) ==
    db[t] = {[Translated(rows[i], ms) EXCEPT !.id = ms[t][@]] : i \in DOMAIN rows}

\* Here ids are compared as they are, the map not being asked.
RawRowsAgree(t, rows, ms, db) ==
    db[t] = {Translated(rows[i], ms) : i \in DOMAIN rows}

CountsAgree(d, db) ==
    /\ \A t \in Tables \ {"recordTags"} : Cardinality(db[t]) = Len(d[t])
    /\ Cardinality(db["recordTags"])
          = FoldLeft(LAMBDA n, r : n + Cardinality(r.key.tags), 0, d.records)

\* Each record counts for one.
BalancesAgree(d, ms, db) ==
    \A w \in Ids(d.wallets) :
        Cardinality({x \in db["records"] : x.refs.wallets = ms["wallets"][w]})
          = Len(SelectSeq(d.records, LAMBDA r : r.refs.wallets = w))

MapsComplete(d, ms) ==
    \A t \in {"records", "transfers", "templates", "debts", "payments", "assets",
              "snapshots", "goals"} : Cardinality(DOMAIN ms[t]) = Len(d[t])

WalletsAgree(d, ms, db)   == RowsAgree("wallets", d.wallets, ms, db)
TransfersAgree(d, ms, db) == RowsAgree("transfers", d.transfers, ms, db)
RecordsAgree(d, ms, db)   == RowsAgree("records", d.records, ms, db)
TemplatesAgree(d, ms, db) == RowsAgree("templates", d.templates, ms, db)
DebtsAgree(d, ms, db)     == RawRowsAgree("debts", d.debts, ms, db)
PaymentsAgree(d, ms, db)  == RawRowsAgree("payments", d.payments, ms, db)
BudgetsAgree(d, ms, db)   == RawRowsAgree("budgets", d.budgets, ms, db)
AssetsAgree(d, ms, db)    == RawRowsAgree("assets", d.assets, ms, db)
SnapshotsAgree(d, ms, db) == RawRowsAgree("snapshots", d.snapshots, ms, db)
GoalsAgree(d, ms, db)     == RawRowsAgree("goals", d.goals, ms, db)

\* Items and subitems keep their ids.
StructureAgrees(d, db) == db["items"] = ToSet(d.items) /\ db["subitems"] = ToSet(d.subitems)

MonthsAgree(d, db) == db["months"] = ToSet(d.months)

\* Tags are compared by name.
TagsAgree(d, db) == {x.key : x \in db["tags"]} = {d.tags[i].key : i \in DOMAIN d.tags}

RecordTagsAgree(d, ms, db) ==
    {<<x[1], y.key>> : <<x, y>> \in {z \in db["recordTags"] \X db["tags"] : z[1][2] = z[2].id}}
      = {<<ms["records"][z[1].id], z[2]>> :
            z \in {w \in ToSet(d.records) \X UsedTags(d) : w[2] \in w[1].key.tags}}

\* validate_migration
Valid(d, ms, db) ==
    /\ CountsAgree(d, db) /\ BalancesAgree(d, ms, db) /\ MapsComplete(d, ms)
    /\ WalletsAgree(d, ms, db) /\ TransfersAgree(d, ms, db) /\ RecordsAgree(d, ms, db)
    /\ TagsAgree(d, db) /\ RecordTagsAgree(d, ms, db) /\ TemplatesAgree(d, ms, db)
    /\ AssetsAgree(d, ms, db) /\ SnapshotsAgree(d, ms, db) /\ GoalsAgree(d, ms, db)
    /\ BudgetsAgree(d, ms, db) /\ DebtsAgree(d, ms, db) /\ PaymentsAgree(d, ms, db)
    /\ StructureAgrees(d, db) /\ MonthsAgree(d, db)

\* Assets, goals and tags are not looked for.
HasAnyData(db) ==
    \E t \in Tables \ {"assets", "snapshots", "goals", "tags", "recordTags"} : db[t] # {}

\* _validate_existing_target_equivalence: ids are to be the same.
Equivalent(d, db) ==
    Valid(d, [t \in Tables \ {"recordTags"} |-> [id \in Ids(d[t]) |-> id]], db)

-----------------------------------------------------------------------------
(* The tool. *)

data == Dataset(source)

\* Where the transaction has inserted something the file is locked.
Writing == at > 1

Ends(how) == at' = 0 /\ result' = how /\ draft' = Nothing /\ maps' = NoMaps

\* run_migration up to BEGIN, which locks nothing yet.
Start ==
    /\ at = 0
    /\ UNCHANGED <<source, target>>
    /\ CASE ~Loads(source) \/ ~Accepted(data) -> Ends("failed")
         [] HasAnyData(target) /\ Equivalent(data, target) -> Ends("skipped")
         [] HasAnyData(target) /\ ~Equivalent(data, target) -> Ends("refused")
         [] OTHER -> at' = 1 /\ UNCHANGED <<draft, maps, result>>

Rollback ==
    Ends("failed") /\ UNCHANGED <<source, target>>

\* Ids are kept if all are positive and none comes twice, otherwise given anew.
NewIds(rows, db) ==
    [i \in DOMAIN rows |->
        IF PositiveUnique(rows) THEN rows[i].id ELSE Max({x.id : x \in db} \cup {0}) + i]

\* Where an id comes twice the last one is remembered.
MapTo(ids, rows) ==
    [id \in Ids(rows) |-> ids[Max({i \in DOMAIN rows : rows[i].id = id})]]

InsertedRow(row, id) == [Translated(row, maps) EXCEPT !.id = id]

\* _record_row_payload: the debt is not translated.
RecordRow(row, id) == [InsertedRow(row, id) EXCEPT !.refs.debts = row.refs.debts]

Stands(t, db, new) == [db EXCEPT ![t] = @ \cup new]

Insert(t, base, RowFor(_, _), refsHold) ==
    LET rows == data[t]
        ids == NewIds(rows, base[t])
    IN  /\ at > 0 /\ Order[at] = t
        /\ IF refsHold /\ ~\E i \in DOMAIN ids, x \in base[t] : x.id = ids[i]
           THEN /\ draft' = Stands(t, base, {RowFor(rows[i], ids[i]) : i \in DOMAIN rows})
                /\ maps' = [maps EXCEPT ![t] = MapTo(ids, rows)]
                /\ at' = at + 1
                /\ UNCHANGED <<source, target, result>>
           ELSE Rollback

InsertWallets == Insert("wallets", target, InsertedRow, TRUE)

InsertTransfers == Insert("transfers", draft, InsertedRow, TRUE)

InsertDebts == Insert("debts", draft, InsertedRow, TRUE)

InsertRecords ==
    Insert("records", draft, RecordRow,
           \A i \in DOMAIN data.records :
               data.records[i].refs.debts \in {0} \cup {x.id : x \in draft["debts"]})

\* Explicit ids come first; the others follow the highest of them.
TagIds(tags) ==
    LET own == SelectSeq(tags, LAMBDA t : t.id > 0)
        first == IF Unique(own) THEN Max(Ids(own) \cup {0}) - Len(own) ELSE 0
    IN  [i \in DOMAIN tags |-> IF i <= Len(own) /\ Unique(own) THEN tags[i].id ELSE first + i]

InsertTags ==
    LET ids == TagIds(data.tags)
        labelled == {z \in ToSet(data.records) \X DOMAIN data.tags :
                        data.tags[z[2]].key \in z[1].key.tags}
        new == {[data.tags[i] EXCEPT !.id = ids[i]] : i \in DOMAIN ids}
        links == {<<maps["records"][z[1].id], ids[z[2]]>> : z \in labelled}
    IN  /\ at > 0 /\ Order[at] = "tags"
        /\ draft' = Stands("recordTags", Stands("tags", draft, new), links)
        /\ at' = at + 1
        /\ UNCHANGED <<source, target, maps, result>>

InsertMandatoryExpenses == Insert("templates", draft, InsertedRow, TRUE)

InsertBudgets == Insert("budgets", draft, InsertedRow, TRUE)

InsertDebtPayments == Insert("payments", draft, InsertedRow, TRUE)

InsertAssets == Insert("assets", draft, InsertedRow, TRUE)

InsertAssetSnapshots == Insert("snapshots", draft, InsertedRow, TRUE)

InsertGoals == Insert("goals", draft, InsertedRow, TRUE)

InsertDistributionStructure ==
    /\ at > 0 /\ Order[at] = "structure"
    /\ draft' = Stands("subitems", Stands("items", draft, ToSet(data.items)), ToSet(data.subitems))
    /\ at' = at + 1
    /\ UNCHANGED <<source, target, maps, result>>

InsertDistributionSnapshots == Insert("months", draft, InsertedRow, TRUE)

Commit ==
    /\ at > 0 /\ Order[at] = "check" /\ Valid(data, maps, draft)
    /\ target' = draft
    /\ Ends("migrated")
    /\ UNCHANGED source

Refuse ==
    /\ at > 0 /\ Order[at] = "check" /\ ~Valid(data, maps, draft)
    /\ Rollback

\* (Mutant of CutOff: no transaction was begun.)
CutOffMidway ==
    /\ at > 0
    /\ Ends("none")
    /\ target' = draft
    /\ UNCHANGED source

\* The process ends, or an insertion fails for a reason of its own.
CutOff ==
    /\ at > 0
    /\ Ends("none")
    /\ UNCHANGED <<source, target>>

-----------------------------------------------------------------------------
(* The application, where the file is not locked. *)

Ranked(rows, id) == Cardinality({x \in rows : x.id <= id})

RankedRows(db, t) ==
    {[x EXCEPT !.id = Ranked(db[t], @),
               !.refs = [c \in DOMAIN @ |-> Ranked(db[Refers(c)], @[c])]] : x \in db[t]}

\* The start adds the system wallet and numbers ids from 1.
AppStarts ==
    /\ ~Writing
    /\ target' =
          IF target["wallets"] = {} THEN Stands("wallets", target, {MainWallet(0)})
          ELSE [t \in Tables |->
                   IF t \in {"wallets", "transfers", "debts", "records", "templates", "payments"}
                   THEN RankedRows(target, t) ELSE target[t]]
    /\ UNCHANGED <<source, draft, maps, at, result>>

\* What no record of a source says.
Own == Text(FALSE, FALSE, -1, {})

\* Once: a record of the user.
AppBooks ==
    /\ ~Writing /\ target["wallets"] # {}
    /\ \A x \in target["records"] : x.key # Own
    /\ target' = Stands("records", target,
          {[id |-> 1 + Max({x.id : x \in target["records"]} \cup {0}), key |-> Own,
            refs |-> [wallets |-> SystemWallet, transfers |-> 0, debts |-> 0]]})
    /\ UNCHANGED <<source, draft, maps, at, result>>

-----------------------------------------------------------------------------
Next ==
    \/ Start
    \/ InsertWallets \/ InsertTransfers \/ InsertDebts \/ InsertRecords \/ InsertTags
    \/ InsertMandatoryExpenses \/ InsertBudgets \/ InsertDebtPayments
    \/ InsertAssets \/ InsertAssetSnapshots \/ InsertGoals
    \/ InsertDistributionStructure \/ InsertDistributionSnapshots
    \/ Commit \/ Refuse \/ CutOff
    \/ AppStarts \/ AppBooks

Spec == Init /\ [][Next]_vars

-----------------------------------------------------------------------------
(* Properties. *)

TypeOK ==
    /\ at \in 0 .. Len(Order)
    /\ result \in {"none", "migrated", "skipped", "refused", "failed"}
    /\ ~Writing => draft = Nothing

\* The rows of the source, under its ids and links; tags under their names.
Arrived(d, db) ==
    /\ \A t \in Tables \ {"tags", "recordTags"} : db[t] = ToSet(d[t]) /\ Unique(d[t])
    /\ {x.key : x \in db["tags"]} = {d.tags[i].key : i \in DOMAIN d.tags}
    /\ \A i \in DOMAIN d.records :
          {x.key : x \in {y \in db["tags"] : <<d.records[i].id, y.id>> \in db["recordTags"]}}
            = d.records[i].key.tags

\* Whatever the source is like, wherever the tool is cut off, however often it is run
\* and whatever the application does with the file meanwhile: the tool changes an
\* empty file only, and then all of the source is there, each link leading to the
\* row it led to.
ArrivesWholeOrNotAtAll ==
    [][at' # at /\ target' # target => ~HasAnyData(target) /\ Arrived(data, target')]_vars
=============================================================================
