------------------------------- MODULE Import -------------------------------
(***************************************************************************)
(* Import of records from a file: the preview, the transaction around the  *)
(* commit, the bulk path for JSON, the path operation by operation for CSV *)
(* and XLSX, and the numbering at the end (src/services/importing/,        *)
(* src/app/importing/support.py, src/gui/controllers_pkg/imports.py).      *)
(*                                                                         *)
(* An import is many commits.  A copy of the database in memory undoes     *)
(* them when one raises; when the process ends there is no copy.  Debt     *)
(* payments point at records by number, and an import numbers all records  *)
(* again: a payment without a record is given one of its debt, date,       *)
(* amount and type.  Date and amount, which are only compared, are one key.*)
(* A row of a file is named by its place, its id in a backup.              *)
(***************************************************************************)
EXTENDS Tables, Sequences, FiniteSetsExt

CONSTANTS
    Debts,         \* the ids of debts
    Loans,         \* those that are loans
    FirstDatabase, \* the database before the first import
    Files          \* the files the user may choose

VARIABLES
    database,   \* [recs, pays, debts, templates, relaxed, extra]: what the file holds
    session,    \* the import: its file, policy, step and what is left to do
    snapshot,   \* the copy in memory
    began       \* history: the database when the user confirmed

importVars == <<database, session, snapshot, began>>

None == 0

Policies == {"full", "rate"}

Idle(result) == [at |-> "idle", result |-> result]

LegsOf(recs, p) == {i \in DOMAIN recs : recs[i].pair = p}

Pairs(recs) == {recs[i].pair : i \in DOMAIN recs} \ {None}

\* The rows of s at the places T, in order.
RowsAt(s, T) == Reinserted([i \in T |-> s[i]])

-----------------------------------------------------------------------------
(* What is in a database and in a file. *)

Whos == {FirstDatabase.recs[i].who : i \in DOMAIN FirstDatabase.recs}
            \cup UNION {{f.rows[i].who : i \in DOMAIN f.rows} : f \in Files}

Records ==
    [who: Whos, key: Int, type: {"in", "out"}, std: BOOLEAN, pair: Nat, debt: Debts \cup {None}]

\* A row of a file may name any debt, and it may be bad: it cannot be read.
FileRows ==
    [who: Whos, key: Int, type: {"in", "out"}, std: BOOLEAN, pair: Nat, debt: Nat, bad: BOOLEAN]

Payments == [debt: Nat, rec: Nat, key: Int, off: BOOLEAN]

\* Payments belong to a debt, and those with a record have one that is there.
DatabaseOK(d) ==
    /\ d \in [recs: Seq(Records), pays: Seq(Payments), debts: SUBSET Debts,
              templates: Seq(STRING), relaxed: BOOLEAN, extra: BOOLEAN]
    /\ \A k \in DOMAIN d.pays :
          d.pays[k].debt \in Debts /\ d.pays[k].rec \in DOMAIN d.recs \cup {None}

FileOK(f) ==
    f \in [type: {"json", "csv", "xlsx"}, rows: Seq(FileRows), pays: Seq(Payments),
          debts: SUBSET Debts, hasDebts: BOOLEAN, wallets: BOOLEAN,
          templates: Seq(STRING), extra: BOOLEAN]

ImportAssumption ==
    /\ Debts \subseteq Nat \ {0} /\ Loans \subseteq Debts
    /\ DatabaseOK(FirstDatabase)
    /\ \A f \in Files : FileOK(f)

-----------------------------------------------------------------------------
(* What a file says: prepare_records_payload. *)

Strict(f, policy) == f.type = "json" /\ policy = "full"

\* The debts a row may belong to.
Allowed(f) == IF f.type = "json" /\ f.hasDebts THEN f.debts ELSE database.debts

Kept(f) == {i \in DOMAIN f.rows : ~f.rows[i].bad}

GoodPayments(f) ==
    RowsAt(f.pays, {k \in DOMAIN f.pays :
                      f.pays[k].debt \in f.debts /\ f.pays[k].rec \in Kept(f) \cup {None}})

PrepareRaises(f, policy) ==
    /\ Strict(f, policy)
    /\ \/ \E i \in Kept(f) : f.rows[i].debt \notin Allowed(f) \cup {None}
       \/ GoodPayments(f) # f.pays

ParsedRecords(f) ==
    LET rows == RowsAt(f.rows, Kept(f))
    IN  [i \in DOMAIN rows |->
            [who |-> rows[i].who, key |-> rows[i].key, type |-> rows[i].type,
             std |-> rows[i].std, pair |-> rows[i].pair,
             debt |-> IF rows[i].debt \in Allowed(f) THEN rows[i].debt ELSE None]]

Prepared(f) ==
    [recs |-> ParsedRecords(f), pays |-> GoodPayments(f), templates |-> f.templates]

\* The commit has nothing to do: wallets alone are something.
NothingIn(f) ==
    /\ Prepared(f).recs = <<>> /\ Prepared(f).pays = <<>> /\ f.templates = <<>>
    /\ f.debts = {} /\ ~f.wallets /\ ~f.extra

-----------------------------------------------------------------------------
(* The numbers of imported operations: build_import_operations. *)

\* split_transfer_pair raises unless a transfer has one expense and one income of it.
PairHolds(recs, p) ==
    \E i, j \in LegsOf(recs, p) :
        /\ LegsOf(recs, p) = {i, j}
        /\ recs[i].type = "out" /\ recs[j].type = "in"
        /\ recs[i].key = recs[j].key

\* The leg of a transfer that is made anew.
Clean(recs, p, type, new) ==
    LET r == CHOOSE r \in {recs[l] : l \in LegsOf(recs, p)} : r.type = type
    IN  [r EXCEPT !.pair = new, !.debt = None, !.std = FALSE]

\* Both legs of a transfer come where its first one stood, with a new transfer id.
NumberNext(recs, out, i) ==
    LET p   == recs[i].pair
        new == Cardinality(Pairs(out)) + 1
    IN  IF p = None THEN Append(out, recs[i])
        ELSE IF i # Min(LegsOf(recs, p)) THEN out
        ELSE out \o <<Clean(recs, p, "out", new), Clean(recs, p, "in", new)>>

Numbered(recs) ==
    LET upTo[i \in 0 .. Len(recs)] ==
            IF i = 0 THEN <<>> ELSE NumberNext(recs, upTo[i - 1], i)
    IN  upTo[Len(recs)]

-----------------------------------------------------------------------------
(* Payments and their records. *)

PaysWith(d) == IF d \in Loans THEN "in" ELSE "out"

\* The records a payment without one may get, the best first: of its debt; of no
\* other debt, with the category of payments; of no other debt.
RecordChoices(recs, p, used) ==
    LET fits == {i \in DOMAIN recs \ used :
                    recs[i].key = p.key /\ recs[i].type = PaysWith(p.debt)}
    IN  << {i \in fits : recs[i].debt = p.debt},
           {i \in fits : recs[i].debt \in {None, p.debt} /\ recs[i].std},
           {i \in fits : recs[i].debt \in {None, p.debt}} >>

Chosen(choices) ==
    LET some == {n \in DOMAIN choices : choices[n] # {}}
    IN  IF some = {} THEN None ELSE Min(choices[Min(some)])

\* Only records that name the debt, and none for what was written off.
RestoreNext(recs, link, k) ==
    LET p   == link.pays[k]
        rec == IF p.rec \in DOMAIN recs THEN p.rec
               ELSE IF p.off THEN None
               ELSE Chosen(<<RecordChoices(recs, p, link.used)[1]>>)
    IN  [used |-> link.used \cup {rec}, pays |-> [link.pays EXCEPT ![k].rec = rec]]

\* _restore_debt_payment_record_ids, payment by payment.
Restored(recs, pays) ==
    LET taken == {pays[k].rec : k \in DOMAIN pays} \cap DOMAIN recs
        upTo[k \in 0 .. Len(pays)] ==
            IF k = 0 THEN [used |-> taken, pays |-> pays]
            ELSE RestoreNext(recs, upTo[k - 1], k)
    IN  upTo[Len(pays)].pays

\* The new transfer id: transfers are counted by date, then by id.
ByDate(recs, p) ==
    LET key(q) == recs[Min(LegsOf(recs, q))].key
        before(q) == key(q) < key(p) \/ (key(q) = key(p) /\ q <= p)
    IN  IF p = None THEN None ELSE Cardinality({q \in Pairs(recs) : before(q)})

\* A payment loses a record of another debt and gets one if it has none; a record of no
\* debt becomes one of the payment's debt.
RelinkNext(d, link, k) ==
    LET p   == link.pays[k]
        own == IF p.rec # None /\ link.recs[p.rec].debt \in {None, p.debt}
               THEN p.rec ELSE None
        rec == IF own # None THEN own ELSE Chosen(RecordChoices(d.recs, p, link.used))
    IN  [used |-> link.used \cup {rec},
         pays |-> [link.pays EXCEPT ![k].rec = rec],
         recs |-> IF rec # None /\ link.recs[rec].debt = None
                  THEN [link.recs EXCEPT ![rec].debt = p.debt] ELSE link.recs]

\* normalize_operation_ids_for_import, payment by payment.
Relinking(d) ==
    LET taken == {d.pays[k].rec : k \in DOMAIN d.pays}
        upTo[k \in 0 .. Len(d.pays)] ==
            IF k = 0 THEN [used |-> taken, pays |-> d.pays, recs |-> d.recs]
            ELSE RelinkNext(d, upTo[k - 1], k)
    IN  upTo[Len(d.pays)]

\* (Mutant of Relinked: every payment is given a record anew, by date, amount and type.)
RelinkedAnew(d) ==
    LET plain == [i \in DOMAIN d.recs |-> [d.recs[i] EXCEPT !.debt = None, !.std = FALSE]]
        bare  == [k \in DOMAIN d.pays |-> [d.pays[k] EXCEPT !.rec = None]]
    IN  [d EXCEPT !.pays = Relinking([d EXCEPT !.recs = plain, !.pays = bare]).pays]

\* The links, and the numbers of the transfers.
Relinked(d) ==
    LET link == Relinking(d)
    IN  [d EXCEPT
            !.recs = [i \in DOMAIN d.recs |->
                         [link.recs[i] EXCEPT !.pair = ByDate(d.recs, d.recs[i].pair)]],
            !.pays = link.pays]

\* replace_all_data raises when a link leads nowhere.
ReplaceRaises(recs, debts) ==
    \/ \E p \in Pairs(recs) : ~PairHolds(recs, p)
    \/ \E i \in DOMAIN recs : recs[i].debt \notin debts \cup {None}

-----------------------------------------------------------------------------
(* The import, step by step; between two steps lies a commit. *)

ImportInit ==
    /\ database = FirstDatabase
    /\ session = Idle("none")
    /\ snapshot = FirstDatabase
    /\ began = FirstDatabase

InStep(step) == session.at = step

Proceeds(step) == session' = [session EXCEPT !.at = step]

InTransaction == session.at \in
    {"open", "replace", "sections", "reset", "relax", "create", "templates", "number"}

\* The preview: a dry run.
Choose(f, policy) ==
    /\ InStep("idle")
    /\ session' = IF PrepareRaises(f, policy) THEN Idle("failed")
                  ELSE [at |-> "preview", file |-> f, policy |-> policy, todo |-> <<>>]
    /\ UNCHANGED <<database, snapshot, began>>

Cancel ==
    /\ InStep("preview")
    /\ session' = Idle("none")
    /\ UNCHANGED <<database, snapshot, began>>

\* The file is read again for the commit: it may have become another one.
Confirm(f) ==
    /\ InStep("preview")
    /\ f.type = session.file.type
    /\ began' = database
    /\ session' = IF PrepareRaises(f, session.policy) THEN Idle("failed")
                  ELSE [session EXCEPT !.at = "open", !.file = f]
    /\ UNCHANGED <<database, snapshot>>

\* The Mandatory tab imports templates without a preview.
ImportMandatory(f) ==
    /\ InStep("idle")
    /\ began' = database
    /\ session' = [at |-> "open", file |-> [f EXCEPT !.type = "templates"],
                   policy |-> "full", todo |-> <<>>]
    /\ UNCHANGED <<database, snapshot>>

\* create_sqlite_snapshot
Open ==
    /\ InStep("open")
    /\ snapshot' = database
    /\ CASE session.file.type = "templates" -> Proceeds("reset")
         [] NothingIn(session.file)         -> session' = Idle("done")
         [] session.file.type = "json"      -> Proceeds("replace")
         [] OTHER                           -> Proceeds("reset")
    /\ UNCHANGED <<database, began>>

\* replace_all_for_import: one transaction; without debts in the file those of the
\* database stay, and their payments with the numbers they have.
Replace ==
    LET f == session.file
        recs == Numbered(Prepared(f).recs)
        debts == IF f.hasDebts THEN f.debts ELSE database.debts
        pays == IF f.hasDebts THEN Prepared(f).pays ELSE database.pays
    IN  /\ InStep("replace")
        /\ \A p \in Pairs(Prepared(f).recs) : PairHolds(Prepared(f).recs, p)
        /\ ~ReplaceRaises(recs, debts)
        /\ database' = [database EXCEPT
               !.recs = recs,
               !.pays = Restored(recs, pays),
               !.debts = debts,
               !.templates = (IF f.wallets THEN <<>> ELSE @) \o f.templates]
        /\ Proceeds("sections")
        /\ UNCHANGED <<snapshot, began>>

\* Assets, goals, budgets and the distribution follow, each in a commit.
Sections ==
    /\ InStep("sections")
    /\ database' = [database EXCEPT !.extra = @ \/ session.file.extra]
    /\ Proceeds("number")
    /\ UNCHANGED <<snapshot, began>>

\* CSV and XLSX: all operations go first; the payments lose their records.
Reset ==
    /\ InStep("reset")
    /\ IF session.file.type = "templates"
       THEN /\ database' = [database EXCEPT !.templates = <<>>]
            /\ session' = [session EXCEPT !.at = "templates", !.todo = session.file.templates]
       ELSE /\ database' = [database EXCEPT
                   !.recs = <<>>,
                   !.pays = [k \in DOMAIN @ |-> [@[k] EXCEPT !.rec = None]]]
            /\ Proceeds("relax")
    /\ UNCHANGED <<snapshot, began>>

\* set_wallet_allow_negative_for_import
Relax ==
    /\ InStep("relax")
    /\ database' = [database EXCEPT !.relaxed = TRUE]
    /\ session' = [session EXCEPT !.at = "create", !.todo = Prepared(session.file).recs]
    /\ UNCHANGED <<snapshot, began>>

\* The next operation; a transfer with both its legs.
Create ==
    LET r == Head(session.todo)
        legs == LegsOf(session.todo, r.pair)
        both == Numbered(RowsAt(session.todo, legs))
        new == Cardinality(Pairs(database.recs)) + 1
    IN  /\ InStep("create") /\ session.todo # <<>>
        /\ IF r.pair = None
           THEN /\ database' = [database EXCEPT !.recs = Append(@, r)]
                /\ session' = [session EXCEPT !.todo = Tail(@)]
           ELSE /\ PairHolds(session.todo, r.pair)
                /\ database' = [database EXCEPT !.recs =
                       @ \o [i \in DOMAIN both |-> [both[i] EXCEPT !.pair = new]]]
                /\ session' = [session EXCEPT !.todo = RowsAt(@, DOMAIN @ \ legs)]
        /\ UNCHANGED <<snapshot, began>>

\* The limits that were lifted are set again.
Created ==
    /\ InStep("create") /\ session.todo = <<>>
    /\ database' = [database EXCEPT !.relaxed = snapshot.relaxed]
    /\ Proceeds("number")
    /\ UNCHANGED <<snapshot, began>>

CreateTemplate ==
    /\ InStep("templates")
    /\ IF session.todo = <<>>
       THEN /\ session' = Idle("done")
            /\ UNCHANGED database
       ELSE /\ database' = [database EXCEPT !.templates = Append(@, Head(session.todo))]
            /\ session' = [session EXCEPT !.todo = Tail(@)]
    /\ UNCHANGED <<snapshot, began>>

\* The tables are replaced once more, and that looks for records again.
Number ==
    LET new == Relinked(database)
    IN  /\ InStep("number")
        /\ ~ReplaceRaises(new.recs, new.debts)
        /\ database' = [new EXCEPT !.pays = Restored(new.recs, @)]
        /\ session' = Idle("done")
        /\ UNCHANGED <<snapshot, began>>

\* (Mutant of Raise: only the bulk path is undone.)
RaiseUndoesBulk ==
    /\ InTransaction
    /\ database' = IF session.file.type = "json" THEN snapshot ELSE database
    /\ session' = Idle("failed")
    /\ UNCHANGED <<snapshot, began>>

\* A step raises, and the copy is restored.
Raise ==
    /\ InTransaction /\ ~InStep("open")
    /\ database' = snapshot
    /\ session' = Idle("failed")
    /\ UNCHANGED <<snapshot, began>>

\* The process ends, or the copy cannot be restored: what is committed stays.
CutOff ==
    /\ InTransaction
    /\ session' = Idle("none")
    /\ UNCHANGED <<database, snapshot, began>>

ImportNext ==
    \/ \E f \in Files :
          \/ \E policy \in Policies : Choose(f, policy)
          \/ Confirm(f)
          \/ ImportMandatory(f)
    \/ Cancel \/ Open \/ Replace \/ Sections \/ Reset \/ Relax
    \/ Create \/ Created \/ CreateTemplate \/ Number
    \/ Raise \/ CutOff

ImportSpec == ImportInit /\ [][ImportNext]_importVars

-----------------------------------------------------------------------------
(* Properties. *)

ImportTypeOK ==
    /\ DatabaseOK(database) /\ DatabaseOK(snapshot) /\ DatabaseOK(began)
    /\ InStep("create") => session.todo \in Seq(Records)

\* No two payments have the same record.
RecordsApart(pays) ==
    \A k, l \in DOMAIN pays : pays[k].rec = pays[l].rec /\ k # l => pays[k].rec = None

\* Transfers are whole and numbered from 1, and every linked payment has a record of its debt.
NoLooseEnds(d) ==
    /\ \A p \in Pairs(d.recs) : PairHolds(d.recs, p)
    /\ Pairs(d.recs) = 1 .. Cardinality(Pairs(d.recs))
    /\ \A k \in DOMAIN d.pays :
          d.pays[k].rec # None => d.recs[d.pays[k].rec].debt = d.pays[k].debt

Ends(result) == InTransaction /\ session'.at = "idle" /\ session'.result = result

\* An import that fails at any step leaves the database as it was when the user
\* confirmed, however many of its commits were made.
FailureChangesNothing ==
    [][Ends("failed") => database' = began]_importVars

\* An import that succeeds leaves no loose ends; no two payments have the same record,
\* and the limits of the wallets are those from before.
ImportIsWhole ==
    [][Ends("done") /\ InStep("number") =>
        /\ NoLooseEnds(database') /\ RecordsApart(database'.pays)
        /\ database'.relaxed = began.relaxed]_importVars

\* An import that fails changes nothing, one that succeeds leaves no loose ends.
ImportsAllOrNothing == FailureChangesNothing /\ ImportIsWhole

\* A backup with the debts, no row of which is skipped.
WholeBackup(f) == f.type = "json" /\ f.hasDebts /\ Kept(f) = DOMAIN f.rows

\* A backup gives every payment the record it had in the backup, although all
\* numbers change.
PaymentsKeepTheirRecords ==
    [][LET f == session.file
       IN  Ends("done") /\ WholeBackup(f) =>
             \A k \in DOMAIN f.pays : f.pays[k].rec # None =>
                database'.recs[database'.pays[k].rec].who = f.rows[f.pays[k].rec].who]_importVars

\* What the program writes: payments have records of their own, and in a backup of their
\* debt; the income leg of a transfer stands after its expense leg.
RecordsApartAtFirst ==
    RecordsApart(FirstDatabase.pays) /\ \A f \in Files : RecordsApart(f.pays)

AsWritten(f) ==
    /\ GoodPayments(f) = f.pays
    /\ \A i \in DOMAIN f.rows : f.rows[i].pair # None /\ f.rows[i].type = "in" =>
          i - 1 \in DOMAIN f.rows /\ f.rows[i - 1].pair = f.rows[i].pair
    /\ \A k \in DOMAIN f.pays : f.pays[k].rec # None =>
          f.rows[f.pays[k].rec].debt \in {None, f.pays[k].debt}

BackupsAsWritten == \A f \in Files : WholeBackup(f) => AsWritten(f)

\* What was written off has no record (tests/test_debt_service.py:130).  The code
\* violates it: the numbering gives any record of its date and amount to it.
WriteOffsHaveNoRecord ==
    \A k \in DOMAIN database.pays : database.pays[k].off => database.pays[k].rec = None
=============================================================================
