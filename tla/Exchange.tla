------------------------------ MODULE Exchange ------------------------------
(***************************************************************************)
(* What files hold: a backup in JSON, operations in CSV or XLSX, templates *)
(* and the statement of a report, each written from the books and read     *)
(* back into them.  How an import is committed, undone and numbered is the *)
(* module Import; an import is one step here.                              *)
(*                                                                         *)
(* The backup of the settings is read table by table on a worker, while    *)
(* the window may be used (it can be disabled under Windows alone), and is *)
(* sealed with a checksum.  The one written at the start of the program is *)
(* made from a copy of the database and may be edited by hand.             *)
(***************************************************************************)
EXTENDS Integers, Sequences, FiniteSets
LOCAL INSTANCE SequencesExt
LOCAL INSTANCE FiniteSetsExt
Audit == INSTANCE Audit

CONSTANTS
    FirstWallets,  \* [id, open, active]: the first is that of the system
    Forms,         \* operations to book: [kind, wallet, date, cur, amount, category, tags, text]
    Moves,         \* transfers to make: [from, to, date, cur, amount, text]
    TemplateForms, \* templates to set up: [wallet, date, cur, amount, text]
    PlanRows,      \* [table, id, of]: a row that plans, and the row it belongs to
    Rates,         \* what a dollar may cost
    MaxEntries, MaxWallets, MaxLater, MaxFiles  \* bounds; MaxLater: changes after a file

ExchangeAssumption ==
    /\ FirstWallets[1].id = 1 /\ FirstWallets[1].active
    /\ Rates \subseteq Nat \ {0}

VARIABLES
    ledger,   \* [wallets, recs, moved, templates, debts, pays, plans]: the database
    rate,     \* what a dollar costs now
    export,   \* a backup that is being written: what is left to read, and the file
    paper,    \* the file written last
    kept      \* history: the books of that file, its number, if they changed under it, changes since

exchangeVars == <<ledger, rate, export, paper, kept>>

None  == 0
NoExport == [at |-> "none"]
NoPaper  == [type |-> "none"]
Policies == {"full", "rate"}

Ids(s) == DOMAIN s
LegsOf(recs, t) == {i \in Ids(recs) : recs[i].pair = t}
Base(cur, amount) == IF cur = "KZT" THEN amount ELSE amount * rate
Signed(r) == IF r.kind = "income" THEN r.base ELSE -r.base
Total(recs) == FoldLeft(LAMBDA sum, r : sum + Signed(r), 0, recs)

InWallet(recs, w) == SelectSeq(recs, LAMBDA r : r.wallet = w)
Balance(b, w) == b.wallets[w].open + Total(InWallet(b.recs, w))

-----------------------------------------------------------------------------
(* The books. *)

Record(f) ==
    [kind |-> f.kind, wallet |-> f.wallet, date |-> f.date, cur |-> f.cur,
     amount |-> f.amount, base |-> Base(f.cur, f.amount), category |-> f.category,
     tags |-> f.tags, text |-> f.text, pair |-> None, debt |-> None]

Leg(m, kind, t) ==
    [kind |-> kind, wallet |-> IF kind = "income" THEN m.to ELSE m.from, date |-> m.date,
     cur |-> m.cur, amount |-> m.amount, base |-> m.base, category |-> "Transfer",
     tags |-> {}, text |-> m.text, pair |-> t, debt |-> None]

Legs(m, t) == <<Leg(m, "expense", t), Leg(m, "income", t)>>

DebtRecord(kind, d) ==
    [kind |-> kind, wallet |-> 1, date |-> 1, cur |-> "KZT", amount |-> 1, base |-> 1,
     category |-> "Debt", tags |-> {}, text |-> "", pair |-> None, debt |-> d]

Entries == Len(ledger.recs) - Len(ledger.moved) + Len(ledger.templates) + Len(ledger.plans)

Active(w) == w \in Ids(ledger.wallets) /\ ledger.wallets[w].active

\* Books change, maybe under a backup that is being written.
Changes(new) ==
    /\ ledger' = new
    /\ kept.later < MaxLater
    /\ kept' = [kept EXCEPT !.torn = @ \/ export # NoExport,
                            !.later = IF kept.files = 0 THEN @ ELSE @ + 1]
    /\ UNCHANGED <<rate, export, paper>>

Book(f) ==
    /\ Entries < MaxEntries /\ Active(f.wallet)
    /\ Changes([ledger EXCEPT !.recs = Append(@, Record(f))])

Transfer(m) ==
    LET t == Len(ledger.moved) + 1
        made == [from |-> m.from, to |-> m.to, date |-> m.date, cur |-> m.cur,
                 amount |-> m.amount, base |-> Base(m.cur, m.amount), text |-> m.text]
    IN  /\ Entries < MaxEntries /\ Active(m.from) /\ Active(m.to)
        /\ Changes([ledger EXCEPT !.recs = @ \o Legs(made, t), !.moved = Append(@, made)])

\* One debt, one payment of it and one template (bounds of the model).
Borrow ==
    LET d == Cardinality(ledger.debts) + 1
    IN  /\ Entries < MaxEntries /\ ledger.debts = {}
        /\ Changes([ledger EXCEPT !.debts = @ \cup {d},
                                  !.recs = Append(@, DebtRecord("income", d))])

Repay ==
    /\ Entries < MaxEntries /\ ledger.debts # {} /\ ledger.pays = <<>>
    /\ Changes([ledger EXCEPT
           !.pays = Append(@, [debt |-> 1, rec |-> Len(ledger.recs) + 1]),
           !.recs = Append(@, DebtRecord("expense", 1))])

TemplateRow(f) ==
    [wallet |-> f.wallet, date |-> f.date, cur |-> f.cur, amount |-> f.amount,
     base |-> Base(f.cur, f.amount), text |-> f.text]

AddTemplate(f) ==
    /\ Entries < MaxEntries /\ ledger.templates = <<>> /\ (f.wallet # 1 => Active(f.wallet))
    /\ Changes([ledger EXCEPT !.templates = Append(@, TemplateRow(f))])

CreateWallet ==
    /\ Len(ledger.wallets) < MaxWallets
    /\ Changes([ledger EXCEPT
           !.wallets = Append(@, [id |-> Len(@) + 1, open |-> 0, active |-> TRUE])])

\* A wallet is left when it is empty; its records stay.
LeaveWallet(w) ==
    /\ w # 1 /\ Active(w) /\ Balance(ledger, w) = 0
    /\ Changes([ledger EXCEPT !.wallets[w].active = FALSE])

\* A row of a plan, when the row it belongs to is there.
Plan(row) ==
    /\ Entries < MaxEntries /\ row \notin Range(ledger.plans)
    /\ row.of # None => \E p \in Range(ledger.plans) : p.id = row.of /\ p.table # row.table
    /\ Changes([ledger EXCEPT !.plans = Append(@, row)])

ChangeRate(r) ==
    /\ r # rate /\ rate' = r
    /\ UNCHANGED <<ledger, export, paper, kept>>

-----------------------------------------------------------------------------
(* Writing. *)

Numbered(s) == [i \in Ids(s) |-> [id |-> i, row |-> s[i]]]

\* The tags of a backup: those records name, and the assignments by number.
TagNames(recs) ==
    SetToSeq(UNION {recs[i].tags : i \in Ids(recs)})

TagLinks(recs, names) ==
    {l \in Ids(recs) \X Ids(names) : names[l[2]] \in recs[l[1]].tags}

WithWallets(file) == [file EXCEPT !.wallets = ledger.wallets]

WithRecords(file) ==
    LET names == TagNames(ledger.recs)
    IN  [file EXCEPT !.recs = Numbered(ledger.recs), !.names = names,
                     !.links = TagLinks(ledger.recs, names), !.templates = ledger.templates]

WithPlans(file) ==
    [file EXCEPT !.debts = ledger.debts, !.pays = ledger.pays, !.plans = ledger.plans]

WithTransfers(file) == [file EXCEPT !.moved = Numbered(ledger.moved)]

EmptyBackup(sealed) ==
    [type |-> "json", sealed |-> sealed, edited |-> "none", wallets |-> <<>>, recs |-> <<>>,
     names |-> <<>>, links |-> {}, templates |-> <<>>, debts |-> {}, pays |-> <<>>,
     plans |-> <<>>, moved |-> <<>>]

\* Export from the settings: the tables are read one after the other.
ExportBackup ==
    /\ export = NoExport /\ kept.files < MaxFiles
    /\ export' = [at |-> "wallets", file |-> EmptyBackup(TRUE)]
    /\ kept' = [books |-> ledger, torn |-> FALSE, files |-> kept.files + 1, later |-> 0]
    /\ UNCHANGED <<ledger, rate, paper>>

ReadTables(at, next, Reads(_)) ==
    /\ export.at = at
    /\ export' = [at |-> next, file |-> Reads(export.file)]
    /\ UNCHANGED <<ledger, rate, paper, kept>>

ReadWallets == ReadTables("wallets", "records", WithWallets)
ReadRecords == ReadTables("records", "plans", WithRecords)
ReadPlans   == ReadTables("plans", "transfers", WithPlans)

WriteBackup ==
    /\ export.at = "transfers"
    /\ paper' = WithTransfers(export.file)
    /\ export' = NoExport
    /\ UNCHANGED <<ledger, rate, kept>>

Writes(file) ==
    /\ export = NoExport /\ kept.files < MaxFiles
    /\ paper' = file
    /\ kept' = [books |-> ledger, torn |-> FALSE, files |-> kept.files + 1, later |-> 0]
    /\ UNCHANGED <<ledger, rate, export>>

\* Export at the start of the program, from a copy of the database.
ExportCopy ==
    Writes(WithTransfers(WithPlans(WithRecords(WithWallets(EmptyBackup(FALSE))))))

\* A transfer is one row, where its first leg stood.
Rows(recs) ==
    LET add(rows, i) ==
            LET t == recs[i].pair
            IN  IF t = None THEN Append(rows, [type |-> "record", row |-> recs[i]])
                ELSE IF i # Min(LegsOf(recs, t)) THEN rows
                ELSE Append(rows, [type |-> "transfer", row |-> ledger.moved[t]])
    IN  FoldLeft(add, <<>>, [i \in Ids(recs) |-> i])

ExportRecords == Writes([type |-> "table", rows |-> Rows(ledger.recs)])

ExportTemplates == Writes([type |-> "templates", templates |-> ledger.templates])

\* The statement of a wallet, or of all of them.
ExportStatement(w) ==
    LET all == w = None
        recs == IF all THEN ledger.recs ELSE InWallet(ledger.recs, w)
        open == IF all THEN FoldLeft(LAMBDA s, x : s + x.open, 0, ledger.wallets)
                ELSE ledger.wallets[w].open
    IN  Writes([type |-> "statement", open |-> open, total |-> open + Total(recs),
                rows |-> [i \in Ids(recs) |-> [kind |-> recs[i].kind, date |-> recs[i].date,
                             category |-> recs[i].category, base |-> recs[i].base]]])

\* A hand takes a row out of a backup.
TakeOut(table) ==
    /\ paper.type = "json" /\ paper.edited = "none" /\ paper[table] # <<>>
    /\ \E i \in Ids(paper[table]) :
          paper' = [paper EXCEPT !.edited = table, ![table] = RemoveAt(@, i)]
    /\ UNCHANGED <<ledger, rate, export, kept>>

-----------------------------------------------------------------------------
(* Reading a backup. *)

\* Wallets get the numbers 1, 2, ...; rows follow, a number not among them stays.
NewWallet(file, w) ==
    LET at == {i \in Ids(file.wallets) : file.wallets[i].id = w}
    IN  IF at = {} THEN w ELSE Min(at)

\* The first wallet is the system's; its opening balance is that of the wallet 1.
WalletsRead(file) ==
    LET read == [i \in Ids(file.wallets) |-> [file.wallets[i] EXCEPT !.id = i]]
    IN  IF read = <<>> THEN ledger.wallets
        ELSE IF file.wallets[1].id = 1 THEN read
        ELSE [read EXCEPT ![1].open = ledger.wallets[1].open]

TagsOf(file, line) ==
    line.row.tags \cup {file.names[l[2]] : l \in {k \in file.links : k[1] = line.id}}

\* The base amount of the file, or one at the rate of today.
Priced(row, policy) ==
    IF policy = "rate" THEN [row EXCEPT !.base = Base(row.cur, row.amount)] ELSE row

\* A transfer none of whose records is in the file gets both of them.
Orphans(file) ==
    SelectSeq(file.moved, LAMBDA m :
        /\ \A i \in Ids(file.recs) : file.recs[i].row.pair # m.id
        /\ {NewWallet(file, m.row.from), NewWallet(file, m.row.to)} \subseteq Ids(WalletsRead(file)))

Lines(file) ==
    [i \in Ids(file.recs) |->
        [id |-> file.recs[i].id,
         row |-> [file.recs[i].row EXCEPT !.tags = TagsOf(file, file.recs[i])]]]
    \o FlattenSeq([i \in Ids(Orphans(file)) |->
        LET m == Orphans(file)[i]
        IN  [k \in 1 .. 2 |-> [id |-> None, row |-> Legs(m.row, m.id)[k]]]])

KnownDebt(file, d, policy) == IF d \in file.debts THEN d ELSE IF policy = "full" THEN d ELSE None

Parsed(file, policy) ==
    LET known == Ids(WalletsRead(file))
        mapped == [i \in Ids(Lines(file)) |->
            [id |-> Lines(file)[i].id,
             row |-> [Priced(Lines(file)[i].row, policy) EXCEPT
                         !.wallet = NewWallet(file, @), !.debt = KnownDebt(file, @, policy)]]]
    IN  SelectSeq(mapped, LAMBDA l : l.row.wallet \in known)

Halves(lines, t) == {i \in Ids(lines) : lines[i].row.pair = t}

Whole(lines, t) ==
    \E i, j \in Halves(lines, t) :
        Halves(lines, t) = {i, j} /\ lines[i].row.kind = "expense" /\ lines[j].row.kind = "income"

\* Rows whose parent is missing, and payments of no debt or of a row not kept.
Dangling(file, row) ==
    row.of # None /\ \A p \in Range(file.plans) : p.id = row.of => p.table = row.table

Unpaid(file, p, policy) ==
    \/ p.debt \notin file.debts
    \/ p.rec \notin {None} \cup {l.id : l \in Range(Parsed(file, policy))}

\* What makes the import of a backup raise.
Refused(file, policy) ==
    LET lines == Parsed(file, policy)
    IN  \/ file.sealed /\ file.edited # "none"
        \/ \E i \in Ids(lines) : ~(lines[i].row.pair = None \/ Whole(lines, lines[i].row.pair))
        \/ \E i \in Ids(file.templates) :
              NewWallet(file, file.templates[i].wallet) \notin Ids(WalletsRead(file))
        \/ /\ policy = "full"
           /\ \/ \E i \in Ids(lines) : lines[i].row.debt \notin file.debts \cup {None}
              \/ \E row \in Range(file.plans) : Dangling(file, row)
              \/ \E p \in Range(file.pays) : Unpaid(file, p, policy)

\* The place of a transfer among all, by date and then as they were read.
PlaceOf(recs, t) ==
    LET all == {recs[i].pair : i \in Ids(recs)} \ {None}
        first(s) == Min(LegsOf(recs, s))
        before(s) == \/ recs[first(s)].date < recs[first(t)].date
                     \/ recs[first(s)].date = recs[first(t)].date /\ first(s) <= first(t)
    IN  Cardinality({s \in all : before(s)})

Placed(recs) ==
    [i \in Ids(recs) |->
        [recs[i] EXCEPT !.pair = IF @ = None THEN None ELSE PlaceOf(recs, @)]]

\* The transfers of records, each from its expense.
MovedBy(recs) ==
    LET from(t) == CHOOSE i \in LegsOf(recs, t) : recs[i].kind = "expense"
        into(t) == CHOOSE i \in LegsOf(recs, t) : recs[i].kind = "income"
    IN  [t \in {recs[i].pair : i \in Ids(recs)} \ {None} |->
            [from |-> recs[from(t)].wallet, to |-> recs[into(t)].wallet,
             date |-> recs[from(t)].date, cur |-> recs[from(t)].cur,
             amount |-> recs[from(t)].amount, base |-> recs[from(t)].base,
             text |-> recs[from(t)].text]]

\* The records of a transfer are made anew, without tags, debt or words.
Plain(recs) ==
    [i \in Ids(recs) |-> IF recs[i].pair = None THEN recs[i]
                         ELSE [recs[i] EXCEPT !.tags = {}, !.debt = None, !.text = "",
                                              !.category = "Transfer"]]

\* (Mutant of Ordered: the records of transfers come after all others.)
TransfersLast(recs) ==
    SelectSeq(recs, LAMBDA r : r.pair = None) \o SelectSeq(recs, LAMBDA r : r.pair # None)

\* Both records of a transfer come where its first one stood.
Ordered(recs) ==
    LET leg(t, kind) == CHOOSE r \in {recs[i] : i \in LegsOf(recs, t)} : r.kind = kind
        add(out, i) ==
            IF recs[i].pair = None THEN Append(out, recs[i])
            ELSE IF i # Min(LegsOf(recs, recs[i].pair)) THEN out
            ELSE out \o <<leg(recs[i].pair, "expense"), leg(recs[i].pair, "income")>>
    IN  FoldLeft(add, <<>>, [i \in Ids(recs) |-> i])

\* Which record a payment has when numbers have moved is a matter of Import.
PaidBy(pays, recs) ==
    {[k \in Ids(pays) |-> [pays[k] EXCEPT !.rec = r[k]]] :
        r \in [Ids(pays) -> Ids(recs) \cup {None}]}

\* Payments keep their records while all rows are there.
PaysRead(file, pays, recs) ==
    {new \in PaidBy(pays, recs) : Len(recs) = Len(file.recs) =>
        \A k \in Ids(pays) : pays[k].rec \in {None, new[k].rec}}

\* A record of no debt gets that of its payment.
Owed(recs, pays) ==
    [i \in Ids(recs) |->
        LET of == {pays[k].debt : k \in {j \in Ids(pays) : pays[j].rec = i}}
        IN  IF recs[i].debt = None /\ of # {} THEN [recs[i] EXCEPT !.debt = Min(of)]
            ELSE recs[i]]

ImportBackup(policy) ==
    LET lines == Parsed(paper, policy)
        recs == Ordered([i \in Ids(lines) |-> lines[i].row])
        good == SelectSeq(paper.pays, LAMBDA p : ~Unpaid(paper, p, policy))
        placed == [i \in Ids(paper.templates) |->
                      [Priced(paper.templates[i], policy) EXCEPT !.wallet = NewWallet(paper, @)]]
    IN  /\ paper.type = "json" /\ ~Refused(paper, policy)
        /\ \E pays \in PaysRead(paper, good, recs) :
              ledger' = [wallets |-> WalletsRead(paper), recs |-> Owed(Plain(Placed(recs)), pays),
                         moved |-> MovedBy(Placed(recs)),
                         templates |-> (IF paper.wallets = <<>> THEN ledger.templates ELSE <<>>)
                                       \o placed,
                         debts |-> paper.debts, pays |-> pays,
                         plans |-> SelectSeq(paper.plans, LAMBDA r : ~Dangling(paper, r))]

-----------------------------------------------------------------------------
(* Reading tables; each operation is made as if it were entered. *)

\* The records of a row; none when a wallet of it is missing.
FromRow(line, policy, t) ==
    LET r == line.row
        known == Ids(ledger.wallets)
    IN  IF line.type = "transfer"
        THEN IF {r.from, r.to} \subseteq known THEN Legs(Priced(r, policy), t) ELSE <<>>
        ELSE IF r.wallet \notin known THEN <<>>
        ELSE <<[Priced(r, policy) EXCEPT
                   !.debt = None, !.tags = IF r.kind = "mandatory" THEN {} ELSE @]>>

FromRows(rows, policy) ==
    LET add(recs, i) == recs \o FromRow(rows[i], policy, i)
    IN  FoldLeft(add, <<>>, [i \in Ids(rows) |-> i])

WithSystemBalance(b, open) == [b EXCEPT !.wallets[1].open = open]

\* All operations go, and those of the file come; wallets stay.
ReplaceRecords(recs, open) ==
    /\ \A i \in Ids(recs) : ledger.wallets[recs[i].wallet].active
    /\ \E pays \in PaidBy(ledger.pays, recs) :
          ledger' = [WithSystemBalance(ledger, open) EXCEPT
                        !.recs = Owed(Placed(recs), pays),
                        !.moved = MovedBy(Placed(recs)), !.pays = pays]

ImportRecords(policy) ==
    /\ paper.type = "table"
    /\ ReplaceRecords(FromRows(paper.rows, policy), ledger.wallets[1].open)

\* A statement has neither wallets nor currencies: all goes to the system's wallet.
StatementRecords(rows) ==
    [i \in Ids(rows) |->
        [kind |-> rows[i].kind, wallet |-> 1, date |-> rows[i].date, cur |-> "KZT",
         amount |-> rows[i].base, base |-> rows[i].base, category |-> rows[i].category,
         tags |-> {}, text |-> "", pair |-> None, debt |-> None]]

ImportStatement ==
    /\ paper.type = "statement"
    /\ ReplaceRecords(StatementRecords(paper.rows), paper.open)

ImportTemplates(policy) ==
    LET known == SelectSeq(paper.templates, LAMBDA t : t.wallet \in Ids(ledger.wallets))
    IN  /\ paper.type = "templates"
        /\ \A i \in Ids(known) : known[i].wallet # 1 => ledger.wallets[known[i].wallet].active
        /\ ledger' = [ledger EXCEPT
               !.templates = [i \in Ids(known) |-> Priced(known[i], policy)]]

Imports(policy) ==
    /\ export = NoExport
    /\ \/ ImportBackup(policy) \/ ImportRecords(policy)
       \/ ImportStatement \/ ImportTemplates(policy)
    /\ UNCHANGED <<rate, export, paper, kept>>

-----------------------------------------------------------------------------
(* The other reader of backups, for tools: it skips what it cannot use, and *)
(* numbers nothing.                                                         *)

SecondRows(file) ==
    LET known == {file.wallets[i].id : i \in Ids(file.wallets)} \cup {1}
        read == [i \in Ids(file.recs) |->
                    [id |-> file.recs[i].id,
                     row |-> [file.recs[i].row EXCEPT !.tags = TagsOf(file, file.recs[i])]]]
    IN  SelectSeq(read, LAMBDA l : l.row.wallet \in known)

SecondMoved(file) ==
    LET rows == SecondRows(file)
    IN  IF file.moved = <<>> THEN MovedBy([i \in Ids(rows) |-> rows[i].row])
        ELSE [i \in Ids(file.moved) |-> file.moved[i].row]

SecondPays(file) ==
    SelectSeq(file.pays, LAMBDA p :
        p.debt \in file.debts /\ p.rec \in {None} \cup {l.id : l \in Range(SecondRows(file))})

-----------------------------------------------------------------------------
ExchangeInit ==
    /\ ledger = [wallets |-> FirstWallets, recs |-> <<>>, moved |-> <<>>, templates |-> <<>>,
                 debts |-> {}, pays |-> <<>>, plans |-> <<>>]
    /\ rate = Min(Rates)
    /\ export = NoExport /\ paper = NoPaper
    /\ kept = [books |-> ledger, torn |-> FALSE, files |-> 0, later |-> 0]

ExchangeNext ==
    \/ \E f \in Forms : Book(f)
    \/ \E m \in Moves : Transfer(m)
    \/ \E f \in TemplateForms : AddTemplate(f)
    \/ \E row \in PlanRows : Plan(row)
    \/ Borrow \/ Repay \/ CreateWallet
    \/ \E w \in 1 .. MaxWallets : LeaveWallet(w)
    \/ \E r \in Rates : ChangeRate(r)
    \/ ExportBackup \/ ReadWallets \/ ReadRecords \/ ReadPlans \/ WriteBackup
    \/ ExportCopy \/ ExportRecords \/ ExportTemplates
    \/ \E w \in Ids(ledger.wallets) \cup {None} : ExportStatement(w)
    \/ \E table \in {"wallets", "recs", "moved", "pays", "plans"} : TakeOut(table)
    \/ \E policy \in Policies : Imports(policy)

ExchangeSpec == ExchangeInit /\ [][ExchangeNext]_exchangeVars

-----------------------------------------------------------------------------
(* Properties. *)

\* The tables hold together, whatever was imported: the audit finds nothing wrong in records
\* and transfers, and whatever refers to a row finds it
\* (src/services/importing/payload_support.py).
HoldsTogether ==
    LET recs == ledger.recs
    IN  /\ Audit!WalletFindings(ledger.wallets) = {}
        /\ Audit!PairFindings(ledger.moved, recs) = {}
        /\ Audit!AlignmentFindings(ledger.moved, recs) = {}
        /\ Audit!LinkFindings(ledger.moved, recs) = {}
        /\ Audit!PositivityFindings(recs) \cup Audit!PositivityFindings(ledger.moved) = {}
        /\ \A i \in Ids(recs) :
              recs[i].wallet \in Ids(ledger.wallets) /\ recs[i].debt \in ledger.debts \cup {None}
        /\ \A k \in Ids(ledger.pays) : ledger.pays[k].debt \in ledger.debts
        /\ \A row \in Range(ledger.plans) : ~Dangling(ledger, row)
        /\ \A i \in Ids(ledger.templates) : ledger.templates[i].wallet \in Ids(ledger.wallets)

AsWritten == kept.torn = FALSE /\ export = NoExport

Unedited == paper.type = "json" /\ paper.edited = "none"

\* A backup that was written from books at rest is never refused.
BackupsAreAccepted ==
    AsWritten /\ Unedited => \A policy \in Policies : ~Refused(paper, policy)

WithoutText(moved) == [t \in Ids(moved) |-> [moved[t] EXCEPT !.text = ""]]

\* Both readers of backups read the same of what the program wrote.
ReadersAgree ==
    AsWritten /\ paper.type = "json" /\ paper.edited \in {"none", "moved"} =>
        /\ SecondRows(paper) = Parsed(paper, "full")
        /\ SecondPays(paper) = paper.pays
        /\ paper.edited = "none" => SecondMoved(paper) = kept.books.moved
        /\ paper.moved = <<>> =>
              WithoutText(SecondMoved(paper)) = WithoutText(kept.books.moved)

\* The tables, the files and their readers agree.
ExchangeAgrees == HoldsTogether /\ BackupsAreAccepted /\ ReadersAgree

\* Two books have the same records, but for the fields Lost names of each, and transfers
\* whose words are those of the records or those of the transfer.
SameRecords(b, l, policy, Lost(_), Words(_, _)) ==
    /\ Ids(b.recs) = Ids(l.recs)
    /\ \A i \in Ids(b.recs) :
          LET old == b.recs[i]
              new == l.recs[i]
          IN  /\ \A field \in DOMAIN old \ (Lost(old) \cup {"pair", "base"}) :
                    new[field] = old[field]
              /\ new.base = Priced(old, policy).base
              /\ (old.pair = None) = (new.pair = None)
              /\ old.pair # None =>
                    l.moved[new.pair] = [Priced(b.moved[old.pair], policy) EXCEPT
                                            !.text = Words(@, old.text)]

LostInBackup(r) == IF r.pair = None THEN {} ELSE {"text", "tags"}

LostInTable(r) ==
    {"debt"} \cup (IF r.kind = "mandatory" THEN {"tags"} ELSE {})
             \cup (IF r.pair = None THEN {} ELSE {"text"})

OfTransfer(its, leg) == its
OfRecord(its, leg) == leg

SameTemplates(old, new, policy) ==
    new = [i \in Ids(old) |-> Priced(old[i], policy)]

\* What is exported and imported again is what it was, although wallets, transfers and
\* records are numbered anew, and whatever was booked, left or priced meanwhile: all of
\* a backup but the words at the records of a transfer, from which those of the transfer
\* are taken (so that they are lost the second time); operations of a table but for debts
\* and the tags of mandatory expenses; of a statement its final balance.
ComesBackWhole ==
    [][\A policy \in Policies : Imports(policy) =>
        LET b == kept.books
            l == ledger'
        IN  /\ AsWritten /\ Unedited =>
                  /\ l.wallets = b.wallets /\ l.debts = b.debts /\ l.plans = b.plans
                  /\ \A k \in Ids(b.pays) : b.pays[k].rec \in {None, l.pays[k].rec}
                  /\ SameRecords(b, l, policy, LostInBackup, OfRecord)
                  /\ SameTemplates(b.templates, l.templates, policy)
            /\ paper.type = "table" =>
                  SameRecords(b, l, policy, LostInTable, OfTransfer)
            /\ paper.type = "statement" =>
                  /\ Balance(l, 1) = paper.total
                  /\ \A w \in Ids(l.wallets) \ {1} : InWallet(l.recs, w) = <<>>
            /\ paper.type = "templates" =>
                  SameTemplates(b.templates, l.templates, policy)]_exchangeVars
=============================================================================
