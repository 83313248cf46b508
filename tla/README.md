# Ledgera in TLA+

A verification development for the personal-finance application in this repository (Ledgera,
FinAccountingApp): what its SQLite-backed core and the services around it keep, which operations
change it, and what those operations may never do to it. The models are translated from the
Python source; every definition that stands for code is listed with its lines in `PROJECT.json`
under `map`. The hazards the properties are for, and those no property covers, are listed there
under `hazards`, each at its line.

1. [The system](#the-system)
2. [The modules](#the-modules), one section for each
3. [The runs](#the-runs), their bounds and the fairness assumed
4. [What the violations show](#what-the-violations-show)
5. [What is proved](#what-is-proved), and what is only model-checked
6. [What the models taught](#what-the-models-taught)
7. [Not modelled](#not-modelled), and what could come next

## The system

A desktop application (Tkinter) over one SQLite file.

| Component | State it keeps | Operations | Interacts with | Modelled in |
|---|---|---|---|---|
| SQLite repository (`infrastructure/sqlite_repository.py`, `infrastructure/sqlite/*`) | all tables, their AUTOINCREMENT counters | row insert/update/delete, `replace_records_and_transfers`, `replace_all_data`, `_renormalize_current_ids`, normalization in the constructor | called by every use case; one connection behind a re-entrant lock | partly: `Tables`, `Ledger`, `Debts`, `Tags`, `FirstStart` |
| Wallets, records, transfers (`app/use_cases_pkg`, `app/data/records.py`) | none of their own | create, edit, delete, transfer with commission, soft-delete a wallet, delete all | read lists from the repository, hand new lists back | `Ledger` |
| Bootstrap (`bootstrap.py`, `gui/initial_setup.py`, `migrations/`, `storage/`) | base currency, configuration, columns of old tables | setup, rename old columns, create tables, fill in minor units, base currency, system wallet, open the repository, integrity check, maintenance | refuses to start on a violation | partly: `FirstStart`, `Ledger`, `Startup`, `Backup` |
| Debts and loans (`services/planning/debts`) | none of its own | create, pay, write off, close, delete a payment or a debt, recalculate | sequences of repository calls; leaves records in the ledger | `Debts` |
| Mandatory expenses (`app/use_cases_pkg/mandatory.py`) | templates | create, edit, delete, book one, book what is due | booked by a worker at the start | `Mandatory` |
| Startup worker and GUI runtime (`gui/startup_coordinator.py`, `gui/runtime_coordinator.py`) | busy flag, a pool of two threads, scheduled callbacks | run a task in the background, staged refreshes | shares the connection with the GUI thread; opens a second one | partly: `Startup` |
| Tags | names, colours, usage counts, links to records | attach, rename (merge), delete, colour, prune | rebuilt by every bulk rewrite | `Tags` |
| Import and restore (`services/importing`, `app/importing`) | files; an in-memory snapshot | preview, replace in bulk or operation by operation, number again, roll back | `replace_all_data`, use cases | `Import`, `Exchange` |
| JSON export, backups, tables, statements (`backup.py`, `utils/backup`, `utils/exporting`, `gui/exporters.py`) | files | export after a start, rotation; export and import from the settings | runs in a thread over a copy, or table by table | `Backup`, `Exchange` |
| Distribution (`services/planning/distribution`) | items, percentages, fixed months | edit the structure, fix and unfix months | reads records | `Distribution` |
| Budgets (`services/planning/budget`) | budgets | create, change, delete, import; what is spent, pace, forecast | reads records | `Budgets` |
| Assets and goals (`services/portfolio`) | assets, values, goals | the dialogs of the dashboard, values in bulk, import | numbers rows itself | `SnapshotBook`, `Portfolio` |
| Currency service (`app/services.py`, `app/currency`) | rates, a cache file, the mode | refresh by timer, switch, settings | providers, three threads | `Rates` |
| Application update (`services/support/app_update.py`) | downloads, two notes in `schema_meta` | check, download, hand over to an installer, clean up at the start | the installer, a process of its own | `AppUpdate` |
| JSON repository (`infrastructure/repositories.py`) | one JSON file | every change; upgrade of old files | source of the migration | `JsonData`, `JsonStore` |
| Migration (`migrate_json_to_sqlite.py`) | none | load, check, insert table by table, compare, commit | may be rerun; the application may have the file open | `Migration` |
| Analytics, charts, reports (`services/analytics`, `utils/charting`, `domain/reports.py`) | none; the tab of reports keeps a result and a view | compute; generate, group, drill, export | read records and wallets | `Views`, `Reports` |
| Audit (`services/analytics/audit`) | none | 15 checks over the tables | states properties of other modules | `Audit` |
| GUI tabs, dialogs, localisation | widgets | presentation | starts the operations above | not modelled |

### What is hard here, and what must hold

* **Ids are not stable.** Most deletions end by deleting every table and inserting it again under
  ids 1..n, and so do imports. References have to follow: a transfer and its legs, a payment and
  its record and its debt, a tag and its records. One reference does not: the id of a transfer
  inside the text of its commission.
* **A transaction is not one.** `repo.transaction()` is `with self._conn`, and every repository
  method opens `with self._conn` again; leaving the inner block commits. Debt operations and imports
  are thus sequences of commits, and `delete_by_index` commits the deletion before it renumbers.
* **The process may stop anywhere**, and the next start repairs (normalization) or refuses
  (integrity check). What is on disk after a stop must be something a start can work with: notes
  of an update, a JSON copy with its time, months fixed half way, payments booked half way, columns renamed half way.
* **Use cases carry values over other changes**: the balance a check has read, the debt computed at
  the beginning of `delete_payment`, the report on the screen, the position of a row in a list, the
  aggregator that answered a fetch.
* **A worker and the GUI thread share the connection** while the deferred startup task runs: the
  lock protects single statements and transactions, not read-everything-replace-everything. The
  window is disabled meanwhile only where the window system can (`-disabled`,
  `gui/shell/core/runtime.py:31`; elsewhere, as on Linux, the `TclError` is logged and skipped).
* **Everything is told more than once.** SQL aggregates, loops over loaded records and builders of
  sheets compute the same sums separately; two readers of the same JSON backup, and a row number given by
  a service and another by AUTOINCREMENT, have to agree.

## The modules

| Module | Models |
|---|---|
| `Tables`, `TablesProofs` | a table as a function from ids to rows; rank, density, reinsertion in id order; what reinsertion does to any table (proofs) |
| `Ledger`, `LedgerProofs`, `MCLedger` | wallets, records, transfers, commissions, deletion and renumbering, stop and start; the inductive invariant (proofs) |
| `Debts`, `DebtsProofs`, `MCDebts` | debts, payments, their records, commit by commit; the inductive invariant (proofs) |
| `Audit` | the audit's checks as operators on tables; used by `Debts`, `Tags`, `Portfolio`, `Exchange` |
| `Mandatory` | templates and automatic payments over days and starts |
| `Tags` | tags through saves, renames, merges, rewrites |
| `Startup`, `StartupProofs`, `MCStartup` | the window, the worker of the start and its two connections |
| `Import`, `ImportProofs` | the commit of an import, its rollback, the numbering at the end; all or nothing, and what becomes of the links (proofs) |
| `AppUpdate` | check, download, installers, starts |
| `Backup` | the JSON copy after a start and its rotation |
| `Rates` | rates, cache, switch, settings, timer, lock |
| `PartsProofs` | what holds of `Rates`, `Backup`, `AppUpdate`, `Mandatory` and `Tags` (proofs) |
| `JsonData`, `JsonStore`, `Migration` | the old JSON format, the repository over it, the tool that moves it to SQLite |
| `MCParts` | `Rates`, `Import`, `Backup`, `AppUpdate`, `Mandatory` and `Tags` (extended) and instances of `JsonStore` and `Migration` |
| `Distribution` | items, shares, fixed months |
| `SnapshotBook`, `Portfolio` | a book of values (abstract); assets, values, goals, dashboard (detailed) |
| `PlanningProofs` | that the table of `Portfolio` is a book; that the shares of `Distribution` add up and fixed months stay; that budgets do not overlap and forecasts come true (proofs) |
| `Views` | balances, timeline, metrics, charts, reports, sheets |
| `Budgets`, `Reports` | over the records of `Views`: the budget tab; the tab of reports |
| `Exchange` | what each kind of file holds and what comes back from it |
| `FirstStart`, `FirstStartProofs` | setup, migration of old columns, schema, base currency, system wallet, cut off anywhere |
| `MCPlanning` | `Portfolio` (with `SnapshotBook` inside), `Distribution`, `Budgets` and `FirstStart` (extended) and instances of the other modules from `Distribution` on |

Definitions named "(Mutant of X ...)" are no part of a model. Each is a plausible error in X, and the
property named beside it in `PROJECT.json` fails when X is replaced by it.

Amounts are minor units or small integers throughout; texts are names that are compared; days are
numbers; currencies appear where a conversion is what the module is about (`Portfolio`, `Views`,
`Exchange`).

### Ledger

`wallets`, `records`, `transfers` are the tables; `recSeq` is the counter of `records` (the other
two are never behind a deletion without a rewrite, so theirs needs no variable); `phase` says what the
process is doing. One action is one commit: `CreateTransfer`, `UpdateTransfer`, `DeleteTransfer`
are one `replace_records_and_transfers` each and contain its validation, reinsertion and mapping
(`Rewrite`); `DeletePlainRecord` is the first commit of `delete_by_index`, `Renumber` or
`RenumberRaises` its second. `Stop` may come between them. `Start` is the constructor of the
repository and the integrity check of the bootstrap; `StartRaises` is the constructor raising.

A record keeps its kind, wallet, amount, transfer and, for a commission, the transfer id in its text
(`mark`). An inline edit may drop the mark, because the text is free.

### Debts

`debts`, `records` (those that come from debts), `payments` are the tables and `seq` their counters.
`op` is the operation under way: the commit it makes next and the local variables of the service
method (the debt as it will be saved, the ids it started from). Operations of the GUI do not overlap, so
another begins only when `op` is idle. `Renumbering` is `replace_all_data` with its re-linking
(`RestoredLinks`); the foreign keys are `Unlink` and `DropDebt`. `Interrupt` cuts an operation off
between two commits, by an exception or a crash, at most `MaxInterrupts` times; `Restart` is the
normalization of the constructor, which may or may not follow.

There is one wallet, one contact and one day: the re-linking compares dates, and equal dates
are its hardest case. Records that do not come from debts are left out, and with them the
renumbering that fails on a wiped ledger (that is `Ledger`). `DebtsBalance` and `ClosedIffSettled`
are the program's own audit (`Audit`) finding nothing.

### Mandatory

`templates` are a sequence (ids are always 1..n), `records` a bag of bookings, `job` the worker of
`ApplyMandatoryAutoPayments`: the date it read, the templates still to do, and the bookings it has
seen, read once. `ApplyNext` is one template: `TargetDate` is `get_payment_date` with its weeks, months
cut to their length and years; the payment is skipped when it is `seen`, else saved in a commit of its own. `StopApplication`
may come between two. `Falls` and `DueDays` define what is due without the code's arithmetic;
`BooksWhatIsDueOnce` compares the two (what is booked was due and was not booked before; when the worker
is done all that was due is booked), over edits of templates, months of different
length, starts on any day, and bookings by hand.

`WindowDisabled` says whether the user can act while the worker runs. The run has TRUE; with FALSE a
template edited meanwhile is booked as it was, and the second half of `BooksWhatIsDueOnce` fails. A calendar is any sequence of
month lengths that makes whole years.

### Tags

`db` is the table of tags, its counter of ids and the date and tag ids of each record; `pending` a deletion whose rewrite is due.
Every save ends with `Counted`: uses counted, unused tags dropped, the rest renumbered and the counter set back. `delete_tag` leaves
gap and counter, so the next id is not the largest plus one. `Rebuilt`
drops all tags and makes them again from the records, losing the chosen colours; this is the
exception in `ColoursStay`. `RenameTag` is also the merge. `RestartTags` may come after any commit.

`Ensured`, `Labelled` and `Rebuilt` say at once what the code does name by name: new names get the next ids in order, and
in a rewrite a name comes where its first record has it.
`RecordsKeepTheirTags` names the only steps that change the tags of a record that stays, and what each makes of them:
saving it again, a rename, the deletion of a tag.

### Startup

Two threads and two connections. `worker` goes through the payments, the opening of the second
repository (whose constructor rewrites the tables when there is a gap), and the loading of the list;
`gui` is the handler the window is in, with what it read before another thread got the lock;
`stage` is the refresh after the worker, in steps scheduled on the event loop. `uncommitted` is the
transaction that `normalize_tag_ids` leaves open on the first connection until its next commit; while it
is open the second connection fails after its timeout (`busy_timeout`) and the worker ends in an error.

`RowsStayOnWindows` and `DeletesTheRowShown` are stated for the platform that disables the window.
For the other, TLC finds both losses at once (a row saved between the worker's read and its
rewrite; a row that moved under the list); they stand in the hazards with that note, since no document of the repository
promises otherwise. `WindowComesBack` is liveness: a busy window is ready again.

### Import

`session` is the import: file, policy, step, what is left to do; `snapshot` the copy in memory.
`Choose` and `Confirm` are the dry run and the second parse; `Open` takes the copy; `Replace` and
`Sections` are the bulk path; `Reset`, `Relax` (wallets may go negative meanwhile), `Create`,
`Created` (their limits again) and `CreateTemplate` the path by operations; `Number` is `normalize_operation_ids_for_import`,
which re-links the payments (`Relinking`) and writes through `replace_all_data`, which looks for missing records again
(`Restored`). `Raise` may come at any step after the copy and restores it; `CutOff` is the end of the process, which loses it.
`ImportsAllOrNothing` is all-or-nothing for errors: `FailureChangesNothing`, and `ImportIsWhole` of an import that succeeds.
`PaymentsKeepTheirRecords` follows the links of a backup through both numberings. They say nothing of a
crash in the middle: the database then stays half imported, and perhaps with the limits lifted. No
document of the repository promises anything else.

### AppUpdate

`downloads` and `parts` are the files in the cache, `notes` the two keys of `schema_meta`, `app` the
running application with its settings tab, `installers` those launched. `Start` is what the next start
does about notes and files. `InstallerEnds` may succeed or fail, long after the application started again;
`CacheEmptied` is a user with a broom. A write of a note may fail (`done`).

### Backup

Whether the copy is due is told from times of files, so `time` orders all writes: `mainTime` and
`sideTime` are the database and its `-wal`/`-shm`, `json` and `backups` say which commits they
hold. `exporter` is the export inside the task or, for a large database, in its own thread over a copy
(`Snapshot`, then `WriteJson`), while `Commit` goes on. `Kill` leaves the side files. `BackupIsCurrent` is the promise.

### Rates

`tasks` are the threads (switch, timer, start), each acquiring the lock, fetching, asking the aggregator who
gave the rates, and applying them. `SaveSettings` puts another aggregator in place without the lock.
Rates are told apart by origin: a provider, the cache, or built in. `Remember` writes the mode to the
database and may fail.

### JsonData, JsonStore, Migration

`Loaded` is the reading of an old file: a balance beside the wallets becomes a system wallet, records get usable ids,
a commission linked to its transfer is brought into the present form. `JsonStore` has every operation
of the repository; `Read` finds a file of the old form and `Upgrade` saves it later without having held
the lock in between, and may fail. `OpeningBalancesStay` counts the balance beside the wallets once.
The application itself uses this repository only as the source of the migration.

`Migration` inserts table after table in a transaction (`draft`), with `maps` from old to new ids, compares all rows
and commits; it may refuse, skip, fail or be cut off, be run again, and the application may
start on the file and book in it between runs. `ArrivesWholeOrNotAtAll` compares what was committed
with the source through `Arrived`, which is not written with the maps.

### Distribution

`entries` are the amounts of each month, `lines` items and subitems, `fixed` the rows of fixed
months; `freezing` the months the maintenance has yet to look at, one commit each. `SharesAddUp` is
about rounding each share for itself. `FixedRowsStay` is an action property over all else that can change.

### SnapshotBook and Portfolio

`SnapshotBook` is the abstract specification: a book with one value for each asset and day; `Enter`
puts values of one day in, all or none; `Restore` replaces the book. `Portfolio` has rows, ids,
counters and the numbers the service gives (one more than the largest id) against those the table gives
(one more than any ever). `KeepsTheBook` is the refinement `Book!Spec` with
`BookOf(snapshots)` as the mapping, and that the bulk form enters exactly what was given. `FailureSavesNothing`
names the one case where the two numberings differ and the form reports an error for what it saved.
`PortfolioAssumption` asks of a backup what the reader of backups and the schema refuse otherwise: typed rows, and one
value for an asset and day. That the service keeps the last of these is proved (`IndexIsKept`).

### Views, Budgets, Reports

`Views` has no protocol: any records are booked, and after each booking every view of them is computed by
its own translation (SQL of the analytics, loops of the charts, classes and sheet builders of the reports) and compared:
`ReportsCloseAtBalances`, `StatementsAddUp`, `CashflowsAgree`, `ChartsAgree`, `TimelineEndsAtBalance`,
together `ViewsAgree`. Two exceptions are stated where they are: a record the user himself categorised as
"Transfer" (charts go by the word, analytics by the link), and deleted wallets in the timeline.

`Budgets` adds the budget tab to the records of `Views`, which it instantiates. `BudgetsHold`: no two budgets of a scope share a day, and
forecasts come true. `Reports` is an extension with the tab of reports: form, result, view and
a background `task`. The export reads how the table is grouped when it writes, and the category looked into when it was
asked for; `ExportShowsTheTable` has `seen` as a history of what the table showed between click and file.

### Exchange

`ledger` is the whole database as the files see it, `paper` the file written last, `export` a
backup under way, read table by table while the window may change the tables; `kept` remembers the
books the file was written from. `Imports` reads the paper back under each policy: `Parsed`,
`Ordered`, `PaysRead`, `PaidBy` are the first reader, `SecondRows`, `SecondMoved`, `SecondPays` the
second. `TakeOut` is a person who removes a table from a copy that has no checksum. `ComesBackWhole`
says field by field what survives a round trip; `ExchangeAgrees` that no such import leaves loose
ends by the program's own audit, that an honest backup is never refused, and that both readers
agree.

### FirstStart

What a start finds: no file, one that cannot be read, or a database of before migration 002 (amounts in columns
`*_kzt`), with or without minor units, with or without budgets, used or not. `Launch` decides whether the setup is
shown; `Pick...` are its boxes; `Save` stores the configuration and hands over the answer. Then come `Connect`, the
migration (`MigrateNothing`, `AddMinor`, `RenameNext`, `RenamesDone`), `CreateNext` for `schema.sql`,
the migration again, `Upgrade` (minor units), `ApplyBase` and `EnsureWallet`. Scripts run by `executescript` have no transaction
around them: every rename and every table is a commit, and `Stop` may come after any. Of a table the model keeps `columns` for the
amount and whether the two `agree`; `past` remembers where processes were cut off and how many starts were refused.

`OpensWhole` (of the run: `StartsAgain` with it) says that a start opens the database, with every amount in both
columns. It names what the code does not survive: a stop between two renames, and one between the creation of `transfers` and of `records`.
`AmountsInBase` and `ChoiceHolds` are about the currency; the migration writes tenge even into an empty
database, and the setup is shown to the owner of an old one.

## The runs

| Run | Configuration | Bounds | Shows |
|---|---|---|---|
| `ledger` | `MCLedger.cfg` | one amount, 2 wallets, 5 records, 2 transfers | types and references; transfers agree with their legs; at most one gap at rest; a refused start means a wiped ledger; a successful start leaves dense ids; what runs without the user changes ids only; wallets stay covered; an inactive wallet gets nothing new; the gap of a deletion is closed in the end |
| `ledger_wiped` | `MCLedgerLegs.cfg` | | violation: transfers without legs |
| `ledger_marker` | `MCLedgerStray.cfg` | | violation: a commission without its transfer |
| `debts` | `MCDebts.cfg` | two amounts, 2 debts, 3 records, 2 payments, no interrupts | balance decomposition between operations; the payment deleted and the debt saved are the ones meant |
| `debts_cut_off` | `MCDebtsInterrupted.cfg` | one amount, 2 debts, 4 records, 2 payments, 1 interrupt | types and references, closed exactly when settled, links agree, at every commit |
| `debts_balance` | `MCDebtsBalance.cfg` | 1 interrupt | violation: the parts of a debt do not add up |
| `debts_reopen` | `MCDebtsReopen.cfg` | 1 interrupt | violation: the reopened debt is saved under a stale id |
| `startup` | `MCStartup.cfg` | 4 rows, 1 payment due | no row is lost to a rewrite; what is deleted is the row shown; a busy window is ready again |
| `parts` | `MCParts.cfg` | see below | 11 properties of the eight components of `MCParts` |
| `import_write_off` | `MCPartsImport.cfg` | as `parts` | violation: the numbering gives a record to a payment that was written off |
| `rates_cache` | `MCPartsRates.cfg` | as `parts` | violation: built-in rates overwrite cached ones |
| `planning` | `MCPlanning.cfg` | see below | 11 properties of the components of `MCPlanning` |

**Why one run for many modules.** The components of `MCParts` share no state that their
properties are about; where two act on each other, they are composed inside one module (the records and the budgets or the reports on them; the migration and
the application; the export and the window in `Exchange`). `part` picks one of them in the initial
state, and only that one moves, so the run is the union of the components' runs and not their
product. `Rates`, `Import`, `Backup`, `AppUpdate`, `Mandatory`, `Portfolio`, `Distribution` and `FirstStart` are extended, not instantiated, so that the properties checked are the very definitions that
the theorems name. `PartsAssumption` and `PlanningAssumption` give TLC the assumptions of the instances on their constants.

**The bounds**, and why they are enough to meet the cases:

* `ledger`: a renumbering changes a transfer's id only when a transfer before it is gone: two
  transfers. Five records hold two pairs of legs and a commission or a plain record below them, so that
  ids shift. With an amount of 1 and a balance of 2 every commission left out of a check changes an
  outcome. `MaxRecords` also bounds the counter, with room for one gap.
* `debts*`: two debts and two payments let a payment be linked to a record of the wrong debt, and an
  id move onto another row.
* `Mandatory`: years of two months, of one, two, one and one days, so that a monthly payment of the second day meets
  shorter months and years end; 2 wallets, 1 template, 2 records. The module admits two templates that read alike; the run has one.
* `Tags`: 2 names (a rename is a merge), 3 records, 3 ids (a gap that moves two rows).
* `Startup`: 4 rows, of which at most one is an automatic payment.
* `Import`: a database with two payments; seven files: a whole backup with a transfer, a payment, one written off
  and a plain record that looks like it; a broken one; records only; wallets only; tables with a whole, with half a
  transfer and with nothing. Every step may raise.
* `AppUpdate`: five versions with pre-releases, four release lists. `Backup`: one backup kept, 2
  commits, 11 writes. `Rates`: one change of the settings under any interleaving of three threads.
* `JsonStore`: three kinds of old files, 2 ids given, 4 rows. `Migration`: nine sources: empty, with a
  row in every table, and one for each way to be refused.
* `Distribution`: 2 months, an item with a subitem and one more line. `Portfolio`: 2 assets of two currencies, 2 values,
  2 goals, 2 days, one backup. A deletion of the highest goal is what makes the numberings differ.
* `Views`: three records out of eight forms over three months of two days; months, years and the
  days of a report have ends to be off by one at. `Budgets`: 2 budgets that share a day.
* `Exchange`: 2 entries, 2 wallets, one file, one later change; all kinds of files, policies and removed tables.
* `FirstStart`: no bound; three currencies, one for each set of providers (tenge, roubles, any other).

**Fairness.** `Ledger` (`FairSpec`): the renumbering follows the deletion unless the process stops (it
is the straight-line code after it), and the program is started again some day. `Startup` (`FairSpec`):
weak fairness of the worker's step and of the window's step, because a thread runs on and a handler that began returns;
strong fairness of the poll, because the event loop interleaves timers with handlers, so that the poll, which
is enabled between any two of them, is reached. No user operation ever has to happen. That the mode
of the rates settles, or an export ends, is not stated.

**Deadlock** is checked in `ledger*` and `debts*`. A wiped ledger is not one: a refused start can be
tried again. In `startup`, `parts` and `planning` it is not checked, because they end at their bounds (rows and days run
out, the files are used up).

## What the violations show

* `delete_all` keeps the rows of `transfers`. Every renumbering after that raises, and the next start
  is refused ("has 0 records (expected 2)"). `RefusedOnlyAfterWipe` shows that nothing else
  leads there.
* A commission is found by the transfer id in its text, which no renumbering changes. After
  another transfer is deleted, the commission outlives its own.
* A debt operation cut off between two commits leaves `total # remaining + paid`, which the
  audit reports as an error. A crash alone is enough for it.
* `delete_payment` renumbers and then saves the debt under the id it had before. That needs debt ids
  with a gap, which only an earlier operation that was cut off leaves, in the same session.
* An import numbers everything again and gives each payment without a record one of its debt's type,
  date and amount, also a payment that was written off and never had one. The repository's own re-linking excepts it.
* Saving the settings replaces the aggregator without the lock. A fetch under way, answered by the built-in
  rates, then asks the new aggregator who answered, and saves them over the cached ones. `CacheHoldsUnlessReplaced`
  shows that nothing else leads there.

## What is proved

Every theorem holds for all values of the constants that satisfy the module's assumption; where it needs more, its statement says
so. Each inductive invariant was given to TLC as an invariant of the module's run before it was proved.

*Ledger* (`LedgerProofs`, from `LedgerAssumption`: any number of wallets, records and transfers; any amounts). Every
safety property of the run `ledger` is a theorem.

* `TypeCorrect`, `TransfersAgree`, `StartRefusesOnlyWiped` follow from `InvariantHolds`. None of the three is
  inductive alone: that a transfer's legs
  survive a rewrite needs the types (ids are positive and finite in number, references resolve);
  that a start is refused only to a wiped ledger needs the agreement of every transfer that has legs,
  because `StartRaises` and the integrity check ask for two legs and the agreement says which
  transfers lack them.
* The argument has two halves. `BooksReinserted`: lists that agree still agree after reinsertion,
  because a row's new id is its rank, the rank grows with the id, is onto 1..n, and leaves NULL at NULL
  (`TablesProofs`). `CreatedTransferAgrees`, `MovedTransferAgrees`, `DeletedTransferAgrees`,
  `PlainRowsDoNotMatter`: the lists that each use case hands over agree.
* `OneGapAtRest`, `StartsAreNormal`, `InactiveStaysSo`, `RenumberingChangesIdsOnly`, `CoveredStaysCovered` are about steps.
  `StepKinds` says once what each step does to the tables (a row more, a row changed, a row less, a rewrite of given lists),
  and they argue by its cases.
* `RenumberingChangesIdsOnly` and `CoveredStaysCovered` are about money. A balance is a sum over a set of rows; a rewrite renames the rows it
  runs over one to one (`RewrittenRows`, `PaidRewritten`), and such a renaming keeps the sum (`TotalRenamed` of `TablesProofs`).

*Tables* (`TablesProofs`). The lemmas about ranks, reinsertion and sums that the others use. Sums are defined by a fold. Induction over
data is had in another form: a set of numbers (or of subsets of a finite set) that holds the first and with each the next is all of them
(`NatInductionSet`, `SubsetInduction`); a set is no operator, so the provers can instantiate it.

*Debts* (`DebtsProofs`, from `DebtsAssumption`: any number of debts, records and payments, any amounts). Every property of the
runs `debts` and `debts_cut_off`.

* `TypeCorrect`, `StatusFollowsRemainder` and `LinksStayTrue` hold at every commit, whatever is interrupted, however often.
  `BalanceUntilCutOff` is the balance as long as nothing was.
* The invariant `IInv` has three parts. `TablesAgree`: types, foreign keys, links. `OperationOK`: what an operation under way
  carries over its commits is still true of the tables (the debt it saves next, the ids it started from). `Calm`, while nothing was
  interrupted: ids are dense, so that a renumbering moves no debt, the payment to be deleted is the one asked for, and each debt is what is unpaid of it and what was paid, counting the
  commits still to come (`Balanced`). One lemma for each action shows that it keeps `IInv`.
* That links stay true through a renumbering is an induction over the payments: each search takes its record from those
  not in use.
* `BalanceHolds`, `DeletesTheRightPayment` and `SavesTheRightDebt` assume `MaxInterrupts = 0`, the
  constant of the run `debts`. Without it they are false: the runs `debts_balance` and `debts_reopen` show how.

*Portfolio* (`PlanningProofs`, from `PortfolioAssumption`: any assets, values, goals, days, rates and backups that are accepted).

* `TableIsABook` is the refinement: initial states are the empty book, and each action is `Enter`, `Restore` or a stutter of
  `SnapshotBook` under `BookOf(snapshots)`; and the bulk form enters exactly what was given.
* The service gives numbers to the values of a form before any is saved; the table gives its own as they come, and a
  value may take the place of one of its day. So the k-th number of the service can be too high, and the argument is that it is
  never one in use: values are never deleted one by one, so the counter is at the highest id (`IInv`), and the k-th number is above
  all ids of the k - 1 values before it (`FormEntered`). Hence `IndexIsKept` too.
* `ErrorsSaveNothing` is `FailureSavesNothing`. Goals are deleted one by one, and their exception is just where the counter is not at the highest id.
* The numbers of a form are written with `Nth` and the saving as one fold (`SavedInTurn`), of which `InTurnDef` gives the equation.
  `SetToSortSeq` of the community modules says the same, but tlapm cannot expand it.

*Distribution* (`PlanningProofs`, from `DistributionAssumption`: any months, signed amounts, lines, percentages, backups whose subitems have
items). `DistributionTyped`, `DistributionAddsUp` (`SharesAddUp`), `FixedMonthsStay` (`FixedRowsStay`).

* A share is the amount times the percentage, rounded half away from zero. `RoundedNear` says that twice the error, in units of one
  hundred percent, is at most one hundred percent, for negative incomes too; `ErrorsAdd` adds the errors up over the lines by
  induction over subsets; when the percentages are one hundred, what is left is the sum of the shares against the amount.
* The types are not idle: a share of a subitem exists because its item does, by `LinesOK`, which every edit has to keep (a deletion
  takes the subitems along, a new id is above all others).

*Budgets* (`PlanningProofs`, from `BudgetsAssumption`: any records, forms, limits, days and tables of budgets to import).
`BudgetsKeepTheirWord` (`BudgetsHold`), `BudgetsTyped`. The assumption asks of records, forms and imported tables what the schema's
checks ask (amounts not negative, a limit above 0, a start that is not after the end), and of an imported table that its own budgets do not overlap.

* `DaySharedIsOverlap`: the comparison of the ends of two periods finds every day they share, so the check when a budget is created is enough;
  changes of the limit keep the days, and an import replaces the whole table.
* `ForecastComesTrue` holds of whatever was spent, which is a natural number (`SpentIsNumber`). On the last day the projection multiplies
  by the number of days it has divided by, and rounding a multiple gives it back (`RoundedExactly`). Before it, a rounded projection above the limit
  means that the exact one is above it (`RoundedAbove`): spent times all days exceeds the limit times the days so far, and therefore what is left of the limit lasts
  less than what is left of the days (`GoneBeforeTheEnd`). The quotients are exact; the code divides floating-point numbers.

*Startup* (`StartupProofs`, from `StartupAssumption`: any number of rows and due payments). `RowsStay`,
`DeletesShown`, `TypeCorrect`. Neither action property follows from the guards alone: that a rewrite loses nothing needs
that what its thread has read is still what the table holds. `Current` is that strengthening: while the window is
busy no handler is under way, so what the worker read, and later what the list shows, is current; and
the first list comes before a click, so that positions in it are positions in the table.

*Rates* (`PartsProofs`, from `RatesAssumption`: any number of changes of the settings). `CacheHolds`, `SwitchTold`,
`TypeCorrect`. `Locking` says the lock is with the one task that acts under it. From it follows `Fetching`: between
an answer and its use nobody but the settings touches the aggregator, so built-in rates are still marked as such, unless the
cache held them already. `Switching` follows the mode from the click to the saved preference.

*Backup* (`PartsProofs`, from `BackupAssumption`: any number of backups kept, of commits and of times). `BackupsAreCurrent`
(`BackupIsCurrent`), `BackupTyped`. That the JSON file of an earlier, slower export can be newer than commits it lacks
is why the property is not the guard of `Check`. `Fresh` is the reason it does no harm: opening the database writes the files
beside it after every JSON file there is, so a start always finds an export due; and the copy an export
writes is never behind its own maintenance.

*Application update* (`PartsProofs`, from `AppUpdateAssumption`: any versions and lists of releases). `UpdatesAreForward`
(`UpdatesGoForward`), `UpdateTyped`. `Offering`: what is being downloaded or asked about is newer than what runs, because nothing is
installed while the application runs; and the settings tab, once built, offers what the database notes, so that no step drops a note
it does not show. `NewerIsAbove`: the comparison of the code is the order of versions, pre-releases before their release.

*Mandatory* (`PartsProofs`, from `MandatoryAssumption`: any calendar of whole years, lengths of weeks, wallets, names and bounds).
`PaymentsAreBookedOnce` (`BooksWhatIsDueOnce`), `TargetIsDue`, `MandatoryTyped`.

* `TargetIsDue` says that the code's arithmetic and `DueDays` agree: the date computed, where the code books on it, is due, and
  no other day is. It rests on the calendar (months follow each other and cover the days, `DaysOfMonths`; a year has one month for each place,
  `MonthInYear`), on `ClampedIsSameDay` and its converse for short months, and on division with remainder for weeks (`WeekDay`).
* `Applying`: while the worker runs, what it has seen is what is booked; what it has left to do is an end of the templates, and what was due of
  the others is booked. The user would break each part; so `WindowDisabled` is a hypothesis of the theorem, as it is the constant of the run.

*Tags* (`PartsProofs`, from `TagsAssumption`: any names, colours, dates and bounds). `LabelsOutlastRenumbering`
(`TagsSurviveRenumbering`: all three parts), `TagsTyped`.

* `TagsData` says that a name has one row, ids are up to the counter and records have tags that are there. `CountedData`: what ends every save keeps the
  names of all records and the colours of all rows, because each renumbered row is an old one under its rank (`NormalizedData`),
  and makes the uses right whatever they were.
* `RebuiltData`: the place of a name among the records is one of 1..n and no two names share it (`ChainPlaces`), so the tables made again
  hold each name once and give each record the names it had.
* Uses are right (`UsesRight`) whenever no deletion is under way or was cut off; then the audit, which counts pairs of records and tags
  where `Users` counts records, finds nothing (`NothingFound`).

*Import* (`ImportProofs`, from `ImportAssumption`: any database whose payments have a debt and a record that are there, any files
of any length). Both properties that the run `parts` checks of this module, and its types.

* `FailureIsUndone` needs only `IInv`: nothing is committed between the confirmation and the copy, and the copy stays what it is
  until the import ends.
* `AllOrNothing` adds `ImportIsWhole`. The end of an import is a recursion over the payments on top of one over
  the rows on top of tables that many commits made. `WInv` says what every commit leaves: rows and links of their types, no record taken
  twice, limits as before once the operations are in. The two re-linkings are `Restoring` and `Joining`, step by step:
  links so far lead to records of the payment's debt, other payments keep theirs, and a record in use is not given again;
  `UpToInduction` and `StepsFollow` carry such an invariant from 0 to n. That the transfers come out as 1..n is that `ByDate` counts
  those before each, in a total order.
* `PaymentsKept` adds `LinksKept`: between the commits of a backup's import, payment k has the record that it had in the backup, by its
  name, and a record of its debt. Re-linking then leaves it (`RelinkNext` keeps what is of no other debt), and the numbering of the rows does not move it:
  what is made of the first k rows has their names in their places (`Placed`), because an expense leg takes along the income leg that stands next to it.
* Two hypotheses stand in the statements and not in `ImportAssumption`, because the code does not check them.
  `RecordsApartAtFirst`: no two payments of the first database, or of one file, have one record. The schema does not ask for it; the debt
  operations keep it (`LinksStayTrue` of `DebtsProofs`). `BackupsAsWritten`: in a backup an income leg comes right after the
  expense leg, as a transfer is saved (`app/use_cases_pkg/transfers.py:131`), and payments have records of their debt (`LinksStayTrue` again).
  Without it `PaymentsKeepTheirRecords` is false, because transfers are moved together (see below). TLC
  evaluates both for the run's files (`PartsAssumption`).

*First start* (`FirstStartProofs`, from `FirstStartAssumption`: any currencies that have tenge among them). All that the run `planning` checks
of this module: `InTheirCurrency` (`AmountsInBase`), `AnswerHolds` (`ChoiceHolds`), `OpenIsWhole` (`OpensWhole`), `RefusedOnce`
(`StartsAgain`), `TypeCorrect` (types and `FormIsValid`). The run's own definitions add only that it is this component that moves.

* `AmountsInBase` is not inductive: `Counted` adds that amounts entered have a wallet, and are in tenge while no
  base currency stands, wherever the process is; `Settled` that the migration is behind the later places. `ApplyBase` then
  changes no currency that has amounts.
* `Answered` follows an answer of the setup: as long as there is no wallet the process carries the last answer, and the base currency is
  none, or tenge, or that answer, unless a process ended between the two commits.
* `Orderly` is what the tables can be when no process ended between two renames: `BeforeRenames`, as an old version left them;
  `AmongRenames`, as the first k statements of the script do (`After`, `RenameStep`); `AfterRenames`, as the schema creates them,
  in its order. Each goes with certain places of the process and with what was refused or cut off before.

Only model-checked:

* Liveness, which is out of the prover's reach: `DeletionGapCloses`, `WindowComesBack`.
* `JsonStore`, `Migration`, `Views`, `Reports`, `Exchange`: all their properties. Most of them compare two recursions or folds over arbitrary rows.
* Of `Budgets`: that what was spent is what the analytics tell (`BudgetsAgree`, in the invariant `ViewsAgree`).
* Of `Portfolio`: that the dashboard shows what the tables hold (`DashboardIsCurrent`, `AuditObjects`, in the invariant `ViewsAgree`).
* The properties that the violation runs refute.

## What the models taught

Behaviour that the models show and that no document of the repository speaks about, so that it is
neither a violation nor a promise. The properties name these cases as their exceptions.

*Ledger and tags.* Deleting the newest record and crashing before the renumbering leaves ids 1..n,
which the next start finds normal, but the counter stays one ahead, so the next record leaves a gap; hence
"at most one gap", not "no gap". A rewrite after a deletion loses the colours chosen for tags.
`delete_tag` neither prunes nor renumbers.

*Debts.* Deleting the record of a cash payment among the operations leaves the payment without one, and the next renumbering
may link it to another record of its debt, of the same kind, day and amount.

*Start.* `normalize_tag_ids` runs outside `with self._conn` at the end of a save and leaves a transaction open; a second
connection that writes meanwhile fails after its timeout, and with it the deferred start. Automatic payments run
before the freezing of closed months, so what they book for a closed month is in its row. They ignore whether
the wallet is still active.

*First start.* A stop between two renames of migration 002 leaves a database in which the next start either takes the records
for migrated and skips the rest, or finds a column missing; later starts fail, or open without budgets under their new name.
A stop after `transfers` and before `records` makes every later start fail ("no such table"). A database of before
budgets is refused once and opens the second time. Budgets of a version without minor units keep 0 there. An answer stored
before a stop keeps its currency, though the next setup is answered with another.

*Import.* A skipped row of a JSON file shifts the numbers that payments point at, and so does a transfer whose legs do not stand
together, because both are created where the first one stood. A JSON file with records
alone keeps the payments of the database with their old numbers; one without "records" wipes all records, and be it that
wallets are all it has: only a file with nothing at all is left alone. A crash
in the middle leaves half an import. The file is parsed again at the commit and may be another than the one previewed.
A bulk import restores the colours of tags, and the rewrite at its end loses them.

*Files.* A backup of the settings has no table of tags: colours and unused names are lost. The legs of a transfer are made
anew by an import, without their words and tags, and the transfer's words are taken from its expense leg: after a second
trip the words are gone. Tables lose links to debts and the tags of mandatory expenses. A statement imports into
wallet 1. A backup read table by table under a window in use may be torn; the one made at the start is a copy. Files with wallets 1
and 3: the rows of a missing wallet 2 land in the wallet that now is 2, while the second reader skips them. A table with a row of
an inactive wallet is refused. The JSON copy is due at every start, because opening the database touches its side files.

*Distribution, budgets, assets.* An import lowers the counter of items, so a new item may get the id of one that fixed rows still name.
An import of budgets checks no overlaps (what the program itself exports has none); renaming a tag leaves budgets on the old name. A goal created after the highest one was deleted is saved, and reported as not found.
The bulk form fills in old values and saves them again under today's date, and takes days before the asset was created, which the audit
calls an error.

*Views.* Charts tell transfers by their category's text, analytics by the link. The sheets by category sum amounts without
sign, those by tag net of it. The timeline counts the records of deleted wallets without what these began with; the report of all wallets counts
both. The tab of reports falls back to all wallets when the chosen one was deleted.

*Rates and updates.* The time of the last fetch is set also when rates came from the cache or were built in. A start in offline mode
uses built-in rates though a cache exists. The update check takes the first newer release of the list, not the newest. A crash between
the end of a download and its note leaves the file and no note.

*JSON repository, migration.* Deleting one leg, all records, or saving a transfer alone makes later loads of the file raise. The
migration maps a payment's debt but not a record's (`related_debt_id` is inserted as it is), refuses a rerun after the
application has renumbered, and does not look at assets, goals or tags when it asks whether the target has data.

## Not modelled

* *GUI tabs, dialogs, themes, hotkeys, localisation, the debugging tools*: presentation. Where a handler's guard or order of calls
  matters, it is part of the module of the operation it starts.
* *Text*: parsing and formatting of dates and numbers, the layout of sheets and PDF, limits on file sizes. What a format loses is
  modelled (`Exchange`), how it is written is not.
* *Columns that old tables lack apart from those for amounts*, the rounding of stored amounts, and the move of an older
  version's data directory (`src/app_paths.py`).
* *Money as floats*: every module has integers.
* *Two processes* on the same cache of downloads or the same JSON file; the dry run of the migration, which writes nothing.
* *Vendored data, build files, tests.*

What could come next: proofs about the components of the last list, and of the dashboard's sums in
`Portfolio`; an id-free book of transfers implemented by `Ledger`; the move of the data directory.
