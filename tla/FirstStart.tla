----------------------------- MODULE FirstStart -----------------------------
(***************************************************************************)
(* The first start of a version on what it finds: no file, one that cannot *)
(* be read, a database of before migration 002 (amounts in columns *_kzt)  *)
(* or its own (src/gui/initial_setup.py, src/bootstrap.py,                 *)
(* src/migrations/, src/storage/sqlite_storage.py).                        *)
(*                                                                         *)
(* Columns are renamed and tables created by scripts of which every        *)
(* statement is a commit of its own; the process may end after each, and   *)
(* the next start works on what is there.  Of a table the model keeps its  *)
(* columns for the amount in base currency, and whether its two agree; the *)
(* integrity check that ends a start is in Ledger.                         *)
(***************************************************************************)
EXTENDS Integers, Sequences

CONSTANT Currencies   \* SUPPORTED_SETUP_CURRENCIES

FirstStartAssumption == "KZT" \in Currencies /\ "" \notin Currencies

VARIABLES
    disk,       \* the file: "none", "bad" (cannot be read) or "db"
    columns,    \* table -> its columns for the amount; {}: there is no such table
    agree,      \* table -> do its amounts in minor units agree with the others?
    baseCurrency, \* base_currency in schema_meta; "": there is none
    mainWallet, \* the currency of the system wallet; "": there is none
    entered,    \* the base currency when amounts were entered; "": no rows yet
    config,     \* the currency and providers in the configuration file, a form
    start,      \* [at, form, choice, step]: the process
    past        \* [cut, refused]: where processes were cut off; how many starts failed

firstStartVars ==
    <<disk, columns, agree, baseCurrency, mainWallet, entered, config, start, past>>

stored == <<disk, columns, agree, baseCurrency, mainWallet, entered>>

-----------------------------------------------------------------------------
(* The form of the setup. *)

Available(currency) ==
    {"exchange_rate", "static"}
        \cup (IF currency = "KZT" THEN {"nbk"} ELSE {})
        \cup (IF currency \in {"KZT", "RUB"} THEN {"cbr"} ELSE {})

DefaultPrimary(currency) ==
    IF currency = "KZT" THEN "nbk" ELSE IF currency = "RUB" THEN "cbr" ELSE "exchange_rate"

DefaultFallback(primary) == IF primary = "exchange_rate" THEN "static" ELSE "exchange_rate"

DefaultConfig == [base |-> "KZT", primary |-> "nbk", fallback |-> "exchange_rate"]

\* What the boxes show after a currency or a provider was picked.
Refreshed(form) ==
    LET offered == Available(form.base)
        primary == IF form.primary \in offered THEN form.primary ELSE DefaultPrimary(form.base)
    IN  [form EXCEPT
            !.primary = primary,
            !.fallback = IF @ \in offered \ {primary} THEN @ ELSE DefaultFallback(primary)]

Valid(form) ==
    /\ form.base \in Currencies
    /\ {form.primary, form.fallback} \subseteq Available(form.base)
    /\ form.primary # form.fallback

-----------------------------------------------------------------------------
(* The database. *)

Tables == {"records", "transfers", "mandatory_expenses", "budgets"}

\* In the order of schema.sql.
TablesInOrder == <<"transfers", "records", "mandatory_expenses", "budgets">>

\* Budgets have a limit: here it goes by the same names.
OldColumns == {"amount_kzt", "amount_kzt_minor"}

NewColumns == {"amount_base", "amount_base_minor"}

Rename(table, from, to) == [table |-> table, from |-> from, to |-> to]

Both(table) ==
    <<Rename(table, "amount_kzt", "amount_base"),
      Rename(table, "amount_kzt_minor", "amount_base_minor")>>

\* The script of migration 002.
Renames ==
    Both("records") \o Both("transfers") \o Both("mandatory_expenses") \o Both("budgets")

NoDatabase ==
    [columns |-> [t \in Tables |-> {}], agree |-> [t \in Tables |-> TRUE],
     wallet |-> "", entered |-> ""]

\* A version of before migration 002 left minor units in none of its tables, or in all;
\* one of before budgets had three tables.
OldDatabase(minor, tables) ==
    [columns |-> [t \in Tables |->
                    IF t \in tables
                    THEN IF minor THEN OldColumns ELSE {"amount_kzt"}
                    ELSE {}],
     agree |-> [t \in Tables |-> minor \/ t \notin tables],
     wallet |-> "KZT", entered |-> "KZT"]

\* One whose own first start had made the tables, and was cut off before the wallet.
UnusedDatabase ==
    [OldDatabase(TRUE, Tables) EXCEPT !.wallet = "", !.entered = ""]

FirstStartInit ==
    /\ \E d \in {NoDatabase, UnusedDatabase, OldDatabase(TRUE, Tables),
                 OldDatabase(FALSE, Tables), OldDatabase(TRUE, Tables \ {"budgets"})} :
          /\ columns = d.columns /\ agree = d.agree
          /\ mainWallet = d.wallet /\ entered = d.entered
          /\ disk \in IF d = NoDatabase THEN {"none", "bad"} ELSE {"db"}
    /\ baseCurrency = ""
    /\ config = DefaultConfig
    /\ start = [at |-> "off", form |-> DefaultConfig, choice |-> "", step |-> 0]
    /\ past = [cut |-> {}, refused |-> 0]

At(place) == start.at = place

Goes(place) == start' = [start EXCEPT !.at = place, !.step = 0]

Refuse ==
    /\ Goes("refused")
    /\ past' = [past EXCEPT !.refused = IF @ = 2 THEN 2 ELSE @ + 1]
    /\ UNCHANGED <<stored, config>>

-----------------------------------------------------------------------------
(* Setup: src/gui/initial_setup.py. *)

\* A file that cannot be read is moved aside, or not: then it is still there.
Launch(moved) ==
    /\ At("off")
    /\ disk' = IF disk = "bad" /\ moved THEN "none" ELSE disk
    /\ start' = IF baseCurrency # "" /\ mainWallet # ""
              THEN [start EXCEPT !.at = "connect", !.choice = ""]
              ELSE [start EXCEPT !.at = "setup", !.form = Refreshed(config)]
    /\ UNCHANGED <<columns, agree, baseCurrency, mainWallet, entered, config, past>>

Pick(form) ==
    /\ At("setup")
    /\ start' = [start EXCEPT !.form = form]
    /\ UNCHANGED <<stored, config, past>>

PickBase(currency) == Pick(Refreshed([start.form EXCEPT !.base = currency]))

PickPrimary(name) ==
    /\ name \in Available(start.form.base)
    /\ Pick(Refreshed([start.form EXCEPT !.primary = name]))

PickFallback(name) ==
    /\ name \in Available(start.form.base) \ {start.form.primary}
    /\ Pick([start.form EXCEPT !.fallback = name])

Save ==
    /\ At("setup") /\ Valid(start.form)
    /\ config' = start.form
    /\ start' = [at |-> "connect", form |-> DefaultConfig, choice |-> start.form.base,
                 step |-> 0]
    /\ UNCHANGED <<stored, past>>

Cancel ==
    /\ At("setup")
    /\ start' = [start EXCEPT !.at = "off", !.form = DefaultConfig]
    /\ UNCHANGED <<stored, config, past>>

-----------------------------------------------------------------------------
(* Opening the database. *)

\* _run_startup_migrations, up to the migration.
Connect ==
    /\ At("connect")
    /\ \/ disk = "bad" /\ Refuse
       \/ /\ disk # "bad"
          /\ disk' = "db"
          /\ Goes(IF \E t \in Tables : columns[t] # {} THEN "migrate" ELSE "create")
          /\ UNCHANGED <<columns, agree, baseCurrency, mainWallet, entered, config, past>>

\* The migration is called before the schema is applied, and again after.
Migrating == At("migrate") \/ At("migrate_again")

Migrated ==
    /\ baseCurrency' = IF baseCurrency = "" THEN "KZT" ELSE baseCurrency
    /\ Goes(IF At("migrate") THEN "create" ELSE "upgrade")

\* It looks at the records alone to see whether it was here before.
MigratedBefore == "amount_base" \in columns["records"]

MigrateNothing ==
    /\ Migrating /\ start.step = 0 /\ MigratedBefore
    /\ Migrated
    /\ UNCHANGED <<disk, columns, agree, mainWallet, entered, config, past>>

\* (Mutant of LacksMinor: columns that a version had not are not added first.)
LacksNothing(t) == FALSE

\* A column that was added holds 0.
LacksMinor(t) == columns[t] \cap {"amount_kzt", "amount_kzt_minor"} = {"amount_kzt"}

AddMinor(t) ==
    /\ Migrating /\ start.step = 0 /\ ~MigratedBefore
    /\ LacksMinor(t)
    /\ columns' = [columns EXCEPT ![t] = @ \cup {"amount_kzt_minor"}]
    /\ UNCHANGED <<disk, agree, baseCurrency, mainWallet, entered, config, start, past>>

RenameNext ==
    /\ Migrating
    /\ start.step = 0 => ~MigratedBefore /\ \A t \in Tables : ~LacksMinor(t)
    /\ start.step < Len(Renames)
    /\ LET r == Renames[start.step + 1]
       IN  \/ /\ r.from \in columns[r.table]
              /\ columns' = [columns EXCEPT ![r.table] = (@ \ {r.from}) \cup {r.to}]
              /\ start' = [start EXCEPT !.step = @ + 1]
              /\ UNCHANGED <<disk, agree, baseCurrency, mainWallet, entered, config, past>>
           \/ r.from \notin columns[r.table] /\ Refuse

RenamesDone ==
    /\ Migrating /\ start.step = Len(Renames)
    /\ Migrated
    /\ UNCHANGED <<disk, columns, agree, mainWallet, entered, config, past>>

\* schema.sql, a table at a time.
CreateNext ==
    /\ At("create")
    /\ \/ \E i \in DOMAIN TablesInOrder :
             /\ columns[TablesInOrder[i]] = {}
             /\ \A j \in 1 .. i - 1 : columns[TablesInOrder[j]] # {}
             /\ columns' = [columns EXCEPT ![TablesInOrder[i]] = NewColumns]
             /\ UNCHANGED start
       \/ /\ \A t \in Tables : columns[t] # {}
          /\ Goes("migrate_again")
          /\ UNCHANGED columns
    /\ UNCHANGED <<disk, agree, baseCurrency, mainWallet, entered, config, past>>

\* Tables whose minor units are filled in where they are 0; budgets are not among them.
Filled == Tables \ {"budgets"}

\* _ensure_money_precision_columns: one transaction.
Upgrade ==
    /\ At("upgrade")
    /\ \/ /\ \A t \in Filled : "amount_base" \in columns[t]
          /\ columns' = [t \in Tables |->
                           IF t \in Filled THEN columns[t] \cup {"amount_base_minor"}
                           ELSE columns[t]]
          /\ agree' = [t \in Tables |-> agree[t] \/ t \in Filled]
          /\ Goes("base")
          /\ UNCHANGED <<disk, baseCurrency, mainWallet, entered, config, past>>
       \/ /\ \E t \in Filled : "amount_base" \notin columns[t]
          /\ Refuse

\* (Mutant of MayStillChoose: tenge are taken for no choice, whoever has used them.)
TengeIsNoChoice == baseCurrency \in {"", "KZT"}

\* The migration writes tenge into every database, a new one too.
MayStillChoose == baseCurrency = "" \/ (baseCurrency = "KZT" /\ mainWallet = "")

\* _apply_initial_base_currency
ApplyBase ==
    /\ At("base")
    /\ baseCurrency' = IF start.choice # "" /\ MayStillChoose THEN start.choice
                       ELSE baseCurrency
    /\ Goes("wallet")
    /\ UNCHANGED <<disk, columns, agree, mainWallet, entered, config, past>>

\* _ensure_system_wallet
EnsureWallet ==
    /\ At("wallet")
    /\ mainWallet' = IF mainWallet = "" THEN baseCurrency ELSE mainWallet
    /\ Goes("open")
    /\ UNCHANGED <<disk, columns, agree, baseCurrency, entered, config, past>>

-----------------------------------------------------------------------------
\* The user enters amounts; they are counted in the base currency.
Enter ==
    /\ At("open") /\ entered = ""
    /\ entered' = baseCurrency
    /\ UNCHANGED <<disk, columns, agree, baseCurrency, mainWallet, config, start, past>>

\* Where a process leaves what the next start does not see.
CutOff ==
    (IF Migrating /\ start.step \in 1 .. Len(Renames) - 1 THEN {"rename"} ELSE {})
        \cup (IF columns["transfers"] # {} /\ columns["records"] = {} THEN {"create"} ELSE {})
        \cup (IF At("wallet") /\ mainWallet = "" /\ baseCurrency # "KZT" THEN {"wallet"}
              ELSE {})

\* The window is closed or the process ends, in the middle of anything.
Stop ==
    /\ ~At("off")
    /\ start' = [at |-> "off", form |-> DefaultConfig, choice |-> "", step |-> 0]
    /\ past' = [past EXCEPT !.cut = @ \cup CutOff]
    /\ UNCHANGED <<stored, config>>

FirstStartNext ==
    \/ \E moved \in BOOLEAN : Launch(moved)
    \/ \E currency \in Currencies : PickBase(currency)
    \/ \E name \in {"nbk", "cbr", "exchange_rate", "static"} :
          PickPrimary(name) \/ PickFallback(name)
    \/ Save \/ Cancel
    \/ Connect
    \/ MigrateNothing \/ (\E t \in Tables : AddMinor(t)) \/ RenameNext \/ RenamesDone
    \/ CreateNext \/ Upgrade \/ ApplyBase \/ EnsureWallet
    \/ Enter \/ Stop

FirstStartSpec == FirstStartInit /\ [][FirstStartNext]_firstStartVars

-----------------------------------------------------------------------------
(* Properties. *)

Places ==
    {"off", "setup", "connect", "migrate", "create", "migrate_again", "upgrade",
     "base", "wallet", "open", "refused"}

FirstStartTypeOK ==
    /\ disk \in {"none", "bad", "db"}
    /\ columns \in [Tables -> SUBSET (OldColumns \cup NewColumns)]
    /\ agree \in [Tables -> BOOLEAN]
    /\ {baseCurrency, mainWallet, entered} \subseteq Currencies \cup {""}
    /\ Valid(config)
    /\ start.at \in Places /\ start.step \in 0 .. Len(Renames)
    /\ past.cut \subseteq {"rename", "create", "wallet"} /\ past.refused \in 0 .. 2

\* Whatever is picked in whatever order, "Continue" is never refused for its providers.
FormIsValid == At("setup") => Valid(start.form)

\* A process may end anywhere but between the renames, or between the creation of
\* transfers and of records: the next start opens the database.  One of before budgets
\* is refused once (a rename finds no table), and opens the next time.
StartsAgain ==
    At("refused") /\ past.cut = {} /\ disk = "db" =>
        past.refused = 1 /\ columns["budgets"] = {}

\* An open database has every amount under the name the code reads, in both columns,
\* which agree, but for the budgets of a version without minor units.
ColumnsAreWhole ==
    At("open") /\ "rename" \notin past.cut =>
        \A t \in Tables : columns[t] = NewColumns /\ (agree[t] \/ t = "budgets")

\* A database of any version opens, whole, wherever earlier starts were cut off but
\* between two renames, or between the creation of transfers and of records.
OpensWhole == StartsAgain /\ ColumnsAreWhole

\* Amounts stay in the currency they were entered in: of an old database in tenge,
\* whatever the setup, which is shown for it too, was answered.
AmountsInBase == At("open") /\ entered # "" => entered = baseCurrency /\ mainWallet # ""

\* New books are in the currency of the setup that was answered last, unless an
\* answer before it was stored and the process ended before the wallet was.
ChoiceHolds ==
    [][mainWallet = "" /\ mainWallet' # "" =>
          mainWallet' = config.base \/ "wallet" \in past.cut]_firstStartVars

\* New books are in the currency of the setup, old amounts stay in theirs, and the
\* form of the setup can always be saved.
BooksKeepTheirCurrency == [](AmountsInBase /\ FormIsValid) /\ ChoiceHolds
=============================================================================
