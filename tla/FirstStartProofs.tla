-------------------------- MODULE FirstStartProofs --------------------------
(***************************************************************************)
(* For any currencies of the setup: the types and the form that is always  *)
(* valid (FirstStartTypeOK, FormIsValid); that amounts stay in the currency they     *)
(* were entered in (AmountsInBase) and new books are in that of the last   *)
(* answer (ChoiceHolds); that an open database is whole (ColumnsAreWhole) and a *)
(* start is not refused for nothing (StartsAgain).                         *)
(*                                                                         *)
(* Nothing is entered before there is a wallet, and no answer of the setup *)
(* replaces the base currency where there is one; amounts of an old        *)
(* database are in tenge, which the migration writes where no base         *)
(* currency stands (Counted, Settled, Answered).                           *)
(*                                                                         *)
(* Unless a process ended between two renames, the tables are as an old    *)
(* version left them, or as the first statements of the script do (After), *)
(* or as the schema creates them, and each only at certain places of the   *)
(* process (Orderly).                                                      *)
(***************************************************************************)
EXTENDS FirstStart, SequenceTheorems, TLAPS

Maybe == Currencies \cup {""}

Providers == {"nbk", "cbr", "exchange_rate", "static"}

Form == [base : Currencies, primary : Providers, fallback : Providers]

Columns == OldColumns \cup NewColumns

Types ==
    /\ disk \in {"none", "bad", "db"}
    /\ columns \in [Tables -> SUBSET Columns]
    /\ agree \in [Tables -> BOOLEAN]
    /\ baseCurrency \in Maybe /\ mainWallet \in Maybe /\ entered \in Maybe
    /\ config \in Form /\ Valid(config)
    /\ start \in [at : Places, form : Form, choice : Maybe, step : 0 .. Len(Renames)]
    /\ FormIsValid
    /\ past \in [cut : SUBSET {"rename", "create", "wallet"}, refused : 0 .. 2]

\* What was entered was counted in the base currency, or in tenge before there was one.
Counted ==
    entered # "" =>
        /\ mainWallet # ""
        /\ entered = IF baseCurrency = "" THEN "KZT" ELSE baseCurrency

\* The migration is behind these places; the last has a wallet.
Settled ==
    /\ start.at \in {"upgrade", "base", "wallet", "open"} => baseCurrency # ""
    /\ At("open") => mainWallet # ""

IInv == Types /\ Counted /\ Settled

-----------------------------------------------------------------------------
(* The form and the script. *)

\* Whatever was picked, the boxes show providers that there are, and two of them.
LEMMA RefreshedIsValid ==
    ASSUME NEW form \in Form
    PROVE  Refreshed(form) \in Form /\ Valid(Refreshed(form))
BY DEF Form, Providers, Refreshed, Valid, Available, DefaultPrimary, DefaultFallback

\* So do the defaults.
LEMMA DefaultIsValid ==
    ASSUME FirstStartAssumption PROVE DefaultConfig \in Form /\ Valid(DefaultConfig)
BY DEF FirstStartAssumption, DefaultConfig, Form, Providers, Valid, Available

\* The renames are renames of columns of the four tables.
LEMMA RenamesType ==
    /\ Len(Renames) \in Nat
    /\ \A i \in 1 .. Len(Renames) :
          Renames[i] \in [table : Tables, from : OldColumns, to : NewColumns]
<1> DEFINE R == [table : Tables, from : OldColumns, to : NewColumns]
<1>1. \A t \in Tables : Both(t) \in Seq(R)
  <2> SUFFICES ASSUME NEW t \in Tables PROVE Both(t) \in Seq(R)
    OBVIOUS
  <2>1. /\ Rename(t, "amount_kzt", "amount_base") \in R
        /\ Rename(t, "amount_kzt_minor", "amount_base_minor") \in R
    BY DEF Rename, OldColumns, NewColumns
  <2> HIDE DEF R
  <2> QED BY <2>1 DEF Both
<1>2. /\ "records" \in Tables /\ "transfers" \in Tables
      /\ "mandatory_expenses" \in Tables /\ "budgets" \in Tables
  BY DEF Tables
<1> HIDE DEF R
<1>3. Renames \in Seq(R)
  <2>1. Both("records") \o Both("transfers") \in Seq(R)
    BY <1>1, <1>2
  <2>2. Both("records") \o Both("transfers") \o Both("mandatory_expenses") \in Seq(R)
    BY <1>1, <1>2, <2>1
  <2> QED BY <1>1, <1>2, <2>2 DEF Renames
<1>4. Len(Renames) \in Nat /\ \A i \in 1 .. Len(Renames) : Renames[i] \in R
  BY <1>3
<1> QED BY <1>4 DEF R

-----------------------------------------------------------------------------
(* Every step keeps the invariant. *)

\* What an old version left behind.
LEMMA OldDatabaseType ==
    ASSUME NEW minor \in BOOLEAN, NEW tables \in SUBSET Tables
    PROVE  OldDatabase(minor, tables) \in
               [columns : [Tables -> SUBSET Columns], agree : [Tables -> BOOLEAN],
                wallet : {"KZT"}, entered : {"KZT"}]
BY DEF OldDatabase, Columns, OldColumns, NewColumns

\* At the beginning: no database, or an old one whose amounts are in tenge.
LEMMA InitInvariant == ASSUME FirstStartAssumption, FirstStartInit PROVE IInv
<1> DEFINE Old == {NoDatabase, UnusedDatabase, OldDatabase(TRUE, Tables),
                   OldDatabase(FALSE, Tables), OldDatabase(TRUE, Tables \ {"budgets"})}
<1>1. PICK d \in Old : /\ columns = d.columns /\ agree = d.agree
                       /\ mainWallet = d.wallet /\ entered = d.entered
                       /\ disk \in IF d = NoDatabase THEN {"none", "bad"} ELSE {"db"}
  BY DEF FirstStartInit
<1>2. /\ d.columns \in [Tables -> SUBSET Columns] /\ d.agree \in [Tables -> BOOLEAN]
      /\ d.wallet \in {"", "KZT"} /\ d.entered \in {"", "KZT"}
      /\ d.entered = "KZT" => d.wallet = "KZT"
  <2>1. CASE d = NoDatabase
    BY <2>1 DEF NoDatabase
  <2>2. CASE d = UnusedDatabase
    <3> DEFINE o == OldDatabase(TRUE, Tables)
    <3>1. o \in [columns : [Tables -> SUBSET Columns], agree : [Tables -> BOOLEAN],
                 wallet : {"KZT"}, entered : {"KZT"}]
      BY OldDatabaseType
    <3>2. d = [o EXCEPT !.wallet = "", !.entered = ""]
      BY <2>2 DEF UnusedDatabase
    <3> HIDE DEF o
    <3> QED BY <3>1, <3>2
  <2>3. CASE d = OldDatabase(TRUE, Tables)
    BY <2>3, OldDatabaseType
  <2>4. CASE d = OldDatabase(FALSE, Tables)
    BY <2>4, OldDatabaseType
  <2>5. CASE d = OldDatabase(TRUE, Tables \ {"budgets"})
    BY <2>5, OldDatabaseType
  <2> QED BY <1>1, <2>1, <2>2, <2>3, <2>4, <2>5
<1>3. disk \in {"none", "bad", "db"}
  BY <1>1
<1>4. start = [at |-> "off", form |-> DefaultConfig, choice |-> "", step |-> 0]
  BY DEF FirstStartInit
<1>5. start \in [at : Places, form : Form, choice : Maybe, step : 0 .. Len(Renames)]
  <2>1. 0 \in 0 .. Len(Renames)
    BY RenamesType
  <2>2. "off" \in Places /\ "" \in Maybe
    BY DEF Places, Maybe
  <2> QED BY <1>4, <2>1, <2>2, DefaultIsValid
<1>6. baseCurrency = "" /\ config = DefaultConfig /\ past = [cut |-> {}, refused |-> 0]
  BY DEF FirstStartInit
<1>7. start.at = "off"
  BY <1>4
<1> HIDE DEF Old
<1>8. Types
  <2>1. /\ columns \in [Tables -> SUBSET Columns] /\ agree \in [Tables -> BOOLEAN]
        /\ baseCurrency \in Maybe /\ mainWallet \in Maybe /\ entered \in Maybe
    BY <1>1, <1>2, <1>6 DEF Maybe, FirstStartAssumption
  <2>2. past \in [cut : SUBSET {"rename", "create", "wallet"}, refused : 0 .. 2]
    <3>1. 0 \in 0 .. 2 /\ {} \in SUBSET {"rename", "create", "wallet"}
      OBVIOUS
    <3> QED BY <1>6, <3>1
  <2>3. FormIsValid
    BY <1>7 DEF FormIsValid, At
  <2> QED BY <1>3, <1>5, <1>6, <2>1, <2>2, <2>3, DefaultIsValid DEF Types
<1>9. Counted /\ Settled
  BY <1>1, <1>2, <1>6, <1>7 DEF Counted, Settled, At
<1> QED BY <1>8, <1>9 DEF IInv

\* The setup is shown with a form that is valid, unless all is settled.
LEMMA LaunchInvariant ==
    ASSUME IInv, NEW moved \in BOOLEAN, Launch(moved) PROVE IInv'
<1>1. Refreshed(config) \in Form /\ Valid(Refreshed(config))
  BY RefreshedIsValid DEF IInv, Types
<1>2. /\ start' \in [at : Places, form : Form, choice : Maybe, step : 0 .. Len(Renames)]
      /\ FormIsValid'
      /\ start'.at \in {"connect", "setup"}
  <2>1. CASE baseCurrency # "" /\ mainWallet # ""
    <3>1. start' = [start EXCEPT !.at = "connect", !.choice = ""]
      BY <2>1 DEF Launch
    <3> QED BY <3>1 DEF IInv, Types, Places, Maybe, FormIsValid, At
  <2>2. CASE ~(baseCurrency # "" /\ mainWallet # "")
    <3>1. start' = [start EXCEPT !.at = "setup", !.form = Refreshed(config)]
      BY <2>2 DEF Launch
    <3> QED BY <3>1, <1>1 DEF IInv, Types, Places, FormIsValid, At
  <2> QED BY <2>1, <2>2
<1>3. disk' \in {"none", "bad", "db"}
  BY DEF Launch, IInv, Types
<1>4. Types'
  BY <1>2, <1>3 DEF IInv, Types, Launch
<1>5. Counted' /\ Settled'
  BY <1>2 DEF IInv, Counted, Settled, Launch, At
<1> QED BY <1>4, <1>5 DEF IInv

\* A pick leaves a valid form.
LEMMA PickInvariant ==
    ASSUME IInv, NEW form \in Form, Valid(form), Pick(form) PROVE IInv'
<1>1. start' = [start EXCEPT !.form = form]
  BY DEF Pick
<1>2. Types'
  BY <1>1 DEF Pick, IInv, Types, FormIsValid, At, stored
<1>3. Counted' /\ Settled'
  BY <1>1 DEF Pick, IInv, Types, Counted, Settled, At, stored
<1> QED BY <1>2, <1>3 DEF IInv

\* The answer of the setup is a currency; a setup that is left has none.
LEMMA SetupInvariant == ASSUME FirstStartAssumption, IInv, Save \/ Cancel PROVE IInv'
<1>1. CASE Save
  <2>1. start' = [at |-> "connect", form |-> DefaultConfig, choice |-> start.form.base,
                  step |-> 0]
    BY <1>1 DEF Save
  <2>2. start' \in [at : Places, form : Form, choice : Maybe, step : 0 .. Len(Renames)]
    <3>1. 0 \in 0 .. Len(Renames) /\ "connect" \in Places
      BY RenamesType DEF Places
    <3>2. start.form.base \in Maybe
      BY DEF IInv, Types, Form, Maybe
    <3> QED BY <2>1, <3>1, <3>2, DefaultIsValid
  <2>3. config' \in Form /\ Valid(config')
    BY <1>1 DEF Save, IInv, Types
  <2>4. Types'
    BY <1>1, <2>1, <2>2, <2>3 DEF Save, IInv, Types, FormIsValid, At, stored, Valid
  <2>5. start'.at = "connect"
    BY <2>1
  <2>6. Counted' /\ Settled'
    <3>1. UNCHANGED stored
      BY <1>1 DEF Save
    <3> QED BY <2>5, <3>1 DEF IInv, Counted, Settled, At, stored
  <2> QED BY <2>4, <2>6 DEF IInv
<1>2. CASE Cancel
  <2>1. start' = [start EXCEPT !.at = "off", !.form = DefaultConfig]
    BY <1>2 DEF Cancel
  <2>2. start' \in [at : Places, form : Form, choice : Maybe, step : 0 .. Len(Renames)]
    BY <2>1, DefaultIsValid DEF IInv, Types, Places
  <2>3. start'.at = "off"
    BY <2>1 DEF IInv, Types
  <2>4. Types'
    BY <1>2, <2>2, <2>3 DEF Cancel, IInv, Types, FormIsValid, At, stored
  <2>5. Counted' /\ Settled'
    BY <1>2, <2>3 DEF Cancel, IInv, Counted, Settled, At, stored
  <2> QED BY <2>4, <2>5 DEF IInv
<1> QED BY <1>1, <1>2

\* The process goes to a place.
LEMMA GoesIs ==
    ASSUME IInv, NEW place \in Places, Goes(place), place # "setup"
    PROVE  /\ start' \in [at : Places, form : Form, choice : Maybe, step : 0 .. Len(Renames)]
           /\ start'.at = place /\ FormIsValid'
<1>1. start' = [start EXCEPT !.at = place, !.step = 0]
  BY DEF Goes
<1>2. start \in [at : Places, form : Form, choice : Maybe, step : 0 .. Len(Renames)]
  BY DEF IInv, Types
<1>3. 0 \in 0 .. Len(Renames)
  BY RenamesType
<1>4. /\ start' \in [at : Places, form : Form, choice : Maybe, step : 0 .. Len(Renames)]
      /\ start'.at = place
  BY <1>1, <1>2, <1>3
<1> QED BY <1>4 DEF FormIsValid, At

\* A start that is refused has changed nothing since its last commit.
LEMMA RefuseInvariant == ASSUME IInv, Refuse PROVE IInv'
<1>1. /\ start' \in [at : Places, form : Form, choice : Maybe, step : 0 .. Len(Renames)]
      /\ start'.at = "refused" /\ FormIsValid'
  BY GoesIs DEF Refuse, Places
<1>2. past' \in [cut : SUBSET {"rename", "create", "wallet"}, refused : 0 .. 2]
  BY DEF Refuse, IInv, Types
<1>3. Types'
  BY <1>1, <1>2 DEF Refuse, IInv, Types, stored
<1>4. Counted' /\ Settled'
  BY <1>1 DEF Refuse, IInv, Counted, Settled, At, stored
<1> QED BY <1>3, <1>4 DEF IInv

\* The file is there, or the start is refused.
LEMMA ConnectInvariant == ASSUME IInv, Connect PROVE IInv'
<1>1. CASE Refuse
  BY <1>1, RefuseInvariant
<1>2. CASE ~Refuse
  <2>1. PICK place \in {"migrate", "create"} : Goes(place)
    BY <1>2 DEF Connect
  <2>2. /\ start' \in [at : Places, form : Form, choice : Maybe, step : 0 .. Len(Renames)]
        /\ start'.at = place /\ FormIsValid'
    BY <2>1, GoesIs DEF Places
  <2>3. Types'
    BY <1>2, <2>2 DEF Connect, IInv, Types
  <2>4. Counted' /\ Settled'
    BY <1>2, <2>2 DEF Connect, IInv, Counted, Settled, At
  <2> QED BY <2>3, <2>4 DEF IInv
<1> QED BY <1>1, <1>2

\* The migration ends with a base currency: tenge, where there was none.
LEMMA MigratedInvariant ==
    ASSUME FirstStartAssumption, IInv, MigrateNothing \/ RenamesDone PROVE IInv'
<1>1. /\ Migrated
      /\ UNCHANGED <<disk, columns, agree, mainWallet, entered, config, past>>
  BY DEF MigrateNothing, RenamesDone
<1>2. PICK place \in {"create", "upgrade"} : Goes(place)
  BY <1>1 DEF Migrated
<1>3. /\ start' \in [at : Places, form : Form, choice : Maybe, step : 0 .. Len(Renames)]
      /\ start'.at = place /\ FormIsValid'
  BY <1>2, GoesIs DEF Places
<1>4. /\ baseCurrency' = IF baseCurrency = "" THEN "KZT" ELSE baseCurrency
      /\ baseCurrency' \in Maybe /\ baseCurrency' # ""
  BY <1>1 DEF Migrated, IInv, Types, Maybe, FirstStartAssumption
<1>5. Types'
  BY <1>1, <1>3, <1>4 DEF IInv, Types
<1>6. Counted' /\ Settled'
  BY <1>1, <1>3, <1>4 DEF IInv, Counted, Settled, At
<1> QED BY <1>5, <1>6 DEF IInv

\* A column is added, or renamed.
LEMMA RenameInvariant ==
    ASSUME IInv, (\E t \in Tables : AddMinor(t)) \/ RenameNext PROVE IInv'
<1>1. CASE \E t \in Tables : AddMinor(t)
  <2>1. PICK t \in Tables : AddMinor(t)
    BY <1>1
  <2>2. columns' \in [Tables -> SUBSET Columns]
    BY <2>1 DEF AddMinor, IInv, Types, Columns, OldColumns
  <2>3. Types'
    BY <2>1, <2>2 DEF AddMinor, IInv, Types, FormIsValid, At
  <2>4. Counted' /\ Settled'
    BY <2>1 DEF AddMinor, IInv, Counted, Settled, At
  <2> QED BY <2>3, <2>4 DEF IInv
<1>2. CASE RenameNext /\ ~Refuse
  <2> DEFINE r == Renames[start.step + 1]
  <2>1. /\ start.step \in Nat /\ start.step < Len(Renames)
        /\ start.at \in {"migrate", "migrate_again"}
    BY <1>2, RenamesType DEF RenameNext, Migrating, At, IInv, Types
  <2>2. r \in [table : Tables, from : OldColumns, to : NewColumns]
    BY <2>1, RenamesType
  <2>3. /\ columns' = [columns EXCEPT ![r.table] = (@ \ {r.from}) \cup {r.to}]
        /\ start' = [start EXCEPT !.step = @ + 1]
        /\ UNCHANGED <<disk, agree, baseCurrency, mainWallet, entered, config, past>>
    BY <1>2 DEF RenameNext
  <2> HIDE DEF r
  <2>4. columns' \in [Tables -> SUBSET Columns]
    <3>1. r.table \in Tables /\ r.to \in Columns
      BY <2>2 DEF Columns
    <3>2. columns \in [Tables -> SUBSET Columns]
      BY DEF IInv, Types
    <3> QED BY <2>3, <3>1, <3>2
  <2>5. start.step + 1 \in 0 .. Len(Renames)
    BY <2>1, RenamesType
  <2>6. /\ start' \in [at : Places, form : Form, choice : Maybe, step : 0 .. Len(Renames)]
        /\ start'.at = start.at
    <3>1. start \in [at : Places, form : Form, choice : Maybe, step : 0 .. Len(Renames)]
      BY DEF IInv, Types
    <3> QED BY <2>3, <2>5, <3>1
  <2>7. Types'
    BY <2>1, <2>3, <2>4, <2>6 DEF IInv, Types, FormIsValid, At
  <2>8. Counted' /\ Settled'
    BY <2>1, <2>3, <2>6 DEF IInv, Counted, Settled, At
  <2> QED BY <2>7, <2>8 DEF IInv
<1>3. CASE Refuse
  BY <1>3, RefuseInvariant
<1> QED BY <1>1, <1>2, <1>3

\* A table is created, or all are there.
LEMMA CreateInvariant == ASSUME IInv, CreateNext PROVE IInv'
<1>1. UNCHANGED <<disk, agree, baseCurrency, mainWallet, entered, config, past>>
  BY DEF CreateNext
<1>2. columns' \in [Tables -> SUBSET Columns]
  <2>1. columns \in [Tables -> SUBSET Columns] /\ NewColumns \in SUBSET Columns
    BY DEF IInv, Types, Columns
  <2>2. CASE UNCHANGED columns
    BY <2>1, <2>2
  <2>3. CASE \E i \in DOMAIN TablesInOrder :
               columns' = [columns EXCEPT ![TablesInOrder[i]] = NewColumns]
    BY <2>1, <2>3
  <2> QED BY <2>2, <2>3 DEF CreateNext
<1>3. CASE UNCHANGED start
  <2>1. Types'
    BY <1>1, <1>2, <1>3 DEF IInv, Types, FormIsValid, At
  <2>2. Counted' /\ Settled'
    BY <1>1, <1>3 DEF IInv, Counted, Settled, At
  <2> QED BY <2>1, <2>2 DEF IInv
<1>4. CASE Goes("migrate_again")
  <2>1. /\ start' \in [at : Places, form : Form, choice : Maybe, step : 0 .. Len(Renames)]
        /\ start'.at = "migrate_again" /\ FormIsValid'
    BY <1>4, GoesIs DEF Places
  <2>2. Types'
    BY <1>1, <1>2, <2>1 DEF IInv, Types
  <2>3. Counted' /\ Settled'
    BY <1>1, <2>1 DEF IInv, Counted, Settled, At
  <2> QED BY <2>2, <2>3 DEF IInv
<1> QED BY <1>3, <1>4 DEF CreateNext

\* The minor units are filled in.
LEMMA UpgradeInvariant == ASSUME IInv, Upgrade PROVE IInv'
<1>1. CASE Refuse
  BY <1>1, RefuseInvariant
<1>2. CASE ~Refuse
  <2>1. /\ columns' = [t \in Tables |->
                          IF t \in Filled THEN columns[t] \cup {"amount_base_minor"}
                          ELSE columns[t]]
        /\ agree' = [t \in Tables |-> agree[t] \/ t \in Filled]
        /\ Goes("base")
        /\ UNCHANGED <<disk, baseCurrency, mainWallet, entered, config, past>>
        /\ At("upgrade")
    BY <1>2 DEF Upgrade
  <2>2. columns' \in [Tables -> SUBSET Columns]
    BY <2>1 DEF IInv, Types, Columns, NewColumns
  <2>3. agree' \in [Tables -> BOOLEAN]
    BY <2>1, Zenon
  <2>4. /\ start' \in [at : Places, form : Form, choice : Maybe, step : 0 .. Len(Renames)]
        /\ start'.at = "base" /\ FormIsValid'
    BY <2>1, GoesIs DEF Places
  <2>5. Types'
    BY <2>1, <2>2, <2>3, <2>4 DEF IInv, Types
  <2>6. Counted' /\ Settled'
    BY <2>1, <2>4 DEF IInv, Counted, Settled, At
  <2> QED BY <2>5, <2>6 DEF IInv
<1> QED BY <1>1, <1>2

\* The answer is taken where no wallet is; the wallet is in the base currency.
LEMMA BaseInvariant == ASSUME IInv, ApplyBase \/ EnsureWallet PROVE IInv'
<1>1. CASE ApplyBase
  <2>1. /\ start' \in [at : Places, form : Form, choice : Maybe, step : 0 .. Len(Renames)]
        /\ start'.at = "wallet" /\ FormIsValid'
    BY <1>1, GoesIs DEF ApplyBase, Places
  <2>2. /\ At("base") /\ baseCurrency # ""
        /\ UNCHANGED <<disk, columns, agree, mainWallet, entered, config, past>>
    BY <1>1 DEF ApplyBase, IInv, Settled, At
  <2>3. /\ baseCurrency' \in Maybe /\ baseCurrency' # ""
        /\ mainWallet # "" => baseCurrency' = baseCurrency
    BY <1>1, <2>2 DEF ApplyBase, MayStillChoose, IInv, Types
  <2>4. Types'
    BY <2>1, <2>2, <2>3 DEF IInv, Types
  <2>5. Counted' /\ Settled'
    BY <2>1, <2>2, <2>3 DEF IInv, Counted, Settled, At
  <2> QED BY <2>4, <2>5 DEF IInv
<1>2. CASE EnsureWallet
  <2>1. /\ start' \in [at : Places, form : Form, choice : Maybe, step : 0 .. Len(Renames)]
        /\ start'.at = "open" /\ FormIsValid'
    BY <1>2, GoesIs DEF EnsureWallet, Places
  <2>2. /\ At("wallet") /\ baseCurrency # ""
        /\ UNCHANGED <<disk, columns, agree, baseCurrency, entered, config, past>>
        /\ mainWallet' = IF mainWallet = "" THEN baseCurrency ELSE mainWallet
    BY <1>2 DEF EnsureWallet, IInv, Settled, At
  <2>3. Types'
    BY <2>1, <2>2 DEF IInv, Types
  <2>4. Counted' /\ Settled'
    BY <2>1, <2>2 DEF IInv, Counted, Settled, At
  <2> QED BY <2>3, <2>4 DEF IInv
<1> QED BY <1>1, <1>2

\* Amounts are entered where there is a base currency and a wallet.
LEMMA EnterInvariant == ASSUME IInv, Enter PROVE IInv'
<1>1. Types'
  BY DEF Enter, IInv, Types, FormIsValid, At
<1>2. Counted' /\ Settled'
  BY DEF Enter, IInv, Counted, Settled, At
<1> QED BY <1>1, <1>2 DEF IInv

\* The next start has what is stored.
LEMMA StopInvariant == ASSUME FirstStartAssumption, IInv, Stop PROVE IInv'
<1>1. start' = [at |-> "off", form |-> DefaultConfig, choice |-> "", step |-> 0]
  BY DEF Stop
<1>2. start' \in [at : Places, form : Form, choice : Maybe, step : 0 .. Len(Renames)]
  <2>1. 0 \in 0 .. Len(Renames)
    BY RenamesType
  <2>2. "off" \in Places /\ "" \in Maybe
    BY DEF Places, Maybe
  <2> QED BY <1>1, <2>1, <2>2, DefaultIsValid
<1>3. CutOff \in SUBSET {"rename", "create", "wallet"}
  BY DEF CutOff
<1>4. past' \in [cut : SUBSET {"rename", "create", "wallet"}, refused : 0 .. 2]
  <2> HIDE DEF CutOff
  <2> QED BY <1>3 DEF Stop, IInv, Types
<1>5. start'.at = "off" /\ UNCHANGED <<stored, config>>
  <2>1. start'.at = "off"
    BY <1>1
  <2>2. UNCHANGED <<stored, config>>
    BY DEF Stop
  <2> QED BY <2>1, <2>2
<1>6. Types'
  BY <1>2, <1>4, <1>5 DEF IInv, Types, FormIsValid, At, stored
<1>7. Counted' /\ Settled'
  BY <1>5 DEF IInv, Counted, Settled, At, stored
<1> QED BY <1>6, <1>7 DEF IInv

\* Every step keeps it.
LEMMA NextInvariant ==
    ASSUME FirstStartAssumption, IInv, [FirstStartNext]_firstStartVars PROVE IInv'
<1>1. CASE \E moved \in BOOLEAN : Launch(moved)
  BY <1>1, LaunchInvariant
<1>2. CASE \/ \E currency \in Currencies : PickBase(currency)
           \/ \E name \in Providers : PickPrimary(name)
  <2>1. start.form \in Form
    BY DEF IInv, Types
  <2>2. PICK form \in Form : Pick(Refreshed(form))
    <3>1. ASSUME NEW currency \in Currencies
          PROVE  [start.form EXCEPT !.base = currency] \in Form
      BY <2>1 DEF Form
    <3>2. ASSUME NEW name \in Providers
          PROVE  [start.form EXCEPT !.primary = name] \in Form
      BY <2>1 DEF Form
    <3> QED BY <1>2, <3>1, <3>2 DEF PickBase, PickPrimary
  <2>3. Refreshed(form) \in Form /\ Valid(Refreshed(form))
    BY RefreshedIsValid
  <2> QED BY <2>2, <2>3, PickInvariant
<1>3. CASE \E name \in Providers : PickFallback(name)
  <2>1. PICK name \in Providers : PickFallback(name)
    BY <1>3
  <2> DEFINE form == [start.form EXCEPT !.fallback = name]
  <2>2. /\ name \in Available(start.form.base) \ {start.form.primary}
        /\ Pick(form)
    BY <2>1 DEF PickFallback
  <2>3. start.form \in Form /\ Valid(start.form)
    BY <2>2 DEF Pick, IInv, Types, FormIsValid
  <2>4. form \in Form /\ form.base = start.form.base
        /\ form.primary = start.form.primary /\ form.fallback = name
    BY <2>3 DEF Form
  <2>5. Valid(form)
    <3> HIDE DEF form
    <3> QED BY <2>2, <2>3, <2>4 DEF Valid
  <2> QED BY <2>2, <2>4, <2>5, PickInvariant
<1>4. CASE Save \/ Cancel
  BY <1>4, SetupInvariant
<1>5. CASE Connect
  BY <1>5, ConnectInvariant
<1>6. CASE MigrateNothing \/ RenamesDone
  BY <1>6, MigratedInvariant
<1>7. CASE (\E t \in Tables : AddMinor(t)) \/ RenameNext
  BY <1>7, RenameInvariant
<1>8. CASE CreateNext
  BY <1>8, CreateInvariant
<1>9. CASE Upgrade
  BY <1>9, UpgradeInvariant
<1>10. CASE ApplyBase \/ EnsureWallet
  BY <1>10, BaseInvariant
<1>11. CASE Enter
  BY <1>11, EnterInvariant
<1>12. CASE Stop
  BY <1>12, StopInvariant
<1>13. CASE UNCHANGED firstStartVars
  <2>1. Types'
    BY <1>13 DEF firstStartVars, IInv, Types, FormIsValid, At
  <2>2. Counted' /\ Settled'
    BY <1>13 DEF firstStartVars, IInv, Counted, Settled, At
  <2> QED BY <2>1, <2>2 DEF IInv
<1> QED BY <1>1, <1>2, <1>3, <1>4, <1>5, <1>6, <1>7, <1>8, <1>9, <1>10, <1>11, <1>12,
           <1>13 DEF FirstStartNext, Providers

-----------------------------------------------------------------------------
(* What a start finds, when no process ended between two renames. *)

Position(t) == CASE t = "records" -> 0 [] t = "transfers" -> 2
                 [] t = "mandatory_expenses" -> 4 [] t = "budgets" -> 6

\* The columns of a table after the first k renames.
After(k, t) ==
    {IF k > Position(t) THEN "amount_base" ELSE "amount_kzt",
     IF k > Position(t) + 1 THEN "amount_base_minor" ELSE "amount_kzt_minor"}

NoBudgets(t) == t = "budgets" /\ columns[t] = {}

\* The places of a process that has not come to the renames, and those where it needs them done.
Early == {"off", "setup", "connect", "migrate"}

Late == {"migrate_again", "upgrade", "base", "wallet", "open"}

BeforeRenames ==
    /\ start.step = 0 /\ start.at \in Early
    /\ disk = "db" /\ past.refused = 0
    /\ \A t \in Tables : columns[t] \in {{"amount_kzt"}, OldColumns} \/ NoBudgets(t)

AmongRenames ==
    /\ start.step \in 1 .. 8 /\ At("migrate")
    /\ disk = "db" /\ past.refused = 0
    /\ \A t \in Tables : columns[t] = After(start.step, t) \/ (NoBudgets(t) /\ start.step <= 6)

\* Tables of the schema, made in its order.
Created ==
    /\ \A t \in Tables : columns[t] \in {{}, NewColumns}
    /\ columns["records"] = {} =>
          columns["mandatory_expenses"] = {} /\ columns["budgets"] = {}

AfterRenames ==
    /\ start.step = 0
    /\ Created
    /\ start.at \in Late => \A t \in Tables : columns[t] = NewColumns
    /\ At("migrate") => \E t \in Tables : columns[t] # {}
    /\ columns["records"] = {} /\ columns["transfers"] # {} =>
          At("create") \/ "create" \in past.cut
    /\ StartsAgain

Orderly == "rename" \in past.cut \/ BeforeRenames \/ AmongRenames \/ AfterRenames

\* Minor units are filled in before the base currency is looked at.
FilledIn == start.at \in {"base", "wallet", "open"} => \A t \in Filled : agree[t]

\* While there is no wallet, the process has the last answer of the setup, and no other answer
\* has been stored, unless its process ended before the wallet.
Answered ==
    mainWallet = "" =>
        /\ start.at \notin {"off", "setup", "refused"} => start.choice = config.base
        /\ \/ "wallet" \in past.cut
           \/ At("wallet") /\ baseCurrency = config.base
           \/ ~At("wallet") /\ baseCurrency \in {"", "KZT"}

\* Two elements more at the end of a sequence.
LEMMA TwoMore ==
    ASSUME NEW S, NEW s \in Seq(S), NEW b \in Seq(S), Len(b) = 2
    PROVE  /\ s \o b \in Seq(S) /\ Len(s \o b) = Len(s) + 2
           /\ \A i \in 1 .. Len(s) : (s \o b)[i] = s[i]
           /\ (s \o b)[Len(s) + 1] = b[1] /\ (s \o b)[Len(s) + 2] = b[2]
<1> DEFINE c == s \o b
<1>1. Len(s) \in Nat
  OBVIOUS
<1>2. /\ c \in Seq(S) /\ Len(c) = Len(s) + Len(b)
      /\ \A i \in 1 .. Len(s) + Len(b) :
            c[i] = IF i <= Len(s) THEN s[i] ELSE b[i - Len(s)]
  BY ConcatProperties, Zenon
<1> HIDE DEF c
<1>3. \A i \in 1 .. Len(s) : c[i] = s[i]
  BY <1>1, <1>2
<1>4. c[Len(s) + 1] = b[(Len(s) + 1) - Len(s)] /\ c[Len(s) + 2] = b[(Len(s) + 2) - Len(s)]
  BY <1>1, <1>2
<1>5. (Len(s) + 1) - Len(s) = 1 /\ (Len(s) + 2) - Len(s) = 2
  BY <1>1
<1> QED
  BY <1>2, <1>3, <1>4, <1>5 DEF c

\* The script of migration 002, statement by statement.
LEMMA RenamesAre ==
    /\ Len(Renames) = 8
    /\ Renames[1] = Rename("records", "amount_kzt", "amount_base")
    /\ Renames[2] = Rename("records", "amount_kzt_minor", "amount_base_minor")
    /\ Renames[3] = Rename("transfers", "amount_kzt", "amount_base")
    /\ Renames[4] = Rename("transfers", "amount_kzt_minor", "amount_base_minor")
    /\ Renames[5] = Rename("mandatory_expenses", "amount_kzt", "amount_base")
    /\ Renames[6] = Rename("mandatory_expenses", "amount_kzt_minor", "amount_base_minor")
    /\ Renames[7] = Rename("budgets", "amount_kzt", "amount_base")
    /\ Renames[8] = Rename("budgets", "amount_kzt_minor", "amount_base_minor")
<1> DEFINE R == [table : Tables, from : OldColumns, to : NewColumns]
           s2 == Both("records") \o Both("transfers")
           s3 == s2 \o Both("mandatory_expenses")
<1>1. ASSUME NEW t \in Tables
      PROVE  /\ Both(t) \in Seq(R) /\ Len(Both(t)) = 2
             /\ Both(t)[1] = Rename(t, "amount_kzt", "amount_base")
             /\ Both(t)[2] = Rename(t, "amount_kzt_minor", "amount_base_minor")
  <2>1. /\ Rename(t, "amount_kzt", "amount_base") \in R
        /\ Rename(t, "amount_kzt_minor", "amount_base_minor") \in R
    BY DEF Rename, OldColumns, NewColumns
  <2> HIDE DEF R
  <2> QED
    BY <2>1 DEF Both
<1> HIDE DEF R
<1>2. ASSUME NEW s \in Seq(R), NEW t \in Tables
      PROVE  /\ s \o Both(t) \in Seq(R) /\ Len(s \o Both(t)) = Len(s) + 2
             /\ \A i \in 1 .. Len(s) : (s \o Both(t))[i] = s[i]
             /\ (s \o Both(t))[Len(s) + 1] = Rename(t, "amount_kzt", "amount_base")
             /\ (s \o Both(t))[Len(s) + 2]
                   = Rename(t, "amount_kzt_minor", "amount_base_minor")
  <2> DEFINE b == Both(t)
  <2>1. /\ b \in Seq(R) /\ Len(b) = 2
        /\ b[1] = Rename(t, "amount_kzt", "amount_base")
        /\ b[2] = Rename(t, "amount_kzt_minor", "amount_base_minor")
    BY <1>1
  <2> HIDE DEF b
  <2>2. /\ s \o b \in Seq(R) /\ Len(s \o b) = Len(s) + 2
        /\ \A i \in 1 .. Len(s) : (s \o b)[i] = s[i]
        /\ (s \o b)[Len(s) + 1] = b[1] /\ (s \o b)[Len(s) + 2] = b[2]
    BY <2>1, TwoMore
  <2> QED
    BY <2>1, <2>2 DEF b
<1>3. /\ "records" \in Tables /\ "transfers" \in Tables
      /\ "mandatory_expenses" \in Tables /\ "budgets" \in Tables
  BY DEF Tables
<1>4. Both("records") \in Seq(R) /\ Len(Both("records")) = 2
  BY <1>1, <1>3
<1>5. /\ s2 \in Seq(R) /\ Len(s2) = 4
      /\ \A i \in 1 .. 2 : s2[i] = Both("records")[i]
      /\ s2[3] = Rename("transfers", "amount_kzt", "amount_base")
      /\ s2[4] = Rename("transfers", "amount_kzt_minor", "amount_base_minor")
  BY <1>2, <1>3, <1>4
<1> HIDE DEF s2
<1>6. /\ s3 \in Seq(R) /\ Len(s3) = 6
      /\ \A i \in 1 .. 4 : s3[i] = s2[i]
      /\ s3[5] = Rename("mandatory_expenses", "amount_kzt", "amount_base")
      /\ s3[6] = Rename("mandatory_expenses", "amount_kzt_minor", "amount_base_minor")
  <2>1. /\ s3 \in Seq(R) /\ Len(s3) = Len(s2) + 2
        /\ \A i \in 1 .. Len(s2) : s3[i] = s2[i]
        /\ s3[Len(s2) + 1] = Rename("mandatory_expenses", "amount_kzt", "amount_base")
        /\ s3[Len(s2) + 2]
              = Rename("mandatory_expenses", "amount_kzt_minor", "amount_base_minor")
    BY <1>2, <1>3, <1>5
  <2> HIDE DEF s3
  <2> QED
    BY <1>5, <2>1
<1>7. Renames = s3 \o Both("budgets")
  BY DEF Renames, s2
<1> HIDE DEF s3
<1>8. /\ Len(Renames) = 8
      /\ \A i \in 1 .. 6 : Renames[i] = s3[i]
      /\ Renames[7] = Rename("budgets", "amount_kzt", "amount_base")
      /\ Renames[8] = Rename("budgets", "amount_kzt_minor", "amount_base_minor")
  <2>1. /\ Len(Renames) = Len(s3) + 2
        /\ \A i \in 1 .. Len(s3) : Renames[i] = s3[i]
        /\ Renames[Len(s3) + 1] = Rename("budgets", "amount_kzt", "amount_base")
        /\ Renames[Len(s3) + 2] = Rename("budgets", "amount_kzt_minor", "amount_base_minor")
    BY <1>2, <1>3, <1>6, <1>7
  <2> QED
    BY <1>6, <2>1
<1>9. /\ Both("records")[1] = Rename("records", "amount_kzt", "amount_base")
      /\ Both("records")[2] = Rename("records", "amount_kzt_minor", "amount_base_minor")
  BY <1>1, <1>3
<1> QED
  BY <1>5, <1>6, <1>8, <1>9

\* Statement k + 1 renames a column of one table, as After says; the last two are of budgets.
LEMMA RenameStep ==
    ASSUME NEW k \in 0 .. 7, NEW r, r = Renames[k + 1]
    PROVE  /\ r.table \in Tables /\ r.from \in OldColumns /\ r.from \in After(k, r.table)
           /\ After(k + 1, r.table) = (After(k, r.table) \ {r.from}) \cup {r.to}
           /\ \A t \in Tables \ {r.table} : After(k + 1, t) = After(k, t)
           /\ r.table = "budgets" <=> k >= 6
<1> USE DEF After, Position, Tables, OldColumns, Rename
<1>0. CASE k = 0
  BY <1>0, RenamesAre
<1>1. CASE k = 1
  BY <1>1, RenamesAre
<1>2. CASE k = 2
  BY <1>2, RenamesAre
<1>3. CASE k = 3
  BY <1>3, RenamesAre
<1>4. CASE k = 4
  BY <1>4, RenamesAre
<1>5. CASE k = 5
  BY <1>5, RenamesAre
<1>6. CASE k = 6
  BY <1>6, RenamesAre
<1>7. CASE k = 7
  BY <1>7, RenamesAre
<1>8. k \in {0, 1, 2, 3, 4, 5, 6, 7}
  OBVIOUS
<1> HIDE DEF After, Position, Tables, OldColumns, Rename
<1> QED
  BY <1>0, <1>1, <1>2, <1>3, <1>4, <1>5, <1>6, <1>7, <1>8

\* Before the first rename all names are old; after the sixth only those of budgets are, and
\* after the eighth none.
LEMMA AfterEnds ==
    /\ \A t \in Tables : After(0, t) = OldColumns /\ After(8, t) = NewColumns
    /\ \A t \in Tables \ {"budgets"} : After(6, t) = NewColumns
BY DEF After, Position, Tables, OldColumns, NewColumns

\* The four tables are tables, and a table has old names or new ones.
LEMMA TablesAre ==
    /\ "records" \in Tables /\ "transfers" \in Tables
    /\ "mandatory_expenses" \in Tables /\ "budgets" \in Tables
    /\ \A t \in Tables : t \in {"records", "transfers", "mandatory_expenses", "budgets"}
    /\ NewColumns # {} /\ OldColumns # {}
    /\ "amount_base" \in NewColumns /\ "amount_base" \notin OldColumns
    /\ OldColumns \cap NewColumns = {}
BY DEF Tables, NewColumns, OldColumns

-----------------------------------------------------------------------------
(* Every step keeps the order. *)

\* At the beginning the tables are old, or there are none.
LEMMA InitOrderly == ASSUME FirstStartInit PROVE Orderly
<1>1. /\ start.at = "off" /\ start.step = 0 /\ past.refused = 0
  BY DEF FirstStartInit
<1>2. CASE columns = NoDatabase.columns
  <2>1. \A t \in Tables : columns[t] = {}
    BY <1>2 DEF NoDatabase
  <2>2. AfterRenames
    BY <1>1, <2>1, TablesAre DEF AfterRenames, Created, StartsAgain, At, Late
  <2> QED
    BY <2>2 DEF Orderly
<1>3. ASSUME NEW minor \in BOOLEAN, NEW tables \in SUBSET Tables,
             columns = OldDatabase(minor, tables).columns, disk = "db",
             Tables \ {"budgets"} \subseteq tables
      PROVE  Orderly
  <2>1. \A t \in Tables : columns[t] \in {{"amount_kzt"}, OldColumns} \/ NoBudgets(t)
    BY <1>3 DEF OldDatabase, NoBudgets
  <2>2. BeforeRenames
    BY <1>1, <1>3, <2>1 DEF BeforeRenames, Early
  <2> QED
    BY <2>2 DEF Orderly
<1>4. \/ columns = NoDatabase.columns
      \/ /\ disk = "db"
         /\ \/ columns = OldDatabase(TRUE, Tables).columns
            \/ columns = OldDatabase(FALSE, Tables).columns
            \/ columns = OldDatabase(TRUE, Tables \ {"budgets"}).columns
  <2>1. UnusedDatabase.columns = OldDatabase(TRUE, Tables).columns
    BY DEF UnusedDatabase, OldDatabase
  <2>2. PICK d \in {NoDatabase, UnusedDatabase, OldDatabase(TRUE, Tables),
                    OldDatabase(FALSE, Tables), OldDatabase(TRUE, Tables \ {"budgets"})} :
           /\ columns = d.columns
           /\ disk \in IF d = NoDatabase THEN {"none", "bad"} ELSE {"db"}
    BY DEF FirstStartInit
  <2> QED
    BY <2>1, <2>2
<1> QED
  BY <1>2, <1>3, <1>4

\* A process that goes on, far from the renames, leaves the tables as they are.
LEMMA OrderlyElsewhere ==
    ASSUME Orderly, UNCHANGED <<columns, past>>, disk = "db" => disk' = "db",
           start'.step \in {0, start.step},
           \/ /\ start.at \in Early \ {"migrate"}
              /\ start'.at \in {"off", "setup", "connect"}
           \/ start.at \in Late /\ start'.at \in Late
    PROVE  Orderly'
<1>1. CASE "rename" \in past.cut
  BY <1>1 DEF Orderly
<1>2. CASE BeforeRenames
  <2>1. start'.at \in Early /\ start'.step = 0
    BY <1>2 DEF BeforeRenames, Early, Late
  <2>2. BeforeRenames'
    BY <1>2, <2>1 DEF BeforeRenames, NoBudgets
  <2> QED
    BY <2>2 DEF Orderly
<1>3. CASE AmongRenames
  BY <1>3 DEF AmongRenames, At, Early, Late
<1>4. CASE AfterRenames
  <2>1. start'.step = 0 /\ Created'
    BY <1>4 DEF AfterRenames, Created
  <2>2. start'.at \in Late => \A t \in Tables : columns'[t] = NewColumns
    BY <1>4 DEF AfterRenames, Late
  <2>3. start'.at \notin {"migrate", "create", "refused"} /\ start.at # "create"
    BY DEF Early, Late
  <2>4. AfterRenames'
    BY <1>4, <2>1, <2>2, <2>3 DEF AfterRenames, StartsAgain, At
  <2> QED
    BY <2>4 DEF Orderly
<1> QED
  BY <1>1, <1>2, <1>3, <1>4 DEF Orderly

\* A process is somewhere.
LEMMA StartIs ==
    ASSUME IInv
    PROVE  /\ start \in [at : Places, form : Form, choice : Maybe, step : 0 .. Len(Renames)]
           /\ start.step \in 0 .. 8 /\ start.at \in Places
           /\ past \in [cut : SUBSET {"rename", "create", "wallet"}, refused : 0 .. 2]
           /\ columns \in [Tables -> SUBSET Columns]
BY RenamesAre DEF IInv, Types

\* Nothing but the place and the step of the process changes.
LEMMA GoesTo ==
    ASSUME IInv, NEW place, Goes(place)
    PROVE  /\ start'.at = place /\ start'.step = 0
           /\ start'.choice = start.choice /\ start'.form = start.form
BY StartIs DEF Goes

\* A start that is refused goes nowhere else.
LEMMA RefusedAt ==
    ASSUME IInv, Refuse
    PROVE  /\ start'.at = "refused" /\ start'.step = 0 /\ start'.choice = start.choice
           /\ UNCHANGED <<disk, columns, agree, baseCurrency, mainWallet, entered, config>>
           /\ past'.cut = past.cut
           /\ past'.refused = IF past.refused = 2 THEN 2 ELSE past.refused + 1
BY StartIs, GoesTo DEF Refuse, stored

\* The file that cannot be read leaves a refused start, which is no database.
LEMMA ConnectOrderly == ASSUME IInv, Orderly, Connect PROVE Orderly'
<1>1. CASE "rename" \in past.cut
  BY <1>1, RefusedAt DEF Orderly, Connect
<1>2. CASE BeforeRenames
  <2>1. columns["records"] # {}
    BY <1>2, TablesAre DEF BeforeRenames, NoBudgets
  <2>2. Goes("migrate") /\ disk' = "db" /\ UNCHANGED <<columns, past>>
    BY <1>2, <2>1, TablesAre DEF Connect, BeforeRenames
  <2>3. BeforeRenames'
    BY <1>2, <2>2, GoesTo DEF BeforeRenames, NoBudgets, Early
  <2> QED
    BY <2>3 DEF Orderly
<1>3. CASE AmongRenames
  BY <1>3 DEF AmongRenames, At, Connect
<1>4. CASE AfterRenames
  <2>1. CASE disk = "bad"
    <3>1. Refuse
      BY <2>1 DEF Connect
    <3>2. AfterRenames'
      BY <1>4, <2>1, <3>1, RefusedAt
         DEF AfterRenames, Created, StartsAgain, At, Late, Connect
    <3> QED
      BY <3>2 DEF Orderly
  <2>2. CASE disk # "bad"
    <3>1. PICK place \in {"migrate", "create"} :
             /\ Goes(place) /\ UNCHANGED <<columns, past>>
             /\ place = "migrate" => \E t \in Tables : columns[t] # {}
      BY <2>2 DEF Connect
    <3>2. AfterRenames'
      BY <1>4, <3>1, GoesTo DEF AfterRenames, Created, StartsAgain, At, Late, Connect
    <3> QED
      BY <3>2 DEF Orderly
  <2> QED
    BY <2>1, <2>2
<1> QED
  BY <1>1, <1>2, <1>3, <1>4 DEF Orderly

\* The migration that has been here before, or is done, leaves new names only.
LEMMA MigratedOrderly ==
    ASSUME IInv, Orderly, MigrateNothing \/ RenamesDone
    PROVE  Orderly'
<1>1. /\ UNCHANGED <<columns, past>> /\ Migrating
      /\ Goes(IF At("migrate") THEN "create" ELSE "upgrade")
  BY DEF MigrateNothing, RenamesDone, Migrated
<1>2. /\ start'.step = 0
      /\ \/ start.at = "migrate" /\ start'.at = "create"
         \/ start.at = "migrate_again" /\ start'.at = "upgrade"
  BY <1>1, GoesTo DEF Migrating, At
<1>3. CASE "rename" \in past.cut
  BY <1>1, <1>3 DEF Orderly
<1>4. CASE BeforeRenames
  BY <1>4, RenamesAre, TablesAre
     DEF BeforeRenames, NoBudgets, MigrateNothing, MigratedBefore, RenamesDone
<1>5. CASE AmongRenames
  <2>1. start.step = 8
    BY <1>5, RenamesAre DEF AmongRenames, MigrateNothing, RenamesDone
  <2>2. \A t \in Tables : columns[t] = NewColumns
    BY <1>5, <2>1, AfterEnds DEF AmongRenames
  <2>3. start'.at = "create"
    BY <1>2, <1>5 DEF AmongRenames, At
  <2>4. AfterRenames'
    BY <1>1, <1>2, <2>2, <2>3, TablesAre
       DEF AfterRenames, Created, StartsAgain, At
  <2> QED
    BY <2>4 DEF Orderly
<1>6. CASE AfterRenames
  <2>1. columns["records"] # {}
    BY <1>6, RenamesAre DEF AfterRenames, MigrateNothing, MigratedBefore, RenamesDone
  <2>2. Created'
    BY <1>1, <1>6 DEF AfterRenames, Created
  <2>3. start'.at \in Late => \A t \in Tables : columns'[t] = NewColumns
    BY <1>1, <1>2, <1>6 DEF AfterRenames, Late
  <2>4. AfterRenames'
    BY <1>1, <1>2, <2>1, <2>2, <2>3 DEF AfterRenames, StartsAgain, At
  <2> QED
    BY <2>4 DEF Orderly
<1> QED
  BY <1>3, <1>4, <1>5, <1>6 DEF Orderly

\* Minor units are added to tables that have old names.
LEMMA AddMinorOrderly ==
    ASSUME IInv, Orderly, NEW t \in Tables, AddMinor(t)
    PROVE  Orderly'
<1>1. /\ columns' = [columns EXCEPT ![t] = @ \cup {"amount_kzt_minor"}]
      /\ UNCHANGED <<disk, start, past>>
      /\ LacksMinor(t) /\ start.step = 0
  BY DEF AddMinor
<1>2. CASE "rename" \in past.cut
  BY <1>1, <1>2 DEF Orderly
<1>3. CASE BeforeRenames
  <2>1. columns[t] = {"amount_kzt"}
    BY <1>1, <1>3 DEF BeforeRenames, NoBudgets, LacksMinor, OldColumns
  <2>2. columns'[t] = OldColumns
    BY <1>1, <2>1, StartIs DEF OldColumns
  <2>3. \A u \in Tables \ {t} : columns'[u] = columns[u]
    BY <1>1, StartIs
  <2>4. BeforeRenames'
    BY <1>1, <1>3, <2>2, <2>3 DEF BeforeRenames, NoBudgets
  <2> QED
    BY <2>4 DEF Orderly
<1>4. CASE AmongRenames
  BY <1>1, <1>4 DEF AmongRenames
<1>5. CASE AfterRenames
  BY <1>1, <1>5 DEF AfterRenames, Created, LacksMinor, NewColumns
<1> QED
  BY <1>2, <1>3, <1>4, <1>5 DEF Orderly

\* A rename that finds its column goes on.
LEMMA RenamedOrderly == ASSUME IInv, Orderly, RenameNext, ~Refuse PROVE Orderly'
<1> DEFINE k == start.step
           r == Renames[k + 1]
<1>1. k \in 0 .. 7
  BY StartIs, RenamesAre DEF RenameNext
<1>2. /\ r.table \in Tables /\ r.from \in OldColumns /\ r.from \in After(k, r.table)
      /\ After(k + 1, r.table) = (After(k, r.table) \ {r.from}) \cup {r.to}
      /\ \A t \in Tables \ {r.table} : After(k + 1, t) = After(k, t)
      /\ r.table = "budgets" <=> k >= 6
  BY <1>1, RenameStep
<1>3. /\ r.from \in columns[r.table]
      /\ columns' = [columns EXCEPT ![r.table] = (@ \ {r.from}) \cup {r.to}]
      /\ start' = [start EXCEPT !.step = k + 1]
      /\ UNCHANGED <<disk, past>>
      /\ k = 0 => \A t \in Tables : ~LacksMinor(t)
      /\ Migrating
  BY DEF RenameNext
<1> HIDE DEF r
<1>4. start'.step = k + 1 /\ start'.at = start.at
  BY <1>3, StartIs
<1>5. /\ columns'[r.table] = (columns[r.table] \ {r.from}) \cup {r.to}
      /\ \A t \in Tables \ {r.table} : columns'[t] = columns[t]
  BY <1>2, <1>3, StartIs
<1>6. CASE "rename" \in past.cut
  BY <1>3, <1>6 DEF Orderly
<1>7. ASSUME \A t \in Tables : columns[t] = After(k, t) \/ (NoBudgets(t) /\ k <= 6),
             disk = "db", past.refused = 0, At("migrate")
      PROVE  AmongRenames'
  <2>1. columns[r.table] = After(k, r.table)
    BY <1>2, <1>3, <1>7 DEF NoBudgets
  <2>2. columns'[r.table] = After(k + 1, r.table)
    BY <1>2, <1>5, <2>1
  <2>3. ASSUME NEW t \in Tables, t # r.table
        PROVE  columns'[t] = After(k + 1, t) \/ (NoBudgets(t)' /\ k + 1 <= 6)
    <3>1. columns'[t] = columns[t] /\ After(k + 1, t) = After(k, t)
      BY <1>2, <1>5, <2>3
    <3>2. t = "budgets" => k + 1 <= 6
      BY <1>1, <1>2, <2>3
    <3> QED
      BY <1>7, <3>1, <3>2 DEF NoBudgets
  <2>4. k + 1 \in 1 .. 8
    BY <1>1
  <2> QED
    BY <1>3, <1>4, <1>7, <2>2, <2>3, <2>4 DEF AmongRenames, At
<1>8. CASE BeforeRenames
  <2>1. k = 0
    BY <1>8 DEF BeforeRenames
  <2>2. \A t \in Tables : columns[t] = After(k, t) \/ (NoBudgets(t) /\ k <= 6)
    <3>1. \A t \in Tables : columns[t] = OldColumns \/ NoBudgets(t)
      BY <1>3, <1>8, <2>1 DEF BeforeRenames, LacksMinor, OldColumns
    <3> QED
      BY <2>1, <3>1, AfterEnds
  <2>3. At("migrate")
    BY <1>3, <1>8 DEF BeforeRenames, Early, Migrating, At
  <2> QED
    BY <1>7, <1>8, <2>2, <2>3 DEF BeforeRenames, Orderly
<1>9. CASE AmongRenames
  BY <1>7, <1>9 DEF AmongRenames, Orderly
<1>10. CASE AfterRenames
  BY <1>2, <1>3, <1>10, TablesAre DEF AfterRenames, Created
<1> QED
  BY <1>6, <1>8, <1>9, <1>10 DEF Orderly

\* A rename that finds no column: a version of before budgets, when all else is renamed; or
\* a start that was cut off between the creation of transfers and of records.
LEMMA RefusedOrderly == ASSUME IInv, Orderly, RenameNext, Refuse PROVE Orderly'
<1> DEFINE k == start.step
           r == Renames[k + 1]
<1>1. k \in 0 .. 7
  BY StartIs, RenamesAre DEF RenameNext
<1>2. /\ r.table \in Tables /\ r.from \in After(k, r.table)
      /\ r.table = "budgets" <=> k >= 6
  BY <1>1, RenameStep
<1>3. /\ start'.at = "refused" /\ start'.step = 0
      /\ UNCHANGED <<disk, columns>> /\ past'.cut = past.cut
      /\ past'.refused = IF past.refused = 2 THEN 2 ELSE past.refused + 1
  BY RefusedAt
<1>4. /\ Migrating
      /\ k = 0 => ~MigratedBefore /\ \A t \in Tables : ~LacksMinor(t)
  BY DEF RenameNext
<1>5. r.from \notin columns[r.table]
  <2>1. ~(start' = [start EXCEPT !.step = @ + 1])
    BY <1>1, <1>3, StartIs
  <2> QED
    BY <2>1 DEF RenameNext
<1> HIDE DEF r
<1>6. CASE "rename" \in past.cut
  BY <1>3, <1>6 DEF Orderly
<1>7. CASE BeforeRenames
  <2>1. k = 0
    BY <1>7 DEF BeforeRenames
  <2>2. columns[r.table] = OldColumns
    BY <1>2, <1>4, <1>7, <2>1 DEF BeforeRenames, LacksMinor, OldColumns, NoBudgets
  <2> QED
    BY <1>2, <1>5, <2>1, <2>2, AfterEnds
<1>8. CASE AmongRenames
  <2>1. columns[r.table] = {} /\ r.table = "budgets" /\ k = 6
    BY <1>1, <1>2, <1>5, <1>8 DEF AmongRenames, NoBudgets
  <2>2. \A t \in Tables \ {"budgets"} : columns[t] = NewColumns
    BY <1>8, <2>1, AfterEnds DEF AmongRenames, NoBudgets
  <2>3. past'.refused = 1
    BY <1>3, <1>8 DEF AmongRenames
  <2>4. AfterRenames'
    BY <1>3, <2>1, <2>2, <2>3, TablesAre DEF AfterRenames, Created, StartsAgain, At, Late
  <2> QED
    BY <2>4 DEF Orderly
<1>9. CASE AfterRenames
  <2>1. ~MigratedBefore
    BY <1>4, <1>9 DEF AfterRenames
  <2>2. At("migrate")
    BY <1>4, <1>9, <2>1, TablesAre DEF AfterRenames, Migrating, MigratedBefore, At, Late
  <2>3. columns["records"] = {}
    BY <1>9, <2>1, TablesAre DEF AfterRenames, Created, MigratedBefore
  <2>4. columns["transfers"] # {}
    BY <1>9, <2>2, <2>3, TablesAre DEF AfterRenames, Created
  <2>5. "create" \in past.cut
    BY <1>9, <2>2, <2>3, <2>4 DEF AfterRenames, At
  <2>6. AfterRenames'
    BY <1>3, <1>9, <2>5 DEF AfterRenames, Created, StartsAgain, At, Late
  <2> QED
    BY <2>6 DEF Orderly
<1> QED
  BY <1>6, <1>7, <1>8, <1>9 DEF Orderly

\* Tables are created in the order of the schema, or all are there.
LEMMA CreateOrderly == ASSUME IInv, Orderly, CreateNext PROVE Orderly'
<1>1. At("create") /\ UNCHANGED <<disk, past>>
  BY DEF CreateNext
<1>2. CASE "rename" \in past.cut
  BY <1>1, <1>2 DEF Orderly
<1>3. CASE AfterRenames
  <2>1. ASSUME NEW i \in DOMAIN TablesInOrder,
               columns[TablesInOrder[i]] = {},
               \A j \in 1 .. i - 1 : columns[TablesInOrder[j]] # {},
               columns' = [columns EXCEPT ![TablesInOrder[i]] = NewColumns],
               UNCHANGED start
        PROVE  Orderly'
    <3> DEFINE t == TablesInOrder[i]
    <3>1. /\ t \in Tables
          /\ t \in {"mandatory_expenses", "budgets"} => columns["records"] # {}
      <4>1. DOMAIN TablesInOrder = 1 .. 4
        BY DEF TablesInOrder
      <4>2. /\ TablesInOrder[1] = "transfers" /\ TablesInOrder[2] = "records"
            /\ TablesInOrder[3] = "mandatory_expenses" /\ TablesInOrder[4] = "budgets"
        BY DEF TablesInOrder
      <4>3. i \in 1 .. 4 /\ (i >= 3 => columns["records"] # {})
        BY <2>1, <4>1, <4>2
      <4> QED
        BY <4>2, <4>3, TablesAre
    <3> HIDE DEF t
    <3>2. columns'[t] = NewColumns /\ \A u \in Tables \ {t} : columns'[u] = columns[u]
      BY <2>1, <3>1, StartIs DEF t
    <3>3. Created'
      BY <1>3, <3>1, <3>2, TablesAre DEF AfterRenames, Created
    <3>4. AfterRenames'
      BY <1>1, <1>3, <2>1, <3>3 DEF AfterRenames, StartsAgain, At, Late
    <3> QED
      BY <3>4 DEF Orderly
  <2>2. ASSUME \A t \in Tables : columns[t] # {}, Goes("migrate_again"), UNCHANGED columns
        PROVE  Orderly'
    <3>1. \A t \in Tables : columns[t] = NewColumns
      BY <1>3, <2>2 DEF AfterRenames, Created
    <3>2. AfterRenames'
      BY <2>2, <3>1, GoesTo, TablesAre DEF AfterRenames, Created, StartsAgain, At
    <3> QED
      BY <3>2 DEF Orderly
  <2> QED
    BY <2>1, <2>2 DEF CreateNext
<1> QED
  BY <1>1, <1>2, <1>3 DEF Orderly, BeforeRenames, AmongRenames, Early, At

\* Minor units are filled in where the names are new.
LEMMA UpgradeOrderly == ASSUME IInv, Orderly, Upgrade PROVE Orderly'
<1>1. At("upgrade")
  BY DEF Upgrade
<1>2. CASE "rename" \in past.cut
  BY <1>2, RefusedAt DEF Orderly, Upgrade
<1>3. CASE AfterRenames
  <2>1. \A t \in Tables : columns[t] = NewColumns
    BY <1>1, <1>3 DEF AfterRenames, At, Late
  <2>2. /\ columns' = [t \in Tables |->
                          IF t \in Filled THEN columns[t] \cup {"amount_base_minor"}
                          ELSE columns[t]]
        /\ Goes("base") /\ UNCHANGED past
    BY <2>1, TablesAre DEF Upgrade, Filled
  <2>3. \A t \in Tables : columns'[t] = NewColumns
    BY <2>1, <2>2 DEF NewColumns
  <2>4. AfterRenames'
    BY <2>2, <2>3, GoesTo, TablesAre DEF AfterRenames, Created, StartsAgain, At
  <2> QED
    BY <2>4 DEF Orderly
<1> QED
  BY <1>1, <1>2, <1>3 DEF Orderly, BeforeRenames, AmongRenames, Early, At

\* A process that ends between two renames, or before the records are created, is remembered.
LEMMA StopOrderly == ASSUME IInv, Orderly, Stop PROVE Orderly'
<1>1. /\ start'.at = "off" /\ start'.step = 0 /\ UNCHANGED <<disk, columns>>
      /\ past'.refused = past.refused /\ past'.cut = past.cut \cup CutOff
  BY StartIs DEF Stop, stored
<1>2. CASE "rename" \in past.cut
  BY <1>1, <1>2 DEF Orderly
<1>3. CASE BeforeRenames
  <2>1. BeforeRenames'
    BY <1>1, <1>3 DEF BeforeRenames, NoBudgets, Early
  <2> QED
    BY <2>1 DEF Orderly
<1>4. CASE AmongRenames
  <2>1. CASE start.step = 8
    <3>1. \A t \in Tables : columns[t] = NewColumns
      BY <1>4, <2>1, AfterEnds DEF AmongRenames
    <3>2. AfterRenames'
      BY <1>1, <3>1, TablesAre DEF AfterRenames, Created, StartsAgain, At, Late
    <3> QED
      BY <3>2 DEF Orderly
  <2>2. CASE start.step # 8
    <3>1. "rename" \in CutOff
      BY <1>4, <2>2, RenamesAre DEF AmongRenames, CutOff, Migrating, At
    <3> QED
      BY <1>1, <3>1 DEF Orderly
  <2> QED
    BY <2>1, <2>2
<1>5. CASE AfterRenames
  <2>1. columns["records"] = {} /\ columns["transfers"] # {} => "create" \in past'.cut
    BY <1>1 DEF CutOff
  <2>2. AfterRenames'
    BY <1>1, <1>5, <2>1 DEF AfterRenames, Created, StartsAgain, At, Late
  <2> QED
    BY <2>2 DEF Orderly
<1> QED
  BY <1>2, <1>3, <1>4, <1>5 DEF Orderly

\* Every step keeps the order.
LEMMA NextOrderly ==
    ASSUME IInv, Orderly, [FirstStartNext]_firstStartVars PROVE Orderly'
<1>1. CASE \E moved \in BOOLEAN : Launch(moved)
  <2>1. PICK moved \in BOOLEAN : Launch(moved)
    BY <1>1
  <2>2. start'.at \in {"connect", "setup"} /\ start'.step = start.step
    BY <2>1, StartIs DEF Launch
  <2> QED
    BY <2>1, <2>2, OrderlyElsewhere DEF Launch, At, Early
<1>2. CASE \/ \E currency \in Currencies : PickBase(currency)
           \/ \E name \in Providers : PickPrimary(name) \/ PickFallback(name)
  <2>1. PICK form : Pick(form)
    BY <1>2 DEF PickBase, PickPrimary, PickFallback
  <2>2. start'.at = "setup" /\ start'.step = start.step
    BY <2>1, StartIs DEF Pick, At
  <2> QED
    BY <2>1, <2>2, OrderlyElsewhere DEF Pick, stored, At, Early
<1>3. CASE Save \/ Cancel
  <2>1. /\ start'.at \in {"connect", "off"} /\ start'.step \in {0, start.step}
        /\ UNCHANGED <<stored, past>> /\ At("setup")
    <3>1. CASE Save
      BY <3>1 DEF Save
    <3>2. CASE Cancel
      BY <3>2, StartIs DEF Cancel
    <3> QED
      BY <1>3, <3>1, <3>2
  <2> QED
    BY <2>1, OrderlyElsewhere DEF stored, At, Early
<1>4. CASE Connect
  BY <1>4, ConnectOrderly
<1>5. CASE MigrateNothing \/ RenamesDone
  BY <1>5, MigratedOrderly
<1>6. CASE \E t \in Tables : AddMinor(t)
  BY <1>6, AddMinorOrderly
<1>7. CASE RenameNext
  BY <1>7, RenamedOrderly, RefusedOrderly
<1>8. CASE CreateNext
  BY <1>8, CreateOrderly
<1>9. CASE Upgrade
  BY <1>9, UpgradeOrderly
<1>10. CASE ApplyBase \/ EnsureWallet
  <2>1. /\ start.at \in {"base", "wallet"} /\ start'.at \in {"wallet", "open"}
        /\ start'.step = 0 /\ UNCHANGED <<disk, columns, past>>
    BY <1>10, GoesTo DEF ApplyBase, EnsureWallet, At
  <2> QED
    BY <2>1, OrderlyElsewhere DEF Late
<1>11. CASE Enter
  <2>1. At("open") /\ UNCHANGED <<disk, columns, start, past>>
    BY <1>11 DEF Enter
  <2> QED
    BY <2>1, OrderlyElsewhere DEF Late, At
<1>12. CASE Stop
  BY <1>12, StopOrderly
<1>13. CASE UNCHANGED firstStartVars
  BY <1>13 DEF firstStartVars, Orderly, BeforeRenames, AmongRenames, AfterRenames, Created, StartsAgain,
               NoBudgets, At
<1> QED
  BY <1>1, <1>2, <1>3, <1>4, <1>5, <1>6, <1>7, <1>8, <1>9, <1>10, <1>11, <1>12, <1>13
     DEF FirstStartNext, Providers

-----------------------------------------------------------------------------
(* Minor units and the answer of the setup. *)

\* A step that neither fills in minor units nor goes where they are needed changes nothing there.
LEMMA NextFilledIn ==
    ASSUME IInv, FilledIn, [FirstStartNext]_firstStartVars PROVE FilledIn'
<1>1. CASE Upgrade
  <2>1. CASE Refuse
    BY <2>1, RefusedAt DEF FilledIn
  <2>2. CASE ~Refuse
    <3>1. agree' = [t \in Tables |-> agree[t] \/ t \in Filled]
      BY <1>1, <2>2 DEF Upgrade
    <3> QED
      BY <3>1, Zenon DEF FilledIn, Filled
  <2> QED
    BY <2>1, <2>2
<1>2. CASE ApplyBase \/ EnsureWallet
  <2>1. start.at \in {"base", "wallet"} /\ UNCHANGED agree
    BY <1>2 DEF ApplyBase, EnsureWallet, At
  <2> QED
    BY <2>1 DEF FilledIn
<1>3. CASE Enter \/ UNCHANGED firstStartVars
  BY <1>3 DEF Enter, firstStartVars, FilledIn
<1>4. ASSUME start'.at \notin {"base", "wallet", "open"}
      PROVE  FilledIn'
  BY <1>4 DEF FilledIn
<1>5. CASE \/ \E moved \in BOOLEAN : Launch(moved)
           \/ \E currency \in Currencies : PickBase(currency)
           \/ \E name \in Providers : PickPrimary(name) \/ PickFallback(name)
           \/ Save \/ Cancel \/ Stop
  <2>1. start'.at \in {"connect", "setup", "off"}
    <3>1. ASSUME NEW moved, Launch(moved)
          PROVE  start'.at \in {"connect", "setup"}
      BY <3>1, StartIs DEF Launch
    <3>2. ASSUME NEW form, Pick(form)
          PROVE  start'.at = "setup"
      BY <3>2, StartIs DEF Pick, At
    <3>3. CASE Save
      BY <3>3 DEF Save
    <3>4. CASE Cancel
      BY <3>4, StartIs DEF Cancel
    <3>5. CASE Stop
      BY <3>5 DEF Stop
    <3> QED
      BY <1>5, <3>1, <3>2, <3>3, <3>4, <3>5 DEF PickBase, PickPrimary, PickFallback
  <2> QED
    BY <1>4, <2>1
<1>6. CASE Connect
  <2>1. \E place \in {"migrate", "create", "refused"} : Goes(place)
    BY <1>6 DEF Connect, Refuse
  <2> QED
    BY <1>4, <2>1, GoesTo
<1>7. CASE MigrateNothing \/ RenamesDone
  <2>1. \E place \in {"create", "upgrade"} : Goes(place)
    BY <1>7 DEF MigrateNothing, RenamesDone, Migrated
  <2> QED
    BY <1>4, <2>1, GoesTo
<1>8. CASE (\E t \in Tables : AddMinor(t)) \/ RenameNext \/ CreateNext
  <2>1. start'.at \in {"migrate", "migrate_again", "create", "refused"}
    <3>1. ASSUME NEW t \in Tables, AddMinor(t)
          PROVE  start'.at \in {"migrate", "migrate_again"}
      BY <3>1 DEF AddMinor, Migrating, At
    <3>2. CASE RenameNext
      BY <3>2, StartIs, RefusedAt DEF RenameNext, Migrating, At
    <3>3. CASE CreateNext
      BY <3>3, GoesTo DEF CreateNext, At
    <3> QED
      BY <1>8, <3>1, <3>2, <3>3
  <2> QED
    BY <1>4, <2>1
<1> QED
  BY <1>1, <1>2, <1>3, <1>5, <1>6, <1>7, <1>8 DEF FirstStartNext, Providers

\* The answer of the setup is the currency of the configuration until the next, and is taken
\* unless another stands there.
LEMMA NextAnswered ==
    ASSUME FirstStartAssumption, IInv, Answered, [FirstStartNext]_firstStartVars
    PROVE  Answered'
<1>1. ASSUME NEW moved \in BOOLEAN, Launch(moved)
      PROVE  Answered'
  <2>1. CASE mainWallet = ""
    <3>1. start'.at = "setup"
      BY <1>1, <2>1, StartIs DEF Launch
    <3> QED
      BY <1>1, <3>1 DEF Launch, Answered, At
  <2>2. CASE mainWallet # ""
    BY <1>1, <2>2 DEF Launch, Answered
  <2> QED
    BY <2>1, <2>2
<1>2. CASE \/ \E currency \in Currencies : PickBase(currency)
           \/ \E name \in Providers : PickPrimary(name) \/ PickFallback(name)
  <2>1. PICK form : Pick(form)
    BY <1>2 DEF PickBase, PickPrimary, PickFallback
  <2>2. start'.at = "setup" /\ start.at = "setup"
    BY <2>1, StartIs DEF Pick, At
  <2> QED
    BY <2>1, <2>2 DEF Pick, stored, Answered, At
<1>3. CASE Save
  <2>1. start'.at = "connect" /\ start'.choice = config'.base /\ start.at = "setup"
    BY <1>3 DEF Save, At
  <2>2. UNCHANGED <<baseCurrency, mainWallet, past>>
    BY <1>3 DEF Save, stored
  <2> QED
    BY <2>1, <2>2 DEF Answered, At
<1>4. CASE Cancel
  <2>1. start'.at = "off" /\ start.at = "setup"
    BY <1>4, StartIs DEF Cancel, At
  <2> QED
    BY <1>4, <2>1 DEF Cancel, stored, Answered, At
<1>5. CASE Connect \/ RenameNext \/ Upgrade \/ (\E t \in Tables : AddMinor(t)) \/ CreateNext
  <2>1. /\ UNCHANGED <<baseCurrency, mainWallet, config>> /\ past'.cut = past.cut
        /\ start.at \in {"connect", "migrate", "migrate_again", "upgrade", "create"}
        /\ start'.choice = start.choice
        /\ start'.at \in Places \ {"wallet"}
    <3>1. CASE Refuse
      <4>1. start.at \in {"connect", "migrate", "migrate_again", "upgrade", "create"}
        BY <1>5 DEF Connect, RenameNext, Upgrade, AddMinor, CreateNext, Migrating, At
      <4> QED
        BY <3>1, <4>1, RefusedAt DEF Places
    <3>2. CASE ~Refuse /\ Connect
      <4>1. \E place \in {"migrate", "create"} : Goes(place)
        BY <3>2 DEF Connect
      <4> QED
        BY <3>2, <4>1, GoesTo DEF Connect, Places, At
    <3>3. CASE ~Refuse /\ RenameNext
      BY <3>3, StartIs DEF RenameNext, Migrating, At, Places
    <3>4. CASE ~Refuse /\ Upgrade
      BY <3>4, GoesTo DEF Upgrade, At, Places
    <3>5. CASE \E t \in Tables : AddMinor(t)
      BY <3>5 DEF AddMinor, Migrating, At, Places
    <3>6. CASE CreateNext
      BY <3>6, GoesTo DEF CreateNext, At, Places
    <3> QED
      BY <1>5, <3>1, <3>2, <3>3, <3>4, <3>5, <3>6
  <2> QED
    BY <2>1 DEF Answered, At
<1>6. CASE MigrateNothing \/ RenamesDone
  <2>1. /\ UNCHANGED <<mainWallet, config, past>>
        /\ baseCurrency' = IF baseCurrency = "" THEN "KZT" ELSE baseCurrency
        /\ start.at \in {"migrate", "migrate_again"}
        /\ \E place \in {"create", "upgrade"} : Goes(place)
    BY <1>6 DEF MigrateNothing, RenamesDone, Migrated, Migrating, At
  <2>2. start'.choice = start.choice /\ start'.at \in {"create", "upgrade"}
    BY <2>1, GoesTo
  <2> QED
    BY <2>1, <2>2 DEF Answered, At
<1>7. CASE ApplyBase
  <2>1. /\ start.at = "base" /\ start'.at = "wallet" /\ start'.choice = start.choice
        /\ UNCHANGED <<mainWallet, config, past>>
        /\ baseCurrency' = IF start.choice # "" /\ MayStillChoose THEN start.choice
                           ELSE baseCurrency
    BY <1>7, GoesTo DEF ApplyBase, At
  <2>2. config.base # ""
    BY DEF IInv, Types, Form, FirstStartAssumption
  <2> QED
    BY <2>1, <2>2 DEF Answered, MayStillChoose, At
<1>8. CASE EnsureWallet
  <2>1. baseCurrency # ""
    BY <1>8 DEF EnsureWallet, IInv, Settled, At
  <2>2. mainWallet' # ""
    BY <1>8, <2>1 DEF EnsureWallet
  <2> QED
    BY <2>2 DEF Answered
<1>9. CASE Enter \/ UNCHANGED firstStartVars
  BY <1>9 DEF Enter, firstStartVars, Answered, At
<1>10. CASE Stop
  <2>1. /\ start'.at = "off" /\ past'.cut = past.cut \cup CutOff
        /\ UNCHANGED <<baseCurrency, mainWallet, config>>
    BY <1>10, StartIs DEF Stop, stored
  <2>2. At("wallet") /\ mainWallet = "" /\ baseCurrency # "KZT" => "wallet" \in CutOff
    BY DEF CutOff
  <2> QED
    BY <2>1, <2>2 DEF Answered, At
<1> QED
  BY <1>1, <1>2, <1>3, <1>4, <1>5, <1>6, <1>7, <1>8, <1>9, <1>10 DEF FirstStartNext, Providers

-----------------------------------------------------------------------------
(* What holds. *)

\* The invariant holds in every state.
THEOREM Invariant == ASSUME FirstStartAssumption PROVE FirstStartSpec => []IInv
<1>1. FirstStartInit => IInv
  BY InitInvariant
<1>2. IInv /\ [FirstStartNext]_firstStartVars => IInv'
  BY NextInvariant
<1> QED BY <1>1, <1>2, PTL DEF FirstStartSpec

\* Files, columns, currencies and the form keep their types, and "Continue" of the setup
\* is never refused for its providers, whatever was picked before.
THEOREM TypeCorrect ==
    ASSUME FirstStartAssumption PROVE FirstStartSpec => [](FirstStartTypeOK /\ FormIsValid)
<1>1. IInv => FirstStartTypeOK /\ FormIsValid
  BY DEF IInv, Types, FirstStartTypeOK, Columns, Maybe
<1> QED BY <1>1, Invariant, PTL

\* Amounts stay in the currency they were entered in, wherever starts are cut off and
\* whatever the setup is answered: it replaces no base currency that a wallet has.
THEOREM InTheirCurrency ==
    ASSUME FirstStartAssumption PROVE FirstStartSpec => []AmountsInBase
<1>1. IInv => AmountsInBase
  BY DEF IInv, Counted, Settled, AmountsInBase, At
<1> QED BY <1>1, Invariant, PTL

\* All that the process and the tables keep.
THEOREM Steadily ==
    ASSUME FirstStartAssumption
    PROVE  FirstStartSpec => [](IInv /\ Orderly /\ FilledIn /\ Answered)
<1>1. FirstStartInit => Orderly /\ FilledIn /\ Answered
  <2> SUFFICES ASSUME FirstStartInit
               PROVE  Orderly /\ FilledIn /\ Answered
    OBVIOUS
  <2>1. start.at = "off" /\ baseCurrency = ""
    BY DEF FirstStartInit
  <2> QED
    BY <2>1, InitOrderly DEF FilledIn, Answered, At
<1>2. IInv /\ (Orderly /\ FilledIn /\ Answered) /\ [FirstStartNext]_firstStartVars
         => (Orderly /\ FilledIn /\ Answered)'
  BY NextOrderly, NextFilledIn, NextAnswered
<1> QED BY <1>1, <1>2, Invariant, PTL DEF FirstStartSpec

\* An open database has every amount under the name the code reads and in both columns, unless
\* a process ended between two renames: whatever was found, wherever else starts were cut off.
THEOREM WholeOnceOpen ==
    ASSUME FirstStartAssumption PROVE FirstStartSpec => []ColumnsAreWhole
<1>1. IInv /\ Orderly /\ FilledIn /\ Answered => ColumnsAreWhole
  <2> SUFFICES ASSUME Orderly, FilledIn, At("open"), "rename" \notin past.cut, NEW t \in Tables
               PROVE  columns[t] = NewColumns /\ (agree[t] \/ t = "budgets")
    BY DEF ColumnsAreWhole
  <2>1. AfterRenames
    BY DEF Orderly, BeforeRenames, AmongRenames, Early, At
  <2>2. columns[t] = NewColumns
    BY <2>1 DEF AfterRenames, Late, At
  <2>3. t # "budgets" => agree[t]
    BY DEF FilledIn, Filled, At
  <2> QED BY <2>2, <2>3
<1> QED BY <1>1, Steadily, PTL

\* A start that was cut off nowhere between the renames, nor before the records were created,
\* is refused a database only when it is of before budgets, and that one once.
THEOREM RefusedOnce ==
    ASSUME FirstStartAssumption PROVE FirstStartSpec => []StartsAgain
<1>1. IInv /\ Orderly /\ FilledIn /\ Answered => StartsAgain
  <2> SUFFICES ASSUME Orderly, At("refused"), past.cut = {}
               PROVE  StartsAgain
    BY DEF StartsAgain
  <2>1. AfterRenames
    BY DEF Orderly, BeforeRenames, AmongRenames, Early, At
  <2> QED BY <2>1 DEF AfterRenames
<1> QED BY <1>1, Steadily, PTL

\* A database of any version opens, whole, wherever earlier starts were cut off but between two
\* renames, or between the creation of transfers and of records.
THEOREM OpenIsWhole ==
    ASSUME FirstStartAssumption PROVE FirstStartSpec => []OpensWhole
<1>1. StartsAgain /\ ColumnsAreWhole => OpensWhole
  BY DEF OpensWhole
<1> QED BY <1>1, RefusedOnce, WholeOnceOpen, PTL

\* New books are in the currency of the setup that was answered last, through every start that
\* was cut off, unless an answer was stored and its process ended before the wallet.
THEOREM AnswerHolds ==
    ASSUME FirstStartAssumption PROVE FirstStartSpec => ChoiceHolds
<1> DEFINE Holds == mainWallet = "" /\ mainWallet' # "" =>
                      mainWallet' = config.base \/ "wallet" \in past.cut
<1>1. (IInv /\ Orderly /\ FilledIn /\ Answered) /\ [FirstStartNext]_firstStartVars => Holds
  <2> SUFFICES ASSUME Answered, [FirstStartNext]_firstStartVars, mainWallet = "", mainWallet' # ""
               PROVE  mainWallet' = config.base \/ "wallet" \in past.cut
    OBVIOUS
  <2>1. EnsureWallet
    BY DEF FirstStartNext, firstStartVars, stored, Launch, PickBase, PickPrimary, PickFallback, Pick, Save, Cancel,
           Connect, Refuse, MigrateNothing, AddMinor, RenameNext, RenamesDone, CreateNext,
           Upgrade, ApplyBase, Enter, Stop
  <2> QED BY <2>1 DEF EnsureWallet, Answered, At
<1>2. FirstStartSpec => [][Holds]_firstStartVars
  BY <1>1, Steadily, PTL DEF FirstStartSpec
<1> QED BY <1>2 DEF ChoiceHolds, Holds

\* New books are in the currency of the setup, old amounts stay in theirs, and the form of the
\* setup can always be saved: whatever is picked, answered and cut off.
THEOREM CurrencyIsKept ==
    ASSUME FirstStartAssumption PROVE FirstStartSpec => BooksKeepTheirCurrency
<1>1. FirstStartSpec => [](AmountsInBase /\ FormIsValid)
  BY InTheirCurrency, TypeCorrect, PTL
<1> QED BY <1>1, AnswerHolds DEF BooksKeepTheirCurrency
=============================================================================
