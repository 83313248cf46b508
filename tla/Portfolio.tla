------------------------------ MODULE Portfolio -----------------------------
(***************************************************************************)
(* Assets, their values over time ("snapshots"), goals, and the dashboard  *)
(* over them (services/portfolio over infrastructure/sqlite/assets_goals,  *)
(* behind the dialogs of the dashboard tab).                               *)
(*                                                                         *)
(* The services number new rows themselves, with one more than the largest *)
(* id; the tables ignore that number and count on from the highest id ever *)
(* given (AUTOINCREMENT).  A row is saved under an id that exists, or else *)
(* inserted, so whether a value finds its own row depends on the two       *)
(* counts.                                                                 *)
(*                                                                         *)
(* Dialogs hold a grab, so a form and what it was filled from are saved in *)
(* one step.  Amounts are in minor units; exchange rates do not change.    *)
(***************************************************************************)
EXTENDS Tables, FiniteSetsExt, SequencesExt
Audit == INSTANCE Audit

CONSTANTS
    Kinds,       \* [category, currency]: what an asset can be
    RateOf,      \* the base currency one unit of each currency is worth
    Values,      \* values a snapshot may be entered with
    LastDay,     \* bound: the days that pass
    AssetForms,  \* [kind, created]: how the form of a new asset is filled
    GoalForms,   \* [target, created, due]: how that of a goal is
    MaxAssets, MaxSnapshots, MaxGoals,   \* bounds: rows; assets and goals ever created
    Backups      \* [assets, snapshots, goals]: what an import may put in their place

Days  == 1 .. LastDay
NoDay == 0       \* a goal without a target date

AssetRow    == [kind : Kinds, created : Days, active : BOOLEAN]
SnapshotRow == [asset : Nat, day : Days, value : Values,
                currency : {kind.currency : kind \in Kinds}]
GoalRow     == [target : Nat \ {0}, created : Days, due : Days \cup {NoDay}, done : BOOLEAN]

IsTable(tbl, Row) ==
    IsFiniteSet(DOMAIN tbl) /\ DOMAIN tbl \subseteq Nat \ {0} /\ tbl \in [DOMAIN tbl -> Row]

\* UNIQUE(asset_id, snapshot_date)
OneForEachDay(tbl) ==
    \A i, j \in DOMAIN tbl : tbl[i].asset = tbl[j].asset /\ tbl[i].day = tbl[j].day => i = j

\* A backup is one that the domain's classes, the service and the schema take.
BackupIsAccepted(b) ==
    /\ IsTable(b.assets, AssetRow) /\ IsTable(b.snapshots, SnapshotRow)
    /\ IsTable(b.goals, GoalRow)
    /\ \A s \in DOMAIN b.snapshots : b.snapshots[s].asset \in DOMAIN b.assets
    /\ OneForEachDay(b.snapshots)

ASSUME PortfolioAssumption ==
    /\ Values \subseteq Nat /\ LastDay \in Nat \ {0}
    /\ MaxAssets \in Nat /\ MaxSnapshots \in Nat /\ MaxGoals \in Nat
    /\ \A kind \in Kinds : RateOf[kind.currency] \in Nat \ {0}
    /\ AssetForms \subseteq [kind : Kinds, created : Days]
    /\ GoalForms \subseteq [target : Nat \ {0}, created : Days, due : Days \cup {NoDay}]
    /\ \A b \in Backups : BackupIsAccepted(b)

VARIABLES
    today,
    assets,      \* id -> [kind, created, active]
    snapshots,   \* id -> [asset, day, value, currency]
    goals,       \* id -> [target, created, due, done]
    counters,    \* the AUTOINCREMENT counters of the three tables
    outcome      \* of the operation before: "done" or "raised"

tables == <<assets, snapshots, goals, counters>>
vars   == <<today, tables, outcome>>

Init ==
    /\ today = 1
    /\ assets = <<>> /\ snapshots = <<>> /\ goals = <<>>
    /\ counters = [assets |-> 0, snapshots |-> 0, goals |-> 0]
    /\ outcome = "done"

-----------------------------------------------------------------------------
(* Rows. *)

NextId(tbl) == MaxId(DOMAIN tbl) + 1

Inserted(tbl, counter, row) == [rows |-> With(tbl, counter + 1, row), counter |-> counter + 1]
Updated(tbl, counter, id, row) == [rows |-> With(tbl, id, row), counter |-> counter]

\* A row under an id: in the place of the row that has it, or at the end.
Saved(tbl, counter, id, row) ==
    IF id \in DOMAIN tbl THEN Updated(tbl, counter, id, row) ELSE Inserted(tbl, counter, row)

\* A value: under its id, or in the place of the value of that asset and day.
SavedSnapshot(tbl, counter, s) ==
    LET same == {i \in DOMAIN tbl : tbl[i].asset = s.row.asset /\ tbl[i].day = s.row.day}
    IN  IF s.id \notin DOMAIN tbl /\ same # {}
        THEN Updated(tbl, counter, CHOOSE i \in same : TRUE, s.row)
        ELSE Saved(tbl, counter, s.id, s.row)

\* Several values, one after the other.
SavedInTurn(tbl, counter, values) ==
    LET Save(acc, s) == SavedSnapshot(acc.rows, acc.counter, s)
    IN  FoldLeft(Save, [rows |-> tbl, counter |-> counter], values)

\* The last value of each asset that is wanted.
Latest(wanted) ==
    {i \in DOMAIN snapshots :
       /\ snapshots[i].asset \in wanted
       /\ \A j \in DOMAIN snapshots :
             snapshots[j].asset = snapshots[i].asset =>
                 \/ snapshots[j].day < snapshots[i].day
                 \/ snapshots[j].day = snapshots[i].day /\ j <= i}

Active == {a \in DOMAIN assets : assets[a].active}

-----------------------------------------------------------------------------
(* The forms, and what they save. *)

NextDay ==
    /\ today < LastDay /\ today' = today + 1
    /\ UNCHANGED <<tables, outcome>>

\* What the form asks of a new asset: no day to come.
AssetAccepted(form) == form.created <= today

\* An asset is saved, and read back under the number the service chose.
CreateAsset(form) ==
    /\ AssetAccepted(form) /\ counters.assets < MaxAssets
    /\ LET id    == NextId(assets)
           saved == Saved(assets, counters.assets, id,
                          [kind |-> form.kind, created |-> form.created, active |-> TRUE])
       IN  /\ assets' = saved.rows
           /\ counters' = [counters EXCEPT !.assets = saved.counter]
           /\ outcome' = IF id \in DOMAIN assets' THEN "done" ELSE "raised"
    /\ UNCHANGED <<today, snapshots, goals>>

\* The form of an asset keeps its date; its values keep their currency.
UpdateAsset(a, kind) ==
    /\ assets' = [assets EXCEPT ![a].kind = kind]
    /\ outcome' = "done"
    /\ UNCHANGED <<today, snapshots, goals, counters>>

\* (Mutant of DeactivateAsset: the row goes.)
DeleteAssetRow(a) ==
    /\ assets' = Without(assets, {a})
    /\ outcome' = "done"
    /\ UNCHANGED <<today, snapshots, goals, counters>>

DeactivateAsset(a) ==
    /\ assets[a].active
    /\ assets' = [assets EXCEPT ![a].active = FALSE]
    /\ outcome' = "done"
    /\ UNCHANGED <<today, snapshots, goals, counters>>

\* What the bulk form asks: no day to come, and a line that is filled.
BulkAccepted(day, given) == day <= today /\ DOMAIN given # {}

\* Those lines, in the order of the assets.
Entries(day, given) ==
    LET Line(a) == [asset |-> a, day |-> day, value |-> given[a],
                    currency |-> assets[a].kind.currency]
    IN  [k \in 1 .. Cardinality(DOMAIN given) |-> Line(Nth(DOMAIN given, k))]

\* (Mutant of Numbered: every value gets the next number.)
NumberedAlike(entries) == [k \in DOMAIN entries |-> [id |-> NextId(snapshots), row |-> entries[k]]]

\* The numbers the service gives before it saves any of them.
Numbered(entries) ==
    [k \in DOMAIN entries |-> [id |-> NextId(snapshots) + k - 1, row |-> entries[k]]]

\* All values of the form in one transaction.
BulkUpsertSnapshots(day, given) ==
    /\ BulkAccepted(day, given)
    /\ LET saved == SavedInTurn(snapshots, counters.snapshots, Numbered(Entries(day, given)))
       IN  /\ Cardinality(DOMAIN saved.rows) <= MaxSnapshots
           /\ snapshots' = saved.rows
           /\ counters' = [counters EXCEPT !.snapshots = saved.counter]
    /\ outcome' = "done"
    /\ UNCHANGED <<today, assets, goals>>

\* What the form and the service ask of a goal.
GoalAccepted(form) ==
    form.created <= today /\ (form.due # NoDay => form.due >= form.created)

CreateGoal(form) ==
    /\ GoalAccepted(form) /\ counters.goals < MaxGoals
    /\ LET id    == NextId(goals)
           saved == Saved(goals, counters.goals, id,
                          [target |-> form.target, created |-> form.created,
                           due |-> form.due, done |-> FALSE])
       IN  /\ goals' = saved.rows
           /\ counters' = [counters EXCEPT !.goals = saved.counter]
           /\ outcome' = IF id \in DOMAIN goals' THEN "done" ELSE "raised"
    /\ UNCHANGED <<today, assets, snapshots>>

SetGoalCompleted(g) ==
    /\ goals' = [goals EXCEPT ![g].done = ~ @]
    /\ outcome' = "done"
    /\ UNCHANGED <<today, assets, snapshots, counters>>

\* A goal goes; the counter stays where it is.
DeleteGoal(g) ==
    /\ goals' = Without(goals, {g})
    /\ outcome' = "done"
    /\ UNCHANGED <<today, assets, snapshots, counters>>

CountersAfter(backup) ==
    [assets |-> MaxId(DOMAIN backup.assets), snapshots |-> MaxId(DOMAIN backup.snapshots),
     goals |-> MaxId(DOMAIN backup.goals)]

ReplaceAssets(backup) == assets' = backup.assets /\ snapshots' = backup.snapshots
ReplaceGoals(backup)  == goals' = backup.goals

\* An import puts other tables in their place, with the ids of the file.
ReplaceTables(backup) ==
    /\ ReplaceAssets(backup) /\ ReplaceGoals(backup)
    /\ counters' = CountersAfter(backup)
    /\ outcome' = "done"
    /\ UNCHANGED today

(* The dialogs, each over all it may be filled with. *)

AssetDialog ==
    \/ \E form \in AssetForms : CreateAsset(form)
    \/ \E a \in DOMAIN assets, kind \in Kinds : UpdateAsset(a, kind)

ManageDialog == \E a \in DOMAIN assets : DeactivateAsset(a)

\* The lines of the bulk form are the active assets.
BulkDialog ==
    \E day \in Days, some \in SUBSET Active : \E given \in [some -> Values] :
       BulkUpsertSnapshots(day, given)

GoalDialog == \E form \in GoalForms : CreateGoal(form)

GoalList == \E g \in DOMAIN goals : SetGoalCompleted(g) \/ DeleteGoal(g)

Next ==
    \/ NextDay
    \/ AssetDialog \/ ManageDialog \/ BulkDialog
    \/ GoalDialog \/ GoalList
    \/ \E backup \in Backups : ReplaceTables(backup)

Spec == Init /\ [][Next]_vars

-----------------------------------------------------------------------------
(* The dashboard. *)

InBase(s) == s.value * RateOf[s.currency]

\* The worth of the assets that are active.
TotalAssets == LET Worth(i) == InBase(snapshots[i]) IN MapThenSumSet(Worth, Latest(Active))

\* The same by category.
Allocation ==
    LET Worth(i) == InBase(snapshots[i])
        Of(i)    == assets[snapshots[i].asset].kind.category
    IN  [category \in {Of(i) : i \in Latest(Active)} |->
           MapThenSumSet(Worth, {i \in Latest(Active) : Of(i) = category})]

\* How much of a goal is reached, in hundredths of it.
Progress(g) == Min({100, (100 * TotalAssets) \div goals[g].target})

Dashboard ==
    [total |-> TotalAssets, allocation |-> Allocation,
     progress |-> [g \in DOMAIN goals |-> Progress(g)],
     completed |-> Cardinality({g \in DOMAIN goals : goals[g].done})]

-----------------------------------------------------------------------------
(* Properties. *)

TypeOK ==
    /\ today \in Days /\ outcome \in {"done", "raised"}
    /\ counters \in [assets : Nat, snapshots : Nat, goals : Nat]
    /\ IsTable(assets, AssetRow) /\ DOMAIN assets \subseteq 1 .. counters.assets
    /\ IsTable(snapshots, SnapshotRow) /\ DOMAIN snapshots \subseteq 1 .. counters.snapshots
    /\ IsTable(goals, GoalRow) /\ DOMAIN goals \subseteq 1 .. counters.goals
    /\ \A i \in DOMAIN snapshots : snapshots[i].asset \in DOMAIN assets

\* The book of a table of values.
BookOf(tbl) ==
    LET Entry(i) == <<tbl[i].asset, tbl[i].day>>
    IN  [entry \in {Entry(i) : i \in DOMAIN tbl} |->
           tbl[CHOOSE i \in DOMAIN tbl : Entry(i) = entry].value]

Book == INSTANCE SnapshotBook WITH
    Ids <- 1 .. MaxAssets \cup UNION {DOMAIN b.assets : b \in Backups},
    Books <- {BookOf(b.snapshots) : b \in Backups},
    book <- BookOf(snapshots)

\* The table of values is a book: values entered together are all in it, each for its asset
\* and day, and take the place of no other value, whatever numbers the service and the table
\* give them; a value entered again on a day replaces that of the day.
KeepsTheBook ==
    /\ Book!Spec
    /\ [][\A day \in Days, some \in SUBSET Active : \A given \in [some -> Values] :
            BulkUpsertSnapshots(day, given) => Book!Enter(day, given)]_vars

\* An operation that reports an error has saved nothing, except that a goal created after
\* the one with the highest number was deleted is saved under another number than the one
\* it is then looked for: the form reports "not found", and saving it again makes a second.
FailureSavesNothing ==
    [][outcome' = "raised" =>
         \/ UNCHANGED tables
         \/ UNCHANGED <<assets, snapshots>> /\ counters.goals > MaxId(DOMAIN goals)]_vars

\* What the audit objects to of what the dialogs accepted: a value of a day before its asset
\* was created, which the bulk form takes, and, as a warning, one in the currency its asset had
\* when it was entered.
AuditObjects ==
    LET rows  == [a \in DOMAIN assets |->
                     [created |-> assets[a].created, currency |-> assets[a].kind.currency]]
        found == Audit!SnapshotFindings(rows, snapshots, today)
    IN  /\ Audit!AssetFindings(rows, today) = {} /\ Audit!GoalFindings(goals, today) = {}
        /\ \A f \in Audit!Errors(found) :
              snapshots[f.id].day < assets[snapshots[f.id].asset].created

\* The dashboard shows of each active asset the value of the last day in the book, whatever
\* order the values were entered in; its categories add up, and no goal is more than reached.
DashboardIsCurrent ==
    LET book    == BookOf(snapshots)
        DaysOf(a) == {day \in Days : <<a, day>> \in DOMAIN book}
        Currency(a, day) ==
            snapshots[CHOOSE i \in DOMAIN snapshots :
                         snapshots[i].asset = a /\ snapshots[i].day = day].currency
        Worth(a) ==
            IF DaysOf(a) = {} THEN 0
            ELSE book[<<a, Max(DaysOf(a))>>] * RateOf[Currency(a, Max(DaysOf(a)))]
        Slice(c) == Dashboard.allocation[c]
    IN  /\ Dashboard.total = MapThenSumSet(Worth, Active)
        /\ Dashboard.total = MapThenSumSet(Slice, DOMAIN Dashboard.allocation)
        /\ \A g \in DOMAIN goals : Dashboard.progress[g] \in 0 .. 100
=============================================================================
