------------------------------- MODULE Budgets ------------------------------
(***************************************************************************)
(* Budgets: limits on what is spent in a category or under a tag between   *)
(* two days (services/planning/budget behind the budget tab), over the     *)
(* records of Views.  Nothing but the check when a budget is created keeps *)
(* two of a scope from overlapping; what was spent and where it leads to   *)
(* is computed anew each time the tab is drawn.                            *)
(***************************************************************************)
EXTENDS Tables, FiniteSetsExt, SequencesExt

CONSTANTS
    MonthLength, YearLength, LastDate, Wallets, Initials, Forms, Moves, MaxSlices, MaxBooked,
                   \* of Views
    BudgetForms,   \* [scope, value, from, to, limit, mandatory]: how the form is filled
    Limits,        \* what the limit may be changed to
    TagRenames,    \* <<old, new>>: tags that may be renamed
    BudgetFiles,   \* tables of budgets: what an import may bring
    MaxBudgets     \* bound: budgets ever created

VARIABLES
    active, records,   \* of Views
    budgets,       \* id -> [scope, value, from, to, limit, mandatory]
    lastBudget     \* the AUTOINCREMENT counter of the table

View == INSTANCE Views

budgetVars == <<budgets, lastBudget>>

BudgetRow ==
    [scope : {"category", "tag"}, value : STRING, from : 1 .. LastDate, to : 1 .. LastDate,
     limit : Int, mandatory : BOOLEAN]

\* What the schema admits.
Possible(b) == b \in BudgetRow /\ b.from <= b.to /\ b.limit > 0

SameScope(b, c) == b.scope = c.scope /\ b.value = c.value

\* (Mutant of Overlap: a budget may begin on the day another ends.)
OverlapInside(b, c) == SameScope(b, c) /\ b.from < c.to /\ c.from < b.to

Overlap(b, c) == SameScope(b, c) /\ b.from <= c.to /\ c.from <= b.to

NoneOverlap(table) ==
    \A i, j \in DOMAIN table : i # j => ~ (SameScope(table[i], table[j])
                                             /\ \E day \in 1 .. LastDate :
                                                   /\ table[i].from <= day /\ day <= table[i].to
                                                   /\ table[j].from <= day /\ day <= table[j].to)

\* Files are those the application wrote; it does not look for overlaps when it reads them.
BudgetsAssumption ==
    /\ View!ViewsAssumption /\ MaxBudgets \in Nat
    /\ Limits \subseteq Nat \ {0} /\ BudgetForms \subseteq BudgetRow
    /\ TagRenames \subseteq STRING \X STRING
    /\ \A file \in BudgetFiles :
          /\ IsFiniteSet(DOMAIN file) /\ DOMAIN file \subseteq Nat \ {0}
          /\ file \in [DOMAIN file -> BudgetRow]
          /\ NoneOverlap(file) /\ \A i \in DOMAIN file : Possible(file[i])

-----------------------------------------------------------------------------
(* The state of a budget on a day. *)

Length(b) == b.to - b.from + 1

Elapsed(b, day) ==
    IF day < b.from THEN 0 ELSE IF day > b.to THEN Length(b) ELSE day - b.from + 1

Status(b, day) ==
    IF day < b.from THEN "future" ELSE IF day > b.to THEN "expired" ELSE "active"

Counted(b) == IF b.mandatory THEN {"expense", "mandatory"} ELSE {"expense"}

InScope(b, r) == IF b.scope = "tag" THEN b.value \in r.tags ELSE r.category = b.value

SpentOn(b) ==
    View!Where(View!Within(View!Own(records), b.from, b.to),
               LAMBDA r : r.kind \in Counted(b) /\ InScope(b, r))

Spent(b) == View!Amount(SpentOn(b))

\* Integer quotient, a half to the even side.
Rounded(a, b) ==
    LET q == a \div b
        r == a % b
    IN  IF 2 * r > b \/ (2 * r = b /\ q % 2 = 1) THEN q + 1 ELSE q

\* Tenths of a percent; ten percent over the days is too fast.
UsedShare(b)      == Rounded(1000 * Spent(b), b.limit)
TimeShare(b, day) == Rounded(1000 * Elapsed(b, day), Length(b))

Pace(b, day) ==
    IF Spent(b) >= b.limit THEN "overspent"
    ELSE IF UsedShare(b) > TimeShare(b, day) + 100 THEN "overpace"
    ELSE "on_track"

TooEarly == [known |-> FALSE]

\* What will remain at the end if all goes on as it did, and in how many days it is spent.
Forecast(b, day) ==
    LET elapsed == Elapsed(b, day)
        paced   == Max({1, elapsed})
        remains == b.limit - Rounded(Spent(b) * Length(b), paced)
    IN  IF elapsed < 3 /\ Spent(b) < Max({1, b.limit \div 10}) THEN TooEarly
        ELSE [known |-> TRUE, remains |-> remains,
              days |-> IF Spent(b) > 0 /\ Spent(b) < b.limit
                       THEN {((b.limit - Spent(b)) * paced) \div Spent(b)} ELSE {}]

-----------------------------------------------------------------------------
(* Operations of the tab. *)

\* What the form and the service ask.
BudgetAccepted(form) ==
    /\ form.value # "" /\ form.from <= form.to /\ form.limit > 0
    /\ \A i \in DOMAIN budgets : ~ Overlap(budgets[i], form)

CreateBudget(form) ==
    /\ BudgetAccepted(form) /\ lastBudget < MaxBudgets
    /\ budgets' = With(budgets, lastBudget + 1, form)
    /\ lastBudget' = lastBudget + 1

UpdateBudgetLimit(i, limit) ==
    /\ budgets' = [budgets EXCEPT ![i].limit = limit]
    /\ UNCHANGED lastBudget

DeleteBudget(i) ==
    /\ budgets' = Without(budgets, {i})
    /\ UNCHANGED lastBudget

\* An import: the budgets of the file with their ids, the counter at the highest.
ReplaceBudgets(file) ==
    /\ budgets' = file
    /\ lastBudget' = MaxId(DOMAIN file)

\* A tag gets another name, or becomes one with another tag; budgets keep the old name.
RenameTag(old, new) ==
    /\ old \in View!TagsOf(records)
    /\ records' = [i \in DOMAIN records |->
                     [records[i] EXCEPT !.tags = IF old \in @ THEN (@ \ {old}) \cup {new} ELSE @]]
    /\ UNCHANGED <<active, budgetVars>>

BudgetsInit == View!Init /\ budgets = <<>> /\ lastBudget = 0

BudgetTab ==
    \/ \E form \in BudgetForms : CreateBudget(form)
    \/ \E i \in DOMAIN budgets, limit \in Limits : UpdateBudgetLimit(i, limit)
    \/ \E i \in DOMAIN budgets : DeleteBudget(i)
    \/ \E file \in BudgetFiles : ReplaceBudgets(file)

BudgetsNext ==
    \/ View!Next /\ UNCHANGED budgetVars
    \/ BudgetTab /\ UNCHANGED <<active, records>>
    \/ \E names \in TagRenames : RenameTag(names[1], names[2])

budgetsVars == <<active, records, budgetVars>>

BudgetsSpec == BudgetsInit /\ [][BudgetsNext]_budgetsVars

-----------------------------------------------------------------------------
(* Properties. *)

BudgetsTypeOK ==
    /\ View!TypeOK
    /\ lastBudget \in Nat /\ DOMAIN budgets \subseteq 1 .. lastBudget
    /\ \A i \in DOMAIN budgets : Possible(budgets[i])

\* A spending counts in one budget of its category, and in one of each of its tags, whatever
\* is created, deleted and imported.
CountsOnce == NoneOverlap(budgets)

\* With mandatory expenses, a budget has spent what the analytics tell of its category or tag
\* for its days; without them, that less the mandatory ones.
BudgetsAgree ==
    \A i \in DOMAIN budgets :
       LET b     == budgets[i]
           table == IF b.scope = "tag" THEN View!SpendingByTag(b.from, b.to)
                    ELSE View!SpendingByCategory(b.from, b.to)
           all   == IF b.value \in DOMAIN table THEN table[b.value].total ELSE 0
           Must(r) == r.kind = "mandatory" /\ InScope(b, r)
       IN  Spent(b) = all - (IF b.mandatory THEN 0
                             ELSE View!Amount(View!Where(View!Own(View!Within(records, b.from, b.to)), Must)))

\* A forecast comes true: on the last day it is what remains; one that says the limit is spent
\* in so many days names a day before the end, and none says so of a budget it sees kept.
ForecastsComeTrue ==
    \A i \in DOMAIN budgets : \A day \in 1 .. LastDate :
       LET b        == budgets[i]
           forecast == Forecast(b, day)
       IN  forecast.known =>
             /\ day >= b.to => forecast.remains = b.limit - Spent(b)
             /\ Status(b, day) = "active" /\ forecast.remains < 0 =>
                   \A days \in forecast.days : days < b.to - day
             /\ forecast.remains < 0 => Pace(b, day) # "on_track" \/ day < b.to
             /\ day >= b.to => (Pace(b, day) = "overspent" <=> forecast.remains <= 0)

\* Budgets of one scope never share a day, and their forecasts come true.
BudgetsHold == CountsOnce /\ ForecastsComeTrue
=============================================================================
