----------------------------- MODULE MCPlanning ----------------------------
(***************************************************************************)
(* The instances of the modules of planning, of the views over records and *)
(* of the first start, checked in one run as in MCParts: in a behaviour    *)
(* one of them moves.  The portfolio, the distribution and the first start *)
(* are extended rather than instantiated: their properties are those that  *)
(* PlanningProofs and FirstStartProofs prove.                              *)
(***************************************************************************)
EXTENDS Portfolio, FirstStart, Distribution, Budgets, TLC

VARIABLE part
VARIABLES form, report, view, task, written, showed
VARIABLES ledger, rate, export, paper, kept

viewsVars == <<active, records>>
reportsVars == <<form, report, view, task, written, showed>>
exchangeVars == <<ledger, rate, export, paper, kept>>
planningVars == <<part, distributionVars, vars, viewsVars, budgetVars, reportsVars,
                  exchangeVars, firstStartVars>>

-----------------------------------------------------------------------------
\* An item with one subitem; the user enters halves.
Line(id, parent) ==
    [id |-> id, parent |-> parent, name |-> "a", pct |-> 10, active |-> TRUE]

PlannedLines == {Line(1, 0), Line(2, 1)}

PlannedAmounts == {-5}

PlannedBackups ==
    {[lines |-> PlannedLines,
      fixed |-> <<[auto |-> TRUE, net |-> 3, share |-> 1 :> 2, live |-> FALSE],
                  [auto |-> FALSE, net |-> 0, share |-> <<>>, live |-> TRUE]>>]}

-----------------------------------------------------------------------------
(* Assets in two currencies; a goal that cannot be: due before it was set. *)

AssetKind(category, currency) == [category |-> category, currency |-> currency]

PortfolioKinds == {AssetKind("bank", "KZT"), AssetKind("crypto", "USD")}

PortfolioRates == [KZT |-> 1, USD |-> 3]

PortfolioAssets == {[kind |-> AssetKind("bank", "KZT"), created |-> 2]}

PortfolioGoals ==
    {[target |-> 2, created |-> 1, due |-> 0], [target |-> 2, created |-> 2, due |-> 1]}

PortfolioBackups ==
    {[assets |-> <<[kind |-> AssetKind("bank", "KZT"), created |-> 1, active |-> TRUE]>>,
      snapshots |-> <<[asset |-> 1, day |-> 1, value |-> 2, currency |-> "KZT"]>>,
      goals |-> <<>>]}

-----------------------------------------------------------------------------
(* Records of three months of two days, two months a year. *)

Booked(date, kind, wallet, base, current, category, tags) ==
    [date |-> date, kind |-> kind, wallet |-> wallet, base |-> base, now |-> current,
     category |-> category, tags |-> tags, transfer |-> 0]

Moved(date, from, to, base, current) ==
    [date |-> date, from |-> from, to |-> to, base |-> base, now |-> current]

\* The wallet 2 may be spent empty and deleted; one record is called a transfer.
Views == INSTANCE Views WITH
    Forms <- {Booked(1, "income", 1, 3, 4, "pay", {}),
              Booked(2, "expense", 2, 2, 2, "food", {"a", "b"}),
              Booked(4, "mandatory", 1, 1, 1, "rent", {"a"}),
              Booked(5, "expense", 1, 2, 3, "food", {"b"}),
              Booked(6, "income", 2, 1, 1, "food", {}),
              Booked(3, "expense", 1, 1, 1, "Transfer", {})},
    Moves <- {Moved(3, 2, 1, 2, 3), Moved(5, 1, 2, 1, 1)}

Limit(scope, value, from, to, limit, mandatory) ==
    [scope |-> scope, value |-> value, from |-> from, to |-> to, limit |-> limit,
     mandatory |-> mandatory]

\* Budgets that share a day, one over transfers.
BudgetEntries ==
    {Booked(2, "expense", 2, 2, 2, "food", {"a", "b"}),
     Booked(4, "mandatory", 1, 1, 1, "food", {"a"})}

BudgetMoves == {Moved(3, 2, 1, 2, 3)}

PlannedBudgets ==
    {Limit("category", "food", 2, 4, 3, TRUE), Limit("category", "food", 4, 6, 3, FALSE),
     Limit("tag", "a", 1, 5, 4, TRUE), Limit("category", "Transfer", 1, 6, 3, TRUE)}

SavedBudgets ==
    {<<Limit("tag", "a", 1, 2, 2, FALSE), Limit("category", "food", 1, 3, 9, TRUE)>>}

RenamedTags == {<<"a", "b">>}

Openings == <<1, 2>>

Filter(wallet, from, to, category, tags) ==
    [wallet |-> wallet, from |-> from, to |-> to, category |-> category, tags |-> tags]

\* Filters of an empty wallet that may be deleted, of a tag, and of an end without a start.
Reports == INSTANCE Reports WITH
    result <- report, file <- written, seen <- showed, Initials <- <<1, 0>>,
    Forms <- {Booked(2, "expense", 1, 2, 2, "food", {"a", "b"}),
              Booked(4, "mandatory", 1, 1, 1, "rent", {"a"})},
    Moves <- {Moved(3, 1, 2, 2, 3)},
    Filters <- {Filter(2, 2, 0, "", {}), Filter(1, 2, 0, "", {"b"}), Filter(0, 0, 3, "", {})}

-----------------------------------------------------------------------------
(* A wallet, and another that may be made and left; two operations, of      *)
(* which one has two tags and is priced in dollars; transfers both ways.    *)

Operation(kind, wallet, date, cur, category, tags, text) ==
    [kind |-> kind, wallet |-> wallet, date |-> date, cur |-> cur, amount |-> 1,
     category |-> category, tags |-> tags, text |-> text]

Transferred(from, to, date, text) ==
    [from |-> from, to |-> to, date |-> date, cur |-> "KZT", amount |-> 2, text |-> text]

PlanRow(table, of) == [table |-> table, id |-> 1, of |-> of]

Exchange == INSTANCE Exchange WITH
    FirstWallets <- <<[id |-> 1, open |-> 1, active |-> TRUE]>>,
    Forms <- {Operation("income", 2, 2, "USD", "pay", {"a", "b"}, "x"),
              Operation("mandatory", 1, 1, "KZT", "rent", {"a"}, "y")},
    Moves <- {Transferred(1, 2, 3, "m"), Transferred(2, 1, 1, "")},
    TemplateForms <- {[wallet |-> 2, date |-> 0, cur |-> "USD", amount |-> 1, text |-> "t"]},
    PlanRows <- {PlanRow("assets", 0), PlanRow("values", 1)}, Rates <- {2, 3},
    MaxEntries <- 2, MaxWallets <- 2, MaxLater <- 1, MaxFiles <- 1

ASSUME PlanningAssumption ==
    /\ DistributionAssumption /\ PortfolioAssumption
    /\ Views!ViewsAssumption /\ BudgetsAssumption /\ Reports!ReportsAssumption
    /\ Exchange!ExchangeAssumption /\ FirstStartAssumption

-----------------------------------------------------------------------------
Parts == {"distribution", "portfolio", "views", "budgets", "reports", "exchange",
          "first"}

PlanningInit ==
    /\ part \in Parts
    /\ DistributionInit /\ Init /\ BudgetsInit /\ Reports!ReportsInit
    /\ Exchange!ExchangeInit /\ FirstStartInit
    /\ part # "first" => disk = "none"

Others(p) ==
    /\ UNCHANGED part
    /\ p # "distribution" => UNCHANGED distributionVars
    /\ p # "portfolio"    => UNCHANGED vars
    /\ p # "budgets"      => UNCHANGED budgetVars
    /\ p # "reports"      => UNCHANGED reportsVars
    /\ p # "exchange"     => UNCHANGED exchangeVars
    /\ p # "first"        => UNCHANGED firstStartVars
    /\ p \notin {"views", "budgets", "reports"} => UNCHANGED viewsVars

PlanningNext ==
    \/ part = "distribution" /\ DistributionNext /\ Others("distribution")
    \/ part = "portfolio"    /\ Next                /\ Others("portfolio")
    \/ part = "views"        /\ Views!Next          /\ Others("views")
    \/ part = "budgets"      /\ BudgetsNext /\ Others("budgets")
    \/ part = "reports"      /\ Reports!ReportsNext /\ Others("reports")
    \/ part = "exchange"     /\ Exchange!ExchangeNext /\ Others("exchange")
    \/ part = "first"        /\ FirstStartNext      /\ Others("first")

PlanningSpec == PlanningInit /\ [][PlanningNext]_planningVars

-----------------------------------------------------------------------------
(* Properties: those of the modules, each for its part.  Those of Portfolio,  *)
(* Distribution and FirstStart are there by name: in a behaviour of another   *)
(* part they hold of what stays.                                              *)

\* Types of every part.
PlanningTypeOK ==
    /\ part = "distribution" => DistributionTypeOK
    /\ part = "portfolio"    => TypeOK
    /\ part = "views"        => Views!TypeOK
    /\ part = "budgets"      => BudgetsTypeOK
    /\ part = "reports"      => Reports!ReportsTypeOK
    /\ part = "first"        => FirstStartTypeOK

\* The views of the same records, budgets and assets tell the same, and so do the files.
ViewsAgree ==
    /\ part = "views"     => Views!ViewsAgree
    /\ part = "budgets"   => BudgetsAgree
    /\ part = "portfolio" => DashboardIsCurrent /\ AuditObjects
    /\ part = "reports"   => Reports!TableHasItsCategory
    /\ part = "exchange"  => Exchange!ExchangeAgrees

\* What is exported is what the table shows.
ExportShowsTheTable == Reports!ExportShowsTheTable

\* What is exported and imported again is what it was.
ComesBackWhole == Exchange!ComesBackWhole
=============================================================================
