SPECIFICATION PlanningSpec
CONSTANTS
    Kinds <- PortfolioKinds
    RateOf <- PortfolioRates
    Values = {1, 2}
    LastDay = 2
    AssetForms <- PortfolioAssets
    GoalForms <- PortfolioGoals
    MaxAssets = 2
    MaxSnapshots = 2
    MaxGoals = 2
    Backups <- PortfolioBackups
    Currencies = {"KZT", "EUR", "RUB"}
    LastMonth = 2
    Amounts <- PlannedAmounts
    LineNames = {"a", "b"}
    Percents = {5}
    FullPct = 10
    FirstLines <- PlannedLines
    LineBackups <- PlannedBackups
    MaxPerMonth = 1
    MaxLines = 3
    MonthLength = 2
    YearLength = 2
    LastDate = 6
    Wallets = {1, 2}
    Initials <- Openings
    Forms <- BudgetEntries
    Moves <- BudgetMoves
    MaxSlices = 2
    MaxBooked = 3
    BudgetForms <- PlannedBudgets
    Limits = {6}
    TagRenames <- RenamedTags
    BudgetFiles <- SavedBudgets
    MaxBudgets = 2
INVARIANTS
    PlanningTypeOK
    SharesAddUp
    ViewsAgree
    BudgetsHold
    OpensWhole
PROPERTIES
    FixedRowsStay
    KeepsTheBook
    FailureSavesNothing
    ExportShowsTheTable
    ComesBackWhole
    BooksKeepTheirCurrency
CHECK_DEADLOCK FALSE
