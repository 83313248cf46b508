SPECIFICATION OnlyRatesSpec
CONSTANTS
    MaxSettings = 1
    KeepLast = 1
    MaxCommits = 2
    MaxTime = 11
    Versions <- UpdateVersions
    FirstVersion <- UpdateFirst
    ReleaseLists <- UpdateReleases
    Wallets = {1, 2}
    Names = {"rent"}
    MonthLengths <- YearLengths
    MonthsPerYear = 2
    WeekLength = 2
    Dates = {3}
    WindowDisabled = TRUE
    MaxTemplates = 1
    MaxRecords = 2
    Labels = {1, 2}
    Colours = {"red", "blue"}
    Hashed <- TagHashes
    TagDates = {1}
    MaxPerRecord = 2
    MaxTagged = 3
    MaxTagId = 3
    Debts = {1, 2}
    Loans = {2}
    FirstDatabase <- ImportDatabase
    Files <- ImportFiles
INVARIANTS
    CacheHoldsProviderRates
CHECK_DEADLOCK FALSE
