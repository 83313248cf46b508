-------------------------------- MODULE Views -------------------------------
(***************************************************************************)
(* What the application computes from wallets and records: balances,       *)
(* timeline and metrics (services/analytics, over SQL), the charts of the  *)
(* infographics tab (utils/charting, over loaded records), the reports and *)
(* their exports (domain/reports and the builders of sheets).  They are    *)
(* written separately and must tell the same story.                        *)
(*                                                                         *)
(* Amounts are integers: r.base is the base-currency amount of the time of *)
(* the operation, r.now what its original amount is worth today.  Days are *)
(* numbered; percentages and averages are left out where only division     *)
(* tells them from the sums below.                                         *)
(***************************************************************************)
EXTENDS Tables, FiniteSetsExt, SequencesExt

CONSTANTS
    MonthLength, YearLength,   \* days of a month, months of a year
    LastDate,                  \* bound: the last day there is
    Wallets, Initials,         \* wallet ids, and the balance each began with
    Forms,                     \* the records a user may enter
    Moves,                     \* [date, from, to, base, now]: the transfers
    MaxSlices,                 \* slices of the pie, 10 in the code
    MaxBooked                  \* bound: rows of records

SystemWallet == 1

NoTransfer  == 0
TransferCategory == "Transfer"

\* Rows of records, with amounts that the schema admits.
RecordRow ==
    [date : 1 .. LastDate, kind : {"income", "expense", "mandatory"}, wallet : Wallets,
     base : Nat, now : Nat, category : {form.category : form \in Forms} \cup {TransferCategory},
     tags : SUBSET STRING, transfer : Nat]

ViewsAssumption ==
    /\ MonthLength \in Nat \ {0} /\ YearLength \in Nat \ {0} /\ MaxBooked \in Nat
    /\ MaxSlices \in Nat \ {0}
    /\ SystemWallet \in Wallets
    /\ LastDate \in Nat /\ \A w \in Wallets : Initials[w] \in Nat
    /\ Forms \subseteq RecordRow
    /\ Moves \subseteq [date : 1 .. LastDate, from : Wallets, to : Wallets, base : Nat, now : Nat]

VARIABLES
    active,    \* the wallets that were not deleted
    records    \* id -> [date, kind, wallet, base, now, category, tags, transfer]

Month(day)       == (day - 1) \div MonthLength + 1
Year(month)      == (month - 1) \div YearLength + 1
LastDayOf(month) == month * MonthLength

-----------------------------------------------------------------------------
(* Sums over records. *)

Signed(r) == IF r.kind = "income" THEN r.base ELSE -r.base

Total(rs)  == LET V(i) == Signed(rs[i])  IN MapThenSumSet(V, DOMAIN rs)
Amount(rs) == LET V(i) == rs[i].base     IN MapThenSumSet(V, DOMAIN rs)
Current(rs) ==
    LET V(i) == IF rs[i].kind = "income" THEN rs[i].now ELSE -rs[i].now
    IN  MapThenSumSet(V, DOMAIN rs)

Where(rs, Test(_)) == [i \in {j \in DOMAIN rs : Test(rs[j])} |-> rs[i]]

Own(rs)      == Where(rs, LAMBDA r : r.transfer = NoTransfer)
Income(rs)   == Where(rs, LAMBDA r : r.kind = "income")
Expenses(rs) == Where(rs, LAMBDA r : r.kind # "income")
Within(rs, from, to) == Where(rs, LAMBDA r : from <= r.date /\ r.date <= to)
InMonth(rs, m)       == Where(rs, LAMBDA r : Month(r.date) = m)
OfWallet(rs, w)      == Where(rs, LAMBDA r : r.wallet = w)

KeysOf(rs, Key(_)) == {Key(rs[i]) : i \in DOMAIN rs}
MonthsOf(rs)       == KeysOf(rs, LAMBDA r : Month(r.date))
CategoriesOf(rs)   == KeysOf(rs, LAMBDA r : r.category)
TagsOf(rs)         == UNION KeysOf(rs, LAMBDA r : r.tags)

Opening(ws) == LET V(w) == Initials[w] IN MapThenSumSet(V, ws)

-----------------------------------------------------------------------------
(* Services over SQL. *)

\* The balance of a wallet; a deleted one counts from 0.
WalletBalance(w, day) ==
    (IF w \in active THEN Initials[w] ELSE 0)
      + Total(Where(records, LAMBDA r : r.wallet = w /\ r.date <= day))

WalletBalances(day) ==
    [w \in active |->
       Initials[w] + Total(Where(records, LAMBDA r : r.wallet = w /\ r.date <= day))]

TotalBalance(day) ==
    LET V(w) == WalletBalances(day)[w] IN MapThenSumSet(V, active)

\* (Mutant of Cashflow: the legs of transfers are counted.)
CashflowOfAll(from, to) ==
    LET rs == Within(records, from, to)
    IN  [income |-> Amount(Income(rs)), expenses |-> Amount(Expenses(rs))]

Cashflow(from, to) ==
    LET rs == Own(Within(records, from, to))
    IN  [income |-> Amount(Income(rs)), expenses |-> Amount(Expenses(rs))]

\* The net worth at the end of each month that has records.
NetWorthTimeline ==
    [m \in MonthsOf(records) |->
       Opening(active) + Total(Where(records, LAMBDA r : Month(r.date) <= m))]

MonthlyCashflow(from, to) ==
    LET rs == Own(Within(records, from, to))
    IN  [m \in MonthsOf(rs) |->
           [income |-> Amount(Income(InMonth(rs, m))),
            expenses |-> Amount(Expenses(InMonth(rs, m)))]]

MonthlySummary(from, to) ==
    LET rs == Own(Within(records, from, to))
    IN  [m \in MonthsOf(rs) |-> [cashflow |-> Total(InMonth(rs, m))]]

Cumulative ==
    LET UpTo(m) == Where(Own(records), LAMBDA r : Month(r.date) <= m)
    IN  [m \in MonthsOf(Own(records)) |->
           [income |-> Amount(Income(UpTo(m))), expenses |-> Amount(Expenses(UpTo(m)))]]

ByCategory(rs) ==
    [c \in CategoriesOf(rs) |->
       LET group == Where(rs, LAMBDA r : r.category = c)
       IN  [total |-> Amount(group), count |-> Cardinality(DOMAIN group)]]

SpendingByCategory(from, to) == ByCategory(Expenses(Own(Within(records, from, to))))
IncomeByCategory(from, to)   == ByCategory(Income(Own(Within(records, from, to))))

SpendingByTag(from, to) ==
    LET rs == Expenses(Own(Within(records, from, to)))
    IN  [t \in TagsOf(rs) |->
           LET group == Where(rs, LAMBDA r : t \in r.tags)
           IN  [total |-> Amount(group), count |-> Cardinality(DOMAIN group)]]

\* The year of the analytics tab, up to the end of its period.
YearFlow(year, upTo) ==
    Cashflow(LastDayOf((year - 1) * YearLength) + 1, Min({LastDayOf(year * YearLength), upTo}))

\* Months that a period touches, over which averages are taken.
MonthsIn(from, to) == IF to < from THEN 0 ELSE Month(to) - Month(from) + 1

\* What the tab asks for when it is drawn.
AnalyticsTab(from, to) ==
    LET year == Year(Month(to))
    IN  [netWorth |-> TotalBalance(to), flow |-> Cashflow(from, to), year |-> YearFlow(year, to),
         months |-> MonthsIn(from, to),
         yearMonths |-> MonthsIn(LastDayOf((year - 1) * YearLength) + 1, to)]

\* Net worth as the status bar shows it, without debts and assets: wallets that are
\* active in today's fixed amounts; in current ones their openings and every record.
NetWorthFixed   == LET V(w) == Initials[w] + Total(OfWallet(records, w))
                   IN  MapThenSumSet(V, active)
NetWorthCurrent == Opening(active) + Current(records)

-----------------------------------------------------------------------------
(* Charts over the loaded records; transfers are told by their category. *)

Charted(rs) == Where(rs, LAMBDA r : r.category # TransferCategory)

PieOf(rs) ==
    LET spent == Charted(Expenses(rs))
    IN  [c \in CategoriesOf(spent) |-> Amount(Where(spent, LAMBDA r : r.category = c))]

\* The largest slices, and one of all the others.
Slices(pie) ==
    LET order  == SetToSortSeq(DOMAIN pie, LAMBDA c, d : pie[c] > pie[d])
        Size(c) == pie[c]
        others == {order[k] : k \in MaxSlices .. Len(order)}
    IN  IF Len(order) <= MaxSlices THEN [k \in DOMAIN order |-> pie[order[k]]]
        ELSE [k \in 1 .. MaxSlices |->
                IF k < MaxSlices THEN pie[order[k]] ELSE MapThenSumSet(Size, others)]

\* The months and years to choose from; a choice that is none of them becomes the latest.
MonthOptions(today) == MonthsOf(records) \cup {Month(today)}
YearOptions(today)  == {Year(m) : m \in MonthsOf(records)} \cup {Year(Month(today))}
Choice(chosen, options) == IF chosen \in options THEN chosen ELSE Max(options)

DailyBars(m) ==
    LET Day(d) == Where(Charted(records), LAMBDA r : r.date = d)
    IN  [d \in LastDayOf(m - 1) + 1 .. LastDayOf(m) |->
           [income |-> Amount(Income(Day(d))), expenses |-> Amount(Expenses(Day(d)))]]

MonthlyBars(year) ==
    [m \in (year - 1) * YearLength + 1 .. year * YearLength |->
       [income |-> Amount(Income(InMonth(Charted(records), m))),
        expenses |-> Amount(Expenses(InMonth(Charted(records), m)))]]

-----------------------------------------------------------------------------
(* Reports: the records of a wallet or of all, with what came before them. *)

AllWallets == 0
NoDay      == 0

Report(w) ==
    IF w = AllWallets
    THEN [recs |-> records, wallet |-> w, opening |-> Opening(Wallets), from |-> NoDay, to |-> NoDay]
    ELSE [recs |-> OfWallet(records, w), wallet |-> w, opening |-> Initials[w],
          from |-> NoDay, to |-> NoDay]

\* What counts: of all wallets together, not the legs of transfers.
Shown(rep) == IF rep.wallet = AllWallets THEN Own(rep.recs) ELSE rep.recs

NetProfit(rep)    == Total(Shown(rep))
Final(rep)        == rep.opening + Total(Shown(rep))
FinalCurrent(rep) == rep.opening + Current(Shown(rep))

ForPeriod(rep, from, to) ==
    [rep EXCEPT !.recs = Within(@, from, to), !.from = from, !.to = to,
                !.opening = @ + Total(Where(Shown(rep), LAMBDA r : r.date < from))]

\* Slices by category or tag start from nothing.
ForCategory(rep, c) ==
    [rep EXCEPT !.recs = Where(@, LAMBDA r : r.category = c), !.opening = 0]

ForAnyTag(rep, tags) ==
    [rep EXCEPT !.recs = Where(@, LAMBDA r : r.tags \cap tags # {}), !.opening = 0]

CategoryGroups(rep) ==
    [c \in CategoriesOf(Shown(rep)) |->
       LET group == Where(Shown(rep), LAMBDA r : r.category = c)
       IN  [total |-> Total(group), count |-> Cardinality(DOMAIN group)]]

TagGroups(rep) ==
    [t \in TagsOf(Shown(rep)) |-> Where(Shown(rep), LAMBDA r : t \in r.tags)]

\* The year a report's table of months is about, and its rows.
YearOf(rep, today) ==
    IF rep.to # NoDay THEN Year(Month(rep.to))
    ELSE IF DOMAIN rep.recs # {} THEN Max({Year(m) : m \in MonthsOf(rep.recs)})
    ELSE Year(Month(today))

MonthRows(rep, today) ==
    LET year   == YearOf(rep, today)
        first  == (year - 1) * YearLength + 1
        seen   == {m \in MonthsOf(rep.recs) : Year(m) = year}
        start  == IF rep.from # NoDay THEN Max({first, Month(rep.from)}) ELSE first
        end    == IF rep.to # NoDay THEN Month(rep.to)
                  ELSE IF seen # {} THEN Max(seen)
                  ELSE IF Year(Month(today)) = year THEN Month(today) ELSE year * YearLength
    IN  [m \in start .. Max({start, end}) |->
           [income |-> Amount(Income(InMonth(Shown(rep), m))),
            expenses |-> Amount(Expenses(InMonth(Shown(rep), m)))]]

\* A statement as it is exported: all records, newest first, and two sums.
Newer(rs, i, j) ==
    \/ rs[i].date > rs[j].date
    \/ rs[i].date = rs[j].date /\ i > j

Statement(rep) ==
    [rows |-> SetToSortSeq(DOMAIN rep.recs, LAMBDA i, j : Newer(rep.recs, i, j)),
     subtotal |-> Total(rep.recs), final |-> Final(rep)]

\* The sheets by category sum amounts whatever their sign, those by tag do not.
CategorySheet(rep) ==
    [c \in CategoriesOf(Shown(rep)) |-> Amount(Where(Shown(rep), LAMBDA r : r.category = c))]

TagSheet(rep) ==
    [t \in DOMAIN TagGroups(rep) |->
       IF Total(TagGroups(rep)[t]) < 0 THEN -Total(TagGroups(rep)[t]) ELSE Total(TagGroups(rep)[t])]
-----------------------------------------------------------------------------
(* Records come one by one; wallets here may go below zero. *)

Init ==
    /\ active = Wallets
    /\ records = <<>>

Rows == Cardinality(DOMAIN records)

Book(form) ==
    /\ Rows < MaxBooked
    /\ form.wallet \in active
    /\ records' = With(records, Rows + 1, form)
    /\ UNCHANGED active

\* A transfer: an expense and an income that point at it.
Transfer(move) ==
    /\ Rows + 2 <= MaxBooked
    /\ {move.from, move.to} \subseteq active
    /\ LET Leg(kind, w) == [date |-> move.date, kind |-> kind, wallet |-> w, base |-> move.base,
                            now |-> move.now, category |-> TransferCategory, tags |-> {},
                            transfer |-> 1 + Rows]
       IN  records' = With(With(records, Rows + 1, Leg("expense", move.from)),
                           Rows + 2, Leg("income", move.to))
    /\ UNCHANGED active

SoftDeleteWallet(w) ==
    /\ w \in active \ {SystemWallet}
    /\ Initials[w] + Total(OfWallet(records, w)) = 0
    /\ active' = active \ {w}
    /\ UNCHANGED records

Next ==
    \/ \E form \in Forms : Book(form)
    \/ \E move \in Moves : Transfer(move)
    \/ \E w \in Wallets : SoftDeleteWallet(w)

Spec == Init /\ [][Next]_<<active, records>>

-----------------------------------------------------------------------------
(* Properties. *)

TypeOK ==
    /\ active \subseteq Wallets /\ SystemWallet \in active
    /\ DOMAIN records = 1 .. Rows /\ \A i \in DOMAIN records : records[i] \in RecordRow

Days == 1 .. LastDate

Sum(f, Part(_)) == LET V(x) == Part(f[x]) IN MapThenSumSet(V, DOMAIN f)

Gain(flow) == flow.income - flow.expenses

\* A report of a wallet over any days begins with the balance the analytics give for the day
\* before and ends with that of its last day; the report of all wallets ends with their total.
ReportsCloseAtBalances ==
    \A from \in Days : \A to \in from .. LastDate :
       /\ \A w \in active :
             LET rep == ForPeriod(Report(w), from, to)
             IN  rep.opening = WalletBalance(w, from - 1) /\ Final(rep) = WalletBalance(w, to)
       /\ active = Wallets =>
             Final(ForPeriod(Report(AllWallets), from, to)) = TotalBalance(to)

\* All that is on a statement adds up, in either sum, by category and by month of its year,
\* and so do its sheets by category and by tag.
StatementsAddUp ==
    \A from \in Days : \A to \in from .. LastDate : \A w \in active \cup {AllWallets} :
       LET rep    == ForPeriod(Report(w), from, to)
           months == MonthRows(rep, LastDate)
           year   == YearOf(rep, LastDate)
       IN  /\ Final(rep) = rep.opening + Statement(rep).subtotal
           /\ Sum(CategoryGroups(rep), LAMBDA g : g.total) = NetProfit(rep)
           /\ Sum(months, Gain) = Total(Where(Shown(rep), LAMBDA r : Year(Month(r.date)) = year))
           /\ \A c \in DOMAIN CategoryGroups(rep) :
                 Statement(ForCategory(rep, c)).final = CategoryGroups(rep)[c].total
           /\ \A t \in DOMAIN TagSheet(rep) :
                 Statement(ForAnyTag(rep, {t})).final \in {TagSheet(rep)[t], -TagSheet(rep)[t]}
           /\ w = AllWallets =>
                 LET flow == Cashflow(from, to)
                 IN  Sum(CategorySheet(rep), LAMBDA sum : sum) = flow.income + flow.expenses

\* Analytics, timeline and charts give one cashflow for any days, whichever way it is cut:
\* by months, by categories, day by day.
CashflowsAgree ==
    \A from \in Days : \A to \in from .. LastDate :
       LET flow == Cashflow(from, to)
           tab  == AnalyticsTab(from, to)
           rows == MonthlySummary(from, to)
       IN  /\ Sum(rows, LAMBDA row : row.cashflow) = Gain(flow)
           /\ Cardinality(DOMAIN rows) <= tab.months
           /\ Gain(tab.year) = Sum(MonthlySummary(LastDayOf(Month(to) - tab.yearMonths) + 1, to),
                                  LAMBDA row : row.cashflow)
           /\ Sum(MonthlyCashflow(from, to), Gain) = Gain(flow)
           /\ Sum(SpendingByCategory(from, to), LAMBDA g : g.total) = flow.expenses
           /\ Sum(IncomeByCategory(from, to), LAMBDA g : g.total) = flow.income
           /\ \A t \in DOMAIN SpendingByTag(from, to) :
                 SpendingByTag(from, to)[t].total <= flow.expenses

\* The charts tell transfers by the word, all else by the link: a record of the user's own
\* that is called a transfer is in no chart.
ChartsAgree ==
    (\A i \in DOMAIN records :
        records[i].category = TransferCategory => records[i].transfer # NoTransfer) =>
    \A m \in 1 .. Month(LastDate) :
       LET flow == Cashflow(LastDayOf(m - 1) + 1, LastDayOf(m))
       IN  /\ MonthlyBars(Year(m))[m] = flow
           /\ Sum(DailyBars(m), Gain) = Gain(flow)
           /\ LET Slice(total) == total
              IN  /\ Sum(Slices(PieOf(InMonth(records, m))), Slice) = flow.expenses
                 /\ flow.expenses > 0 => /\ Choice(m, MonthOptions(LastDate)) = m
                                          /\ Choice(Year(m), YearOptions(LastDate)) = Year(m)

\* The net worth at the end of a month is the total balance of that day, but for wallets that
\* were deleted since: their records count, what they began with does not.  Running sums of
\* months are cashflows from the first day on.
TimelineEndsAtBalance ==
    /\ \A m \in DOMAIN NetWorthTimeline :
          NetWorthTimeline[m] = TotalBalance(LastDayOf(m))
             + Total(Where(records, LAMBDA r : r.wallet \notin active /\ Month(r.date) <= m))
    /\ \A m \in DOMAIN Cumulative : Cumulative[m] = Cashflow(1, LastDayOf(m))
    /\ NetWorthFixed = TotalBalance(LastDate)
    /\ NetWorthCurrent = FinalCurrent(Report(AllWallets)) - Opening(Wallets \ active)

\* Every view of the same records tells the same: reports and their exports, balances and
\* timeline, analytics and charts, each computed by code of its own.
ViewsAgree ==
    /\ ReportsCloseAtBalances
    /\ StatementsAddUp
    /\ CashflowsAgree
    /\ ChartsAgree
    /\ TimelineEndsAtBalance
=============================================================================
