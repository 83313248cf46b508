------------------------------- MODULE Reports ------------------------------
(***************************************************************************)
(* The tab of reports: a worker makes the report of the form's filters, a  *)
(* table shows it whole, grouped by category or one category of it, and    *)
(* another worker exports what the table shows.  Both run while the window *)
(* stays usable: records change, the form is refilled, the table regrouped *)
(* under them; only the two buttons wait.                                  *)
(***************************************************************************)
EXTENDS Views

CONSTANTS Filters   \* [wallet, from, to, category, tags]: what the form may be filled with

ReportsAssumption ==
    /\ ViewsAssumption
    /\ \A f \in Filters : f.wallet \in Wallets \cup {AllWallets}

VARIABLES
    form,      \* the filters as they stand in the form
    result,    \* the last report, of whatever records there were
    view,      \* [grouped, drill]: how the table shows it
    task,      \* what the worker does
    file,      \* what the running export wrote
    seen       \* history: what the table showed since the export was asked for

reportVars == <<form, result, view, task, file, seen>>

NoCategory == ""
NoReport   == [recs |-> <<>>, wallet |-> AllWallets, opening |-> 0, from |-> NoDay, to |-> NoDay]
Idle       == [doing |-> "nothing"]
NoFile     == [kind |-> "none"]

Busy == task # Idle

-----------------------------------------------------------------------------
(* A report by filters, and its table. *)

\* An end asks for a start, a start without an end runs to today, no day is to come.
Acceptable(f) ==
    /\ f.to # NoDay => f.from # NoDay
    /\ f.from # NoDay => f.from <= LastDate /\ f.to <= LastDate
    /\ f.to # NoDay => f.from <= f.to

InPeriod(rep, f) ==
    IF f.from = NoDay THEN rep
    ELSE ForPeriod(rep, f.from, IF f.to = NoDay THEN LastDate ELSE f.to)

OfCategory(rep, c) == IF c = NoCategory THEN rep ELSE ForCategory(rep, c)

Filtered(f) ==
    LET rep == OfCategory(InPeriod(Report(f.wallet), f), f.category)
    IN  IF f.tags = {} THEN rep ELSE ForAnyTag(rep, f.tags)

\* The table: all rows, those of a category, or a line for each category.
Table(rep, v) ==
    IF v.grouped /\ v.drill = NoCategory THEN [kind |-> "groups", content |-> CategoryGroups(rep)]
    ELSE LET part == IF v.grouped THEN OfCategory(rep, v.drill) ELSE rep
         IN  [kind |-> "rows", content |-> DOMAIN Shown(part)]

\* Wallets to choose are the active ones; the form falls back to all of them.
Refreshed(f) ==
    IF f.wallet \in active THEN f ELSE [f EXCEPT !.wallet = AllWallets]

-----------------------------------------------------------------------------
(* The form and the table. *)

ReportsInit ==
    /\ Init
    /\ form = [wallet |-> AllWallets, from |-> NoDay, to |-> NoDay,
               category |-> NoCategory, tags |-> {}]
    /\ result = NoReport
    /\ view = [grouped |-> TRUE, drill |-> NoCategory]
    /\ task = Idle /\ file = NoFile /\ seen = {}

FillForm(f) ==
    /\ f.wallet = AllWallets \/ f.wallet \in active
    /\ form' = f
    /\ UNCHANGED <<result, view, task, file, seen>>

Shows(v) ==
    /\ view' = v
    /\ seen' = IF task.doing = "export" THEN seen \cup {v} ELSE seen
    /\ UNCHANGED <<form, result, task, file>>

\* (Mutant of ToggleGroup: the category stays chosen.)
ToggleGroupKept == Shows([view EXCEPT !.grouped = ~ @])

\* The box of grouping: without it, no category is chosen.
ToggleGroup ==
    IF view.grouped THEN Shows([grouped |-> FALSE, drill |-> NoCategory])
    ELSE Shows([view EXCEPT !.grouped = TRUE])

\* A double click on the line of a category; records without one cannot be looked into.
DrillInto(c) ==
    /\ view.grouped /\ view.drill = NoCategory
    /\ c \in CategoriesOf(Shown(result)) \ {NoCategory}
    /\ Shows([view EXCEPT !.drill = c])

GroupBack ==
    /\ view.drill # NoCategory
    /\ Shows([view EXCEPT !.drill = NoCategory])

-----------------------------------------------------------------------------
(* The workers. *)

Generate ==
    /\ ~ Busy
    /\ form' = Refreshed(form)
    /\ task' = [doing |-> "generate", filters |-> form', report |-> {}]
    /\ UNCHANGED <<result, view, file, seen>>

\* The worker reads wallets and records, or refuses the filters.
GenerateReads ==
    /\ task.doing = "generate" /\ task.report = {} /\ Acceptable(task.filters)
    /\ task' = [task EXCEPT !.report = {Filtered(task.filters)}]
    /\ UNCHANGED <<form, result, view, file, seen>>

\* The window takes the report over and goes back to its groups.
GenerateDone ==
    /\ task.doing = "generate" /\ task.report # {}
    /\ result' \in task.report
    /\ view' = [view EXCEPT !.drill = NoCategory]
    /\ task' = Idle
    /\ UNCHANGED <<form, file, seen>>

\* A refusal leaves the last report.
GenerateFails ==
    /\ task.doing = "generate" /\ ~ Acceptable(task.filters)
    /\ task' = Idle
    /\ UNCHANGED <<form, result, view, file, seen>>

\* The category is that of the click.
Export ==
    /\ ~ Busy /\ result # NoReport
    /\ task' = [doing |-> "export", drill |-> view.drill, only |-> view.grouped, wrote |-> FALSE]
    /\ seen' = {view}
    /\ UNCHANGED <<form, result, view, file>>

\* (Mutant of Exported: the category is forgotten.)
ExportedWhole(grouped) ==
    IF grouped /\ task.drill = NoCategory
    THEN [kind |-> "groups", content |-> CategoryGroups(result)]
    ELSE [kind |-> "rows", content |-> Statement(result).rows]

\* What is exported: whether in groups, as the box says now; a statement has all rows.
Exported(grouped) ==
    IF grouped /\ task.drill = NoCategory
    THEN [kind |-> "groups", content |-> CategoryGroups(result)]
    ELSE LET part == IF task.only THEN OfCategory(result, task.drill) ELSE result
         IN  [kind |-> "rows", content |-> Statement(part).rows]

ExportWrites ==
    /\ task.doing = "export" /\ ~ task.wrote
    /\ file' = Exported(view.grouped)
    /\ task' = [task EXCEPT !.wrote = TRUE]
    /\ UNCHANGED <<form, result, view, seen>>

\* The file cannot be written, or the window is told that it was.
ExportDone ==
    /\ task.doing = "export"
    /\ task' = Idle /\ seen' = {} /\ file' = NoFile
    /\ UNCHANGED <<form, result, view>>

ReportsTab ==
    \/ \E f \in Filters : FillForm(f)
    \/ ToggleGroup
    \/ \E c \in CategoriesOf(Shown(result)) : DrillInto(c)
    \/ GroupBack
    \/ Generate \/ GenerateReads \/ GenerateDone \/ GenerateFails
    \/ Export \/ ExportWrites \/ ExportDone

ReportsNext ==
    \/ Next /\ UNCHANGED reportVars
    \/ ReportsTab /\ UNCHANGED <<active, records>>

ReportsSpec == ReportsInit /\ [][ReportsNext]_<<active, records, reportVars>>

-----------------------------------------------------------------------------
(* Properties. *)

ReportsTypeOK ==
    /\ TypeOK
    /\ task.doing \in {"nothing", "generate", "export"}
    /\ view.drill # NoCategory => view.grouped
    /\ result.wallet \in Wallets \cup {AllWallets} /\ DOMAIN result.recs \subseteq DOMAIN records

\* A file holds what the table showed at some moment between the click and the writing: its
\* groups, or its rows with the legs of transfers between them.
ExportShowsTheTable ==
    [][file' \notin {file, NoFile} =>
         \E v \in seen :
            LET table == Table(result, v)
            IN  /\ file'.kind = table.kind
                /\ IF table.kind = "groups" THEN file'.content = table.content
                   ELSE LET rows == Range(file'.content)
                        IN  /\ table.content \subseteq rows
                            /\ \A i \in rows \ table.content :
                                  result.recs[i].transfer # NoTransfer
      ]_<<active, records, reportVars>>

\* The category looked into is one of the report shown: a new report, of other filters or of
\* records that changed, is shown by its groups.
TableHasItsCategory ==
    view.drill # NoCategory => view.drill \in CategoriesOf(Shown(result))
=============================================================================
