----------------------------- MODULE Mandatory -----------------------------
(***************************************************************************)
(* Mandatory payments: the templates of the Mandatory tab, the records     *)
(* made from them by hand, and the automatic payments a worker thread      *)
(* books when the application starts                                       *)
(* (src/app/use_cases_pkg/mandatory.py).                                   *)
(*                                                                         *)
(* The templates are a sequence: ids are 1..N, in order, because every     *)
(* deletion renumbers them.  The records are a bag of bookings.  Category  *)
(* and description, which are only ever compared, are one name.  The       *)
(* worker reads the records once, then saves one booking per commit; the   *)
(* process may end between two of them, and the user may act between them  *)
(* unless the window is disabled, which Tk can do on Windows only.         *)
(***************************************************************************)
EXTENDS Integers, Sequences, FiniteSetsExt, Bags

CONSTANTS
    Wallets,        \* the ids of the wallets; they exist from the start
    Names,          \* the pairs of a category and a description
    MonthLengths,   \* the lengths of the months the calendar has
    MonthsPerYear,
    WeekLength,
    Dates,          \* the dates the user enters, in templates and bookings
    WindowDisabled, \* is the user kept out while the worker runs?
    MaxTemplates,   \* bound: templates at a time
    MaxRecords      \* bound: records at a time

\* SYSTEM_WALLET_ID, which is never deactivated.
SystemWallet == 1

VARIABLES
    day,        \* today, counted from 1
    active,     \* the wallets with is_active = 1
    templates,  \* table mandatory_expenses, in the order of its ids
    records,    \* table records: the bookings, as a bag
    open,       \* is the application running?
    job         \* the worker: the date it read, what it has to do and has seen

mandatoryVars == <<day, active, templates, records, open, job>>

-----------------------------------------------------------------------------
(* The calendar. *)

Months == DOMAIN MonthLengths

\* The day on which each month begins.
MonthStart ==
    LET Length(k) == MonthLengths[k]
    IN  [m \in Months |-> 1 + MapThenSumSet(Length, 1 .. m - 1)]

Days == 1 .. (MonthStart[Len(MonthLengths)] + MonthLengths[Len(MonthLengths)] - 1)

\* The calendar has whole years, and the days that are entered.
MandatoryAssumption ==
    /\ SystemWallet \in Wallets
    /\ MonthLengths \in Seq(Nat \ {0}) /\ MonthLengths # <<>>
    /\ MonthsPerYear \in Nat \ {0} /\ WeekLength \in Nat \ {0}
    /\ Len(MonthLengths) % MonthsPerYear = 0
    /\ WindowDisabled \in BOOLEAN
    /\ Dates \subseteq Days
    /\ MaxTemplates \in Nat /\ MaxRecords \in Nat

MonthOf(d) ==
    CHOOSE m \in Months : MonthStart[m] <= d /\ d < MonthStart[m] + MonthLengths[m]

DayOfMonth(d) == d - MonthStart[MonthOf(d)] + 1

YearOf(m) == (m - 1) \div MonthsPerYear

MonthOfYear(m) == (m - 1) % MonthsPerYear

\* The day of month m that has the number of the anchor's day, or its last day.
Clamped(anchor, m) ==
    MonthStart[m] + Min({DayOfMonth(anchor), MonthLengths[m]}) - 1

-----------------------------------------------------------------------------
(* Templates and bookings. *)

Periods == {"daily", "weekly", "monthly", "yearly"}

NoDate == 0

Template == [wallet : Wallets, name : Names, period : Periods, date : Days \cup {NoDate}]

Booking == [wallet : Wallets, name : Names, period : Periods, date : Days]

\* auto_pay is set exactly when the template has a date.
AutoPay(t) == t.date # NoDate

BookingOf(t, w, d) == [wallet |-> w, name |-> t.name, period |-> t.period, date |-> d]

Save(b) == records (+) SetToBag({b})

\* The date an automatic payment of the template is booked on, if it is due.
TargetDate(t, today) ==
    LET anchored ==
            CHOOSE m \in Months :
                /\ YearOf(m) = YearOf(MonthOf(today))
                /\ MonthOfYear(m) = MonthOfYear(MonthOf(t.date))
        target ==
            CASE t.period = "daily"   -> today
              [] t.period = "weekly"  -> today - ((today - t.date) % WeekLength)
              [] t.period = "monthly" -> Clamped(t.date, MonthOf(today))
              [] t.period = "yearly"  -> Clamped(t.date, anchored)
    IN  IF AutoPay(t) /\ t.date <= today /\ t.date <= target /\ target <= today
        THEN target ELSE NoDate

NoJob == [running |-> FALSE, today |-> 1, todo |-> <<>>, seen |-> {}]

MandatoryInit ==
    /\ day = 1
    /\ active = Wallets
    /\ templates = <<>>
    /\ records = EmptyBag
    /\ open = TRUE
    /\ job = NoJob

-----------------------------------------------------------------------------
(* The user. *)

Reachable == open /\ (WindowDisabled => ~job.running)

CreateMandatoryExpense(w, n, p, d) ==
    /\ Reachable
    /\ Len(templates) < MaxTemplates
    /\ w = SystemWallet \/ w \in active
    /\ templates' = Append(templates, [wallet |-> w, name |-> n, period |-> p, date |-> d])
    /\ UNCHANGED <<day, active, records, open, job>>

\* The edit form saves one changed field after the other, each in a commit.
UpdateTemplate(i, changed) ==
    /\ Reachable
    /\ i \in DOMAIN templates
    /\ templates' = [templates EXCEPT ![i] = changed]
    /\ UNCHANGED <<day, active, records, open, job>>

UpdateDate(i, d) == UpdateTemplate(i, [templates[i] EXCEPT !.date = d])

UpdatePeriod(i, p) == UpdateTemplate(i, [templates[i] EXCEPT !.period = p])

UpdateWallet(i, w) ==
    /\ w \in active
    /\ UpdateTemplate(i, [templates[i] EXCEPT !.wallet = w])

DeleteTemplate(i) ==
    /\ Reachable
    /\ i \in DOMAIN templates
    /\ templates' = SubSeq(templates, 1, i - 1) \o SubSeq(templates, i + 1, Len(templates))
    /\ UNCHANGED <<day, active, records, open, job>>

DeleteAllTemplates ==
    /\ Reachable
    /\ templates # <<>>
    /\ templates' = <<>>
    /\ UNCHANGED <<day, active, records, open, job>>

\* A template booked by hand, at a date that is not in the future.
AddToReport(i, w, d) ==
    /\ Reachable
    /\ i \in DOMAIN templates
    /\ w \in active /\ d <= day
    /\ BagCardinality(records) < MaxRecords
    /\ records' = Save(BookingOf(templates[i], w, d))
    /\ UNCHANGED <<day, active, templates, open, job>>

DeleteBooking(b) ==
    /\ Reachable
    /\ BagIn(b, records)
    /\ records' = records (-) SetToBag({b})
    /\ UNCHANGED <<day, active, templates, open, job>>

\* A booking typed in the form of operations.
CreateBooking(w, n, p) ==
    /\ Reachable
    /\ w \in active
    /\ BagCardinality(records) < MaxRecords
    /\ records' = Save([wallet |-> w, name |-> n, period |-> p, date |-> day])
    /\ UNCHANGED <<day, active, templates, open, job>>

\* (Mutant of SoftDeleteWallet: the system wallet may go too.)
SoftDeleteAnyWallet(w) ==
    /\ Reachable
    /\ w \in active
    /\ \A b \in BagToSet(records) : b.wallet # w
    /\ active' = active \ {w}
    /\ UNCHANGED <<day, templates, records, open, job>>

\* Every wallet starts empty, so that its balance is zero when it has no booking.
SoftDeleteWallet(w) ==
    /\ Reachable
    /\ w \in active \ {SystemWallet}
    /\ \A b \in BagToSet(records) : b.wallet # w
    /\ active' = active \ {w}
    /\ UNCHANGED <<day, templates, records, open, job>>

-----------------------------------------------------------------------------
(* The application starts, and its worker books what is due. *)

StartApplication ==
    /\ ~open
    /\ open' = TRUE
    /\ job' = [running |-> TRUE, today |-> day,
               todo |-> templates, seen |-> BagToSet(records)]
    /\ UNCHANGED <<day, active, templates, records>>

\* (Mutant of ApplyNext: what is in the database already is not looked at.)
ApplyNextUnseen ==
    LET t == Head(job.todo)
        target == TargetDate(t, job.today)
    IN  /\ open /\ job.running /\ job.todo # <<>>
        /\ job' = [job EXCEPT !.todo = Tail(@)]
        /\ IF target = NoDate
           THEN UNCHANGED records
           ELSE /\ BagCardinality(records) < MaxRecords
                /\ records' = Save(BookingOf(t, t.wallet, target))
        /\ UNCHANGED <<day, active, templates, open>>

\* The next template; its booking, if it is due and was not seen.
ApplyNext ==
    LET t == Head(job.todo)
        target == TargetDate(t, job.today)
        booking == BookingOf(t, t.wallet, target)
        rest == [job EXCEPT !.todo = Tail(@)]
    IN  /\ open /\ job.running /\ job.todo # <<>>
        /\ IF target = NoDate \/ booking \in job.seen
           THEN /\ job' = rest
                /\ UNCHANGED records
           ELSE /\ BagCardinality(records) < MaxRecords
                /\ records' = Save(booking)
                /\ job' = [rest EXCEPT !.seen = @ \cup {booking}]
        /\ UNCHANGED <<day, active, templates, open>>

ApplyDone ==
    /\ open /\ job.running /\ job.todo = <<>>
    /\ job' = NoJob
    /\ UNCHANGED <<day, active, templates, records, open>>

\* The process ends: the window is closed, or the machine stops.
StopApplication ==
    /\ open
    /\ open' = FALSE
    /\ job' = NoJob
    /\ UNCHANGED <<day, active, templates, records>>

NextDay ==
    /\ day + 1 \in Days
    /\ day' = day + 1
    /\ UNCHANGED <<active, templates, records, open, job>>

-----------------------------------------------------------------------------
MandatoryNext ==
    \/ \E w \in Wallets, n \in Names, p \in Periods, d \in Dates \cup {NoDate} :
          CreateMandatoryExpense(w, n, p, d)
    \/ \E i \in DOMAIN templates :
          \/ \E d \in Dates \cup {NoDate} : UpdateDate(i, d)
          \/ \E p \in Periods : UpdatePeriod(i, p)
          \/ \E w \in Wallets : UpdateWallet(i, w)
          \/ DeleteTemplate(i)
          \/ \E w \in Wallets, d \in Dates : AddToReport(i, w, d)
    \/ DeleteAllTemplates
    \/ \E w \in Wallets, n \in Names, p \in Periods : CreateBooking(w, n, p)
    \/ \E b \in BagToSet(records) : DeleteBooking(b)
    \/ \E w \in Wallets : SoftDeleteWallet(w)
    \/ StartApplication \/ ApplyNext \/ ApplyDone \/ StopApplication \/ NextDay

MandatorySpec == MandatoryInit /\ [][MandatoryNext]_mandatoryVars

-----------------------------------------------------------------------------
(* Properties. *)

\* The days on which a template falls, said without the arithmetic of the code:
\* from its date on, each day, each same day of the week, or the same day of the
\* month or year, a month that is too short counting with its last day.
Falls(t, d) ==
    /\ AutoPay(t) /\ t.date <= d
    /\ CASE t.period = "daily"   -> TRUE
         [] t.period = "weekly"  -> \E k \in 0 .. Cardinality(Days) : d = t.date + k * WeekLength
         [] t.period = "monthly" ->
                \/ DayOfMonth(d) = DayOfMonth(t.date)
                \/ /\ DayOfMonth(d) < DayOfMonth(t.date)
                   /\ d + 1 \in Days => MonthOf(d + 1) # MonthOf(d)
         [] t.period = "yearly"  ->
                /\ MonthOfYear(MonthOf(d)) = MonthOfYear(MonthOf(t.date))
                /\ \/ DayOfMonth(d) = DayOfMonth(t.date)
                   \/ /\ DayOfMonth(d) < DayOfMonth(t.date)
                      /\ d + 1 \in Days => MonthOf(d + 1) # MonthOf(d)

\* The days that belong to the current day, week, month or year of a template.
CurrentPeriod(t, today) ==
    {d \in Days : d <= today /\
        CASE t.period = "daily"   -> d = today
          [] t.period = "weekly"  -> today - d < WeekLength
          [] t.period = "monthly" -> MonthOf(d) = MonthOf(today)
          [] t.period = "yearly"  -> YearOf(MonthOf(d)) = YearOf(MonthOf(today))}

DueDays(t, today) == {d \in CurrentPeriod(t, today) : Falls(t, d)}

\* Types of the variables; auto_pay and the system wallet never go wrong.
MandatoryTypeOK ==
    /\ day \in Days
    /\ active \subseteq Wallets /\ SystemWallet \in active
    /\ templates \in Seq(Template) /\ Len(templates) <= MaxTemplates
    /\ IsABag(records) /\ BagToSet(records) \subseteq Booking
    /\ open \in BOOLEAN
    /\ job.running \in BOOLEAN /\ job.today \in Days
    /\ job.todo \in Seq(Template) /\ job.seen \subseteq Booking

\* The worker books each payment once: not what a previous start booked before
\* the process was ended half way, nor what the user booked by hand that day, nor
\* the same booking for two templates that read alike.
NeverBooksTwice ==
    [][job.running /\ records' # records => \A b \in BagToSet(records' (-) records) : ~BagIn(b, records)]_mandatoryVars

\* It books nothing but what falls in the current period of a template of the
\* database, on a day that has come.
BooksOnlyWhatIsDue ==
    [][job.running /\ records' # records =>
        \A b \in BagToSet(records' (-) records) : \E i \in DOMAIN templates :
            /\ b = BookingOf(templates[i], templates[i].wallet, b.date)
            /\ b.date \in DueDays(templates[i], job.today)]_mandatoryVars

\* When the worker is done, everything that falls in the current period of a
\* template and whose day has come is booked, whatever happened at earlier starts.
AllDueIsBooked ==
    [][ApplyDone => \A i \in DOMAIN templates :
            \A d \in DueDays(templates[i], job.today) :
                BagIn(BookingOf(templates[i], templates[i].wallet, d), records)]_mandatoryVars

\* Automatic payments are booked once, none that is not due, and all that are when the
\* worker is done.
BooksWhatIsDueOnce == NeverBooksTwice /\ BooksOnlyWhatIsDue /\ AllDueIsBooked
=============================================================================
