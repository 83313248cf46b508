-------------------------------- MODULE Rates --------------------------------
(***************************************************************************)
(* Currency rates: the switch between online and offline, the refresh by a *)
(* timer, the change of providers in the settings, and the file that keeps *)
(* the last rates of a provider (src/app/services.py, src/app/currency/,   *)
(* src/gui/status_bar_coordinator.py).                                     *)
(*                                                                         *)
(* The switch and the timer hand a task to a thread each; the settings are *)
(* saved by the window itself.  One lock keeps fetches apart, but the      *)
(* settings put a new aggregator in place without it, and a fetch asks the *)
(* aggregator twice: for rates, and for who gave them.  Rates are told     *)
(* apart by where they come from.                                          *)
(***************************************************************************)
EXTENDS Integers

CONSTANT MaxSettings   \* bound: how often providers are changed

RatesAssumption == MaxSettings \in Nat

VARIABLES
    rates,      \* where the rates in use come from
    cache,      \* where those in currency_rates.json come from
    online,     \* _use_online
    aggregator, \* [id, last]: the aggregator, and who gave its last rates
    lock,       \* the task that holds _online_lock
    switch,     \* [shown, running]: the switch of the status bar, and its flag
    preference, \* [online, lost]: online_mode in schema_meta; did a write fail?
    tasks       \* task -> [at, want, mine, got]

vars == <<rates, cache, online, aggregator, lock, switch, preference, tasks>>

Kinds == {"none", "static", "provider"}

\* The window itself is the third: it fetches when settings are saved.
Tasks == {"toggle", "auto", "settings"}

Free == "free"

NoTask == [at |-> "off", want |-> FALSE, mine |-> 0, got |-> "none"]

Init ==
    /\ rates = "static" /\ cache = "none"
    /\ online = FALSE
    /\ aggregator = [id |-> 0, last |-> "none"]
    /\ lock = Free
    /\ switch = [shown |-> FALSE, running |-> FALSE]
    /\ preference = [online |-> FALSE, lost |-> FALSE]
    /\ tasks = [t \in Tasks |-> NoTask]

At(t, step) == tasks[t].at = step

Goes(t, step) == tasks' = [tasks EXCEPT ![t].at = step]

\* The window handles nothing else while it fetches or waits for the lock.
WindowFree == At("settings", "off")

-----------------------------------------------------------------------------
(* Fetching, with the lock. *)

Acquire(t) ==
    /\ At(t, "wait") /\ lock = Free
    /\ lock' = t
    /\ Goes(t, "locked")
    /\ UNCHANGED <<rates, cache, online, aggregator, switch, preference>>

\* set_online_mode and refresh_online_rates, up to the fetch.
Enter(t) ==
    /\ At(t, "locked")
    /\ \/ /\ t = "toggle" /\ tasks[t].want /\ ~online
          /\ online' = TRUE
          /\ Goes(t, "fetch")
          /\ UNCHANGED rates
       \/ /\ t = "toggle" /\ ~tasks[t].want /\ online
          /\ online' = FALSE
          /\ rates' = IF cache = "none" THEN "static" ELSE cache
          /\ Goes(t, "release")
       \/ /\ t # "toggle" /\ online
          /\ Goes(t, "fetch")
          /\ UNCHANGED <<rates, online>>
       \/ /\ IF t = "toggle" THEN tasks[t].want <=> online ELSE ~online
          /\ Goes(t, "release")
          /\ UNCHANGED <<rates, online>>
    /\ UNCHANGED <<cache, aggregator, lock, switch, preference>>

\* fetch_provider_rates: the aggregator that is there now is asked.
Ask(t) ==
    /\ At(t, "fetch")
    /\ tasks' = [tasks EXCEPT ![t].at = "asked", ![t].mine = aggregator.id]
    /\ aggregator' = [aggregator EXCEPT !.last = "none"]
    /\ UNCHANGED <<rates, cache, online, lock, switch, preference>>

\* Rates of a provider, static ones, or none: then those of the file are taken.
Answer(t, kind) ==
    /\ At(t, "asked")
    /\ LET got == IF kind = "none" THEN cache ELSE kind
       IN  tasks' = [tasks EXCEPT ![t].at = IF got = "none" THEN "release" ELSE "apply",
                                  ![t].got = got]
    /\ aggregator' = IF aggregator.id = tasks[t].mine
                     THEN [aggregator EXCEPT !.last = kind] ELSE aggregator
    /\ UNCHANGED <<rates, cache, online, lock, switch, preference>>

\* (Mutant of Apply: what was fetched is saved, whoever gave it.)
ApplyAny(t, saved) ==
    /\ At(t, "apply")
    /\ cache' = IF saved THEN tasks[t].got ELSE cache
    /\ rates' = tasks[t].got
    /\ Goes(t, "release")
    /\ UNCHANGED <<online, aggregator, lock, switch, preference>>

\* apply_fetched_rates: static rates give way to those of the file; other rates go
\* into it, if it can be written.
Apply(t, saved) ==
    /\ At(t, "apply")
    /\ IF aggregator.last = "static"
       THEN /\ rates' = IF cache = "none" THEN tasks[t].got ELSE cache
            /\ UNCHANGED cache
       ELSE /\ cache' = IF saved THEN tasks[t].got ELSE cache
            /\ rates' = tasks[t].got
    /\ Goes(t, "release")
    /\ UNCHANGED <<online, aggregator, lock, switch, preference>>

Release(t) ==
    /\ At(t, "release")
    /\ lock' = Free
    /\ tasks' = IF t = "settings" THEN [tasks EXCEPT ![t] = NoTask]
                ELSE [tasks EXCEPT ![t].at = IF t = "toggle" THEN "remember" ELSE "done"]
    /\ UNCHANGED <<rates, cache, online, aggregator, switch, preference>>

\* The preference is saved after the lock was given back; it may raise.
Remember(saved) ==
    /\ At("toggle", "remember")
    /\ preference' = IF saved THEN [preference EXCEPT !.online = tasks["toggle"].want]
                     ELSE [preference EXCEPT !.lost = TRUE]
    /\ Goes("toggle", "done")
    /\ UNCHANGED <<rates, cache, online, aggregator, lock, switch>>

-----------------------------------------------------------------------------
(* The window. *)

Begin(t, want) == tasks' = [tasks EXCEPT ![t] = [NoTask EXCEPT !.at = "wait", !.want = want]]

\* on_online_toggle: the box has changed already; a second click starts nothing.
Toggle ==
    /\ WindowFree
    /\ switch' = [shown |-> ~switch.shown, running |-> TRUE]
    /\ IF switch.running THEN UNCHANGED tasks ELSE Begin("toggle", ~switch.shown)
    /\ UNCHANGED <<rates, cache, online, aggregator, lock, preference>>

\* (Mutant of ToggleDone: the box stays as it was clicked.)
ToggleDoneAsClicked ==
    /\ WindowFree /\ At("toggle", "done")
    /\ tasks' = [tasks EXCEPT !["toggle"] = NoTask]
    /\ switch' = [switch EXCEPT !.running = FALSE]
    /\ UNCHANGED <<rates, cache, online, aggregator, lock, preference>>

\* refresh_status_bar sets the box to what the service says.
ToggleDone ==
    /\ WindowFree /\ At("toggle", "done")
    /\ tasks' = [tasks EXCEPT !["toggle"] = NoTask]
    /\ switch' = [shown |-> online, running |-> FALSE]
    /\ UNCHANGED <<rates, cache, online, aggregator, lock, preference>>

\* The timer: the status bar, and a refresh if one is due.
Timer(due) ==
    /\ WindowFree
    /\ switch' = [switch EXCEPT !.shown = online]
    /\ IF due /\ online /\ ~switch.running /\ At("auto", "off") THEN Begin("auto", TRUE)
       ELSE UNCHANGED tasks
    /\ UNCHANGED <<rates, cache, online, aggregator, lock, preference>>

AutoDone ==
    /\ WindowFree /\ At("auto", "done")
    /\ tasks' = [tasks EXCEPT !["auto"] = NoTask]
    /\ switch' = [switch EXCEPT !.shown = online]
    /\ UNCHANGED <<rates, cache, online, aggregator, lock, preference>>

\* update_runtime_currency_config: a new aggregator; other providers are asked at once.
SaveSettings(changed) ==
    /\ WindowFree
    /\ aggregator.id < MaxSettings
    /\ aggregator' = [id |-> aggregator.id + 1, last |-> "none"]
    /\ IF online /\ changed THEN Begin("settings", TRUE) ELSE UNCHANGED tasks
    /\ UNCHANGED <<rates, cache, online, lock, switch, preference>>

\* The process ends and starts again: apply_saved_online_mode.
Restart ==
    /\ rates' = "static"
    /\ online' = FALSE
    /\ aggregator' = [aggregator EXCEPT !.last = "none"]
    /\ lock' = Free
    /\ switch' = [shown |-> preference.online, running |-> preference.online]
    /\ tasks' = [t \in Tasks |->
          IF t = "toggle" /\ preference.online
          THEN [NoTask EXCEPT !.at = "wait", !.want = TRUE] ELSE NoTask]
    /\ preference' = [preference EXCEPT !.lost = FALSE]
    /\ UNCHANGED cache

TaskStep(t) ==
    \/ Enter(t) \/ Ask(t)
    \/ \E kind \in Kinds : Answer(t, kind)
    \/ \E saved \in BOOLEAN : Apply(t, saved)
    \/ Release(t)

Next ==
    \/ \E t \in Tasks : Acquire(t) \/ TaskStep(t)
    \/ \E saved \in BOOLEAN : Remember(saved)
    \/ Toggle \/ ToggleDone \/ AutoDone
    \/ \E b \in BOOLEAN : Timer(b) \/ SaveSettings(b)
    \/ Restart

Spec == Init /\ [][Next]_vars

-----------------------------------------------------------------------------
(* Properties. *)

TypeOK ==
    /\ rates \in Kinds /\ cache \in Kinds /\ rates # "none"
    /\ online \in BOOLEAN
    /\ aggregator.id \in 0 .. MaxSettings /\ aggregator.last \in Kinds
    /\ lock \in Tasks \cup {Free}
    /\ \A t \in Tasks : lock = t <=>
          tasks[t].at \in {"locked", "fetch", "asked", "apply", "release"}
    /\ switch.running = ~At("toggle", "off")

\* The file keeps rates of a provider: static ones never take their place
\* (docs/architecture.md:533).  The code violates it.
CacheHoldsProviderRates == cache # "static"

\* It holds as long as the aggregator is not replaced under a fetch.
CacheHoldsUnlessReplaced ==
    [][cache' = "static" /\ cache # "static" =>
          \E t \in Tasks : At(t, "apply") /\ tasks[t].mine # aggregator.id]_vars

\* While no switch is under way, the box shows the mode the service is in and the
\* database remembers it, whatever was clicked, refreshed or saved meanwhile.
SwitchTellsTheMode ==
    ~switch.running =>
        /\ switch.shown = online
        /\ preference.lost \/ preference.online = online
=============================================================================
