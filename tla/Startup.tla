------------------------------ MODULE Startup ------------------------------
(***************************************************************************)
(* The threads of the application: the window, which handles one event     *)
(* after the other, and the worker of the deferred start, which books      *)
(* automatic payments, opens a second repository for the maintenance and   *)
(* loads the records for the first list (src/gui/startup_coordinator.py,   *)
(* src/gui/runtime_coordinator.py, src/storage/sqlite_storage.py).         *)
(*                                                                         *)
(* The lock of a connection covers a statement or a transaction, not what  *)
(* is read and then written back.  While the worker runs the window is     *)
(* busy; only Tk on Windows also keeps the user out of it.  A row is named *)
(* by the number it was made with; the list shows rows by position.        *)
(***************************************************************************)
EXTENDS Integers, SequencesExt

CONSTANTS
    MaxRows,   \* bound: the rows made altogether
    MaxDue     \* bound: the automatic payments that are due at a start

StartupAssumption == MaxRows \in Nat /\ MaxDue \in Nat

VARIABLES
    platform,  \* does Tk disable the window while it is busy?
    running,   \* is the application running?
    rows,      \* table records
    made,      \* how many rows were made
    gap,       \* have the ids of the records a gap?
    uncommitted, \* has the first connection left a transaction open?
    shown,     \* the list of the Operations tab
    busy,      \* _busy
    gui,       \* the handler the window is in, and what it has read
    worker,    \* the worker: where it is, what is due, what it has read
    stage      \* the staged refresh after the worker, and the records it got

vars == <<platform, running, rows, made, gap, uncommitted, shown, busy, gui, worker, stage>>

db == <<rows, made, gap, uncommitted>>

Platforms == {"windows", "other"}

Rows == 1 .. MaxRows

GuiIdle == [at |-> "idle", got |-> <<>>]

WorkerIdle == [at |-> "off", due |-> 0, got |-> <<>>]

NoStage == [at |-> "none", got |-> <<>>]

Init ==
    /\ platform \in Platforms
    /\ running = FALSE
    /\ rows = <<>> /\ made = 0
    /\ gap = FALSE /\ uncommitted = FALSE
    /\ shown = <<>> /\ busy = FALSE
    /\ gui = GuiIdle /\ worker = WorkerIdle /\ stage = NoStage

-----------------------------------------------------------------------------
(* The process. *)

\* bootstrap_repository closes the gaps; then the window comes up, busy, and the
\* worker starts.
Start ==
    /\ ~running
    /\ running' = TRUE /\ busy' = TRUE
    /\ gap' = FALSE /\ uncommitted' = FALSE
    /\ \E n \in 0 .. MaxDue : worker' = [WorkerIdle EXCEPT !.at = "pay", !.due = n]
    /\ shown' = <<>> /\ gui' = GuiIdle /\ stage' = NoStage
    /\ UNCHANGED <<platform, rows, made>>

\* The process ends at any moment; what is committed stays.
Stop ==
    /\ running
    /\ running' = FALSE /\ busy' = FALSE
    /\ uncommitted' = FALSE
    /\ shown' = <<>>
    /\ gui' = GuiIdle /\ worker' = WorkerIdle /\ stage' = NoStage
    /\ UNCHANGED <<platform, rows, made, gap>>

-----------------------------------------------------------------------------
(* The worker. *)

WorkerAt(step) == running /\ worker.at = step

WorkerGoes(step) == worker' = [worker EXCEPT !.at = step]

\* One automatic payment, saved with the connection of the window.
WorkerPay ==
    /\ WorkerAt("pay")
    /\ worker.due > 0 /\ made < MaxRows
    /\ made' = made + 1
    /\ rows' = Append(rows, made')
    /\ uncommitted' = FALSE
    /\ worker' = [worker EXCEPT !.due = @ - 1]
    /\ UNCHANGED <<platform, running, gap, shown, busy, gui, stage>>

WorkerPaid ==
    /\ WorkerAt("pay")
    /\ worker.due = 0 \/ made = MaxRows   \* or the bound is reached
    /\ WorkerGoes("open")
    /\ UNCHANGED <<platform, running, db, shown, busy, gui, stage>>

\* The second repository: its constructor writes, and fails while the first
\* connection has a transaction open; it reads everything if the ids have a gap.
WorkerOpen ==
    /\ WorkerAt("open")
    /\ IF uncommitted THEN WorkerGoes("failed")
       ELSE IF gap THEN worker' = [worker EXCEPT !.at = "rewrite", !.got = rows]
       ELSE WorkerGoes("load")
    /\ UNCHANGED <<platform, running, db, shown, busy, gui, stage>>

\* ... and writes it back with new ids.
WorkerRewrite ==
    /\ WorkerAt("rewrite")
    /\ IF uncommitted
       THEN /\ WorkerGoes("failed")
            /\ UNCHANGED <<rows, gap>>
       ELSE /\ rows' = worker.got
            /\ gap' = FALSE
            /\ WorkerGoes("load")
    /\ UNCHANGED <<platform, running, made, uncommitted, shown, busy, gui, stage>>

WorkerLoad ==
    /\ WorkerAt("load")
    /\ worker' = [worker EXCEPT !.at = "done", !.got = rows]
    /\ UNCHANGED <<platform, running, db, shown, busy, gui, stage>>

WorkerStep == WorkerPay \/ WorkerPaid \/ WorkerOpen \/ WorkerRewrite \/ WorkerLoad

-----------------------------------------------------------------------------
(* The window. *)

\* Timers fire between handlers, and while a handler shows a message.
AtRest == running /\ gui.at \in {"idle", "message"}

\* _finish_startup_ui
Finish ==
    /\ busy' = FALSE
    /\ worker' = WorkerIdle

PollSuccess ==
    /\ AtRest /\ worker.at = "done"
    /\ Finish
    /\ stage' = [at |-> "list", got |-> worker.got]
    /\ UNCHANGED <<platform, running, db, shown, gui>>

\* (Mutant of PollError: a failed start leaves the window busy.)
PollErrorStaysBusy ==
    /\ AtRest /\ worker.at = "failed"
    /\ shown' = rows
    /\ stage' = NoStage
    /\ UNCHANGED <<platform, running, db, gui, busy, worker>>

\* on_error: the list is loaded here.
PollError ==
    /\ AtRest /\ worker.at = "failed"
    /\ Finish
    /\ shown' = rows
    /\ stage' = NoStage
    /\ UNCHANGED <<platform, running, db, gui>>

Poll == PollSuccess \/ PollError

\* The first refresh, as soon as the window is idle.
StageList ==
    /\ AtRest /\ stage.at = "list"
    /\ shown' = stage.got
    /\ stage' = [stage EXCEPT !.at = "charts"]
    /\ UNCHANGED <<platform, running, db, busy, gui, worker>>

\* The other views; none of them is the list.
StageCharts ==
    /\ AtRest /\ stage.at = "charts"
    /\ stage' = NoStage
    /\ UNCHANGED <<platform, running, db, shown, busy, gui, worker>>

\* A step fails: _recover_from_staged_failure loads the list.
StageFails ==
    /\ AtRest /\ stage.at # "none"
    /\ shown' = rows
    /\ stage' = NoStage
    /\ UNCHANGED <<platform, running, db, busy, gui, worker>>

\* (Mutant of Clickable: the window is never disabled.)
ClickableAlways == running /\ gui.at = "idle" /\ stage.at # "list"

\* (Mutant of Clickable: the user may come before the first refresh.)
ClickableBeforeTheList ==
    /\ running /\ gui.at = "idle"
    /\ busy => platform = "other"

\* May the user do something?  The first refresh comes before his next click.
Clickable ==
    /\ running /\ gui.at = "idle" /\ stage.at # "list"
    /\ busy => platform = "other"

GuiSave ==
    /\ Clickable
    /\ made < MaxRows
    /\ made' = made + 1
    /\ rows' = Append(rows, made')
    /\ uncommitted' = FALSE
    /\ gui' = [gui EXCEPT !.at = "message"]
    /\ UNCHANGED <<platform, running, gap, shown, busy, worker, stage>>

\* CreateTransfer reads all records and adds its own ...
GuiTransfer ==
    /\ Clickable
    /\ made < MaxRows
    /\ made' = made + 1
    /\ gui' = [at |-> "transfer", got |-> Append(rows, made')]
    /\ UNCHANGED <<platform, running, rows, gap, uncommitted, shown, busy, worker, stage>>

\* ... and writes them all back.
GuiTransferWrites ==
    /\ running /\ gui.at = "transfer"
    /\ rows' = gui.got
    /\ gap' = FALSE
    /\ uncommitted' = FALSE
    /\ gui' = [at |-> "message", got |-> <<>>]
    /\ UNCHANGED <<platform, running, made, shown, busy, worker, stage>>

\* delete_selected_flow: the k-th row of the list, by its position.
GuiDelete(k) ==
    /\ Clickable
    /\ k \in DOMAIN shown
    /\ IF k \in DOMAIN rows
       THEN /\ rows' = RemoveAt(rows, k)
            /\ gap' = (gap \/ k < Len(rows))
            /\ uncommitted' = FALSE
            /\ gui' = [gui EXCEPT !.at = "read"]
       ELSE UNCHANGED <<rows, gap, uncommitted, gui>>
    /\ UNCHANGED <<platform, running, made, shown, busy, worker, stage>>

GuiRead ==
    /\ running /\ gui.at = "read"
    /\ gui' = [at |-> "write", got |-> rows]
    /\ UNCHANGED <<platform, running, db, shown, busy, worker, stage>>

\* _renormalize_current_ids; the numbering of tags after it leaves a transaction open.
GuiRewrite ==
    /\ running /\ gui.at = "write"
    /\ rows' = gui.got
    /\ gap' = FALSE
    /\ uncommitted' = TRUE
    /\ gui' = [at |-> "message", got |-> <<>>]
    /\ UNCHANGED <<platform, running, made, shown, busy, worker, stage>>

\* The message is closed, and the list refreshed.
GuiRefresh ==
    /\ running /\ gui.at = "message"
    /\ shown' = rows
    /\ gui' = GuiIdle
    /\ UNCHANGED <<platform, running, db, busy, worker, stage>>

GuiStep == GuiTransferWrites \/ GuiRead \/ GuiRewrite

Next ==
    \/ Start \/ Stop
    \/ WorkerPay \/ WorkerPaid \/ WorkerOpen \/ WorkerRewrite \/ WorkerLoad
    \/ PollSuccess \/ PollError \/ StageList \/ StageCharts \/ StageFails
    \/ GuiSave \/ GuiTransfer \/ GuiTransferWrites
    \/ \E k \in Rows : GuiDelete(k)
    \/ GuiRead \/ GuiRewrite \/ GuiRefresh

Spec == Init /\ [][Next]_vars

\* Threads run on, and the window handles what it has begun; a poll that comes
\* between handlers again and again is reached.
FairSpec == Spec /\ WF_vars(WorkerStep) /\ WF_vars(GuiStep) /\ SF_vars(Poll)

-----------------------------------------------------------------------------
(* Properties. *)

TypeOK ==
    /\ platform \in Platforms
    /\ rows \in Seq(Rows) /\ made \in 0 .. MaxRows
    /\ shown \in Seq(Rows)
    /\ gui.at \in {"idle", "transfer", "read", "write", "message"}
    /\ worker.at \in {"off", "pay", "open", "rewrite", "load", "done", "failed"}
    /\ stage.at \in {"none", "list", "charts"}
    /\ busy = (worker.at # "off")

InSeq(s) == {s[i] : i \in DOMAIN s}

\* Rows go only when the user deletes them, one at a time: where Tk disables the window,
\* neither a rewrite of the worker nor one of the window takes away what the other saved.
RowsStayOnWindows ==
    [][platform = "windows" =>
        (InSeq(rows) \subseteq InSeq(rows') \/ \E k \in Rows : GuiDelete(k))]_vars

\* The row that goes is the one the list shows at the position the user chose.
DeletesTheRowShown ==
    [][platform = "windows" =>
        \A k \in Rows : GuiDelete(k) => k \in DOMAIN rows /\ shown[k] = rows[k]]_vars

\* The window is not busy for ever: the worker ends or fails, and the poll finds it.
WindowComesBack == (running /\ busy) ~> ~(running /\ busy)
=============================================================================
