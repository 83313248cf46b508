---------------------------- MODULE StartupProofs ---------------------------
(***************************************************************************)
(* For any number of rows and automatic payments: the types (TypeOK), and  *)
(* that where Tk disables the window while it is busy no row is lost       *)
(* (RowsStayOnWindows) and the row that is deleted is the one the list     *)
(* shows (DeletesTheRowShown).                                             *)
(*                                                                         *)
(* Whatever was read is then still what the table holds: the worker runs   *)
(* only while no handler does, and the first list comes before a click.    *)
(***************************************************************************)
EXTENDS Startup, TLAPS

Types ==
    /\ platform \in Platforms
    /\ running \in BOOLEAN
    /\ rows \in Seq(Rows) /\ made \in 0 .. MaxRows
    /\ shown \in Seq(Rows)
    /\ gui \in [at : {"idle", "transfer", "read", "write", "message"}, got : Seq(Rows)]
    /\ worker \in [at : {"off", "pay", "open", "rewrite", "load", "done", "failed"},
                  due : Int, got : Seq(Rows)]
    /\ stage \in [at : {"none", "list", "charts"}, got : Seq(Rows)]
    /\ (busy <=> worker.at # "off") /\ busy \in BOOLEAN

\* On Windows, while the application runs: what was read, and what is shown, is current.
Current ==
    platform = "windows" /\ running =>
        /\ busy => gui.at = "idle"
        /\ worker.at \in {"rewrite", "done"} => worker.got = rows
        /\ stage.at = "list" => ~busy /\ gui.at = "idle" /\ stage.got = rows
        /\ gui.at = "write" => gui.got = rows
        /\ gui.at = "transfer" => InSeq(rows) \subseteq InSeq(gui.got)
        /\ ~busy /\ gui.at = "idle" /\ stage.at # "list" => shown = rows

IInv == Types /\ Current

\* No row goes in this step.
Keeps == platform = "windows" => InSeq(rows) \subseteq InSeq(rows')

-----------------------------------------------------------------------------
(* Sequences of rows. *)

\* A new row joins those that are there.
LEMMA AppendKeeps ==
    ASSUME NEW s \in Seq(Rows), NEW x \in Rows
    PROVE  Append(s, x) \in Seq(Rows) /\ InSeq(s) \subseteq InSeq(Append(s, x))
<1> DEFINE R == Rows
<1>1. s \in Seq(R) /\ x \in R
  OBVIOUS
<1> HIDE DEF R
<1>2. Append(s, x) \in Seq(R)
  BY <1>1
<1>3. \A i \in DOMAIN s : i \in DOMAIN Append(s, x) /\ Append(s, x)[i] = s[i]
  BY <1>1
<1> QED BY <1>2, <1>3 DEF InSeq, R

\* Without one of them it is still a sequence of rows.
LEMMA RemoveAtIsSeq ==
    ASSUME NEW s \in Seq(Rows), NEW k \in DOMAIN s PROVE RemoveAt(s, k) \in Seq(Rows)
<1> DEFINE R == Rows
<1>1. s \in Seq(R)
  OBVIOUS
<1> HIDE DEF R
<1>2. SubSeq(s, 1, k - 1) \in Seq(R)
  BY <1>1
<1>3. SubSeq(s, k + 1, Len(s)) \in Seq(R)
  BY <1>1
<1> QED BY <1>2, <1>3 DEF RemoveAt, R

\* The empty list is a list of rows.
LEMMA EmptyIsSeq == <<>> \in Seq(Rows)
OBVIOUS

\* What is idle has the type of what is not.
LEMMA IdleHasType ==
    /\ GuiIdle \in [at : {"idle", "transfer", "read", "write", "message"}, got : Seq(Rows)]
    /\ WorkerIdle \in [at : {"off", "pay", "open", "rewrite", "load", "done", "failed"},
                      due : Int, got : Seq(Rows)]
    /\ NoStage \in [at : {"none", "list", "charts"}, got : Seq(Rows)]
    /\ GuiIdle.at = "idle" /\ WorkerIdle.at = "off" /\ NoStage.at = "none"
<1>1. GuiIdle \in [at : {"idle", "transfer", "read", "write", "message"}, got : Seq(Rows)]
  BY EmptyIsSeq DEF GuiIdle
<1>2. WorkerIdle \in [at : {"off", "pay", "open", "rewrite", "load", "done", "failed"},
                     due : Int, got : Seq(Rows)]
  BY EmptyIsSeq DEF WorkerIdle
<1>3. NoStage \in [at : {"none", "list", "charts"}, got : Seq(Rows)]
  BY EmptyIsSeq DEF NoStage
<1> QED BY <1>1, <1>2, <1>3 DEF GuiIdle, WorkerIdle, NoStage

\* A row that is made has the next number.
LEMMA MadeIsRow ==
    ASSUME StartupAssumption, Types, made < MaxRows, made' = made + 1
    PROVE  made' \in 0 .. MaxRows /\ made' \in Rows
BY DEF StartupAssumption, Types, Rows

-----------------------------------------------------------------------------
(* Every step keeps the invariant. *)

\* At the beginning nothing runs and nothing is there.
LEMMA InitInvariant == ASSUME StartupAssumption, Init PROVE IInv
<1>1. Types
  <2>0. 0 \in 0 .. MaxRows
    BY DEF StartupAssumption
  <2>1. platform \in Platforms /\ running \in BOOLEAN /\ made \in 0 .. MaxRows
    BY <2>0 DEF Init
  <2>2. rows \in Seq(Rows) /\ shown \in Seq(Rows)
    BY EmptyIsSeq DEF Init
  <2>3. (busy <=> worker.at # "off") /\ busy \in BOOLEAN
    BY IdleHasType DEF Init
  <2> QED BY <2>1, <2>2, <2>3, IdleHasType DEF Init, Types
<1>2. Current
  BY DEF Init, Current
<1> QED BY <1>1, <1>2 DEF IInv

\* The window comes up busy, with no handler under way.
LEMMA StartInvariant == ASSUME StartupAssumption, IInv, Start PROVE IInv' /\ Keeps
<1>1. PICK n \in 0 .. MaxDue : worker' = [WorkerIdle EXCEPT !.at = "pay", !.due = n]
  BY DEF Start
<1>2. worker' = [at |-> "pay", due |-> n, got |-> <<>>]
  BY <1>1 DEF WorkerIdle
<1>3. Types'
  <2>1. worker' \in [at : {"off", "pay", "open", "rewrite", "load", "done", "failed"},
                     due : Int, got : Seq(Rows)]
    BY <1>2, EmptyIsSeq DEF StartupAssumption
  <2>2. gui' \in [at : {"idle", "transfer", "read", "write", "message"}, got : Seq(Rows)]
        /\ stage' \in [at : {"none", "list", "charts"}, got : Seq(Rows)]
    BY EmptyIsSeq DEF Start, GuiIdle, NoStage
  <2> QED BY <1>2, <2>1, <2>2, EmptyIsSeq DEF Start, IInv, Types
<1>4. Current'
  BY <1>2 DEF Start, Current, GuiIdle, NoStage
<1> QED BY <1>3, <1>4 DEF IInv, Keeps, Start

\* Nothing of the process is left.
LEMMA StopInvariant == ASSUME StartupAssumption, IInv, Stop PROVE IInv' /\ Keeps
<1>1. Types'
  BY EmptyIsSeq, IdleHasType DEF Stop, IInv, Types
<1>2. Current'
  BY DEF Stop, Current
<1> QED BY <1>1, <1>2 DEF IInv, Keeps, Stop

\* A payment is booked while no handler is under way.
LEMMA WorkerPayInvariant == ASSUME StartupAssumption, IInv, WorkerPay PROVE IInv' /\ Keeps
<1> USE DEF WorkerPay, WorkerAt, WorkerGoes, db
<1>1. made' \in 0 .. MaxRows /\ made' \in Rows
  BY MadeIsRow DEF IInv
<1>2. rows' \in Seq(Rows) /\ InSeq(rows) \subseteq InSeq(rows')
  BY <1>1, AppendKeeps DEF IInv, Types
<1>3. worker' \in [at : {"off", "pay", "open", "rewrite", "load", "done", "failed"},
                   due : Int, got : Seq(Rows)]
      /\ worker'.at = "pay"
  <2>1. worker' = [worker EXCEPT !.due = worker.due - 1] /\ worker.at = "pay"
    OBVIOUS
  <2>2. worker \in [at : {"off", "pay", "open", "rewrite", "load", "done", "failed"},
                   due : Int, got : Seq(Rows)]
    BY DEF IInv, Types
  <2> HIDE DEF WorkerPay
  <2>3. worker.due - 1 \in Int
    BY <2>2
  <2> QED BY <2>1, <2>2, <2>3
<1>4. shown' \in Seq(Rows) /\ busy
  BY DEF IInv, Types
<1>8. Types'
  <2>1. /\ platform' \in Platforms /\ running' \in BOOLEAN
        /\ gui' \in [at : {"idle", "transfer", "read", "write", "message"}, got : Seq(Rows)]
        /\ stage' \in [at : {"none", "list", "charts"}, got : Seq(Rows)]
        /\ busy' = busy /\ busy' \in BOOLEAN
    BY DEF IInv, Types
  <2> HIDE DEF WorkerPay
  <2> QED BY <1>1, <1>2, <1>3, <1>4, <2>1 DEF Types
<1>9. Current'
  BY <1>3, <1>4 DEF IInv, Types, Current
<1> QED BY <1>8, <1>9, <1>2 DEF IInv, Keeps

\* No payment is left.
LEMMA WorkerPaidInvariant ==
    ASSUME StartupAssumption, IInv, WorkerPaid
    PROVE  IInv' /\ Keeps
<1> USE DEF WorkerPaid, WorkerAt, WorkerGoes, db
<1>1. worker'.at = "open" /\ worker'.got = worker.got
  BY DEF IInv, Types
<1>8. Types'
  BY <1>1 DEF IInv, Types
<1>9. Current'
  BY <1>1 DEF IInv, Types, Current
<1> QED BY <1>8, <1>9 DEF IInv, Keeps

\* The second repository reads the rows, or fails, or has nothing to do.
LEMMA WorkerOpenInvariant ==
    ASSUME StartupAssumption, IInv, WorkerOpen
    PROVE  IInv' /\ Keeps
<1> USE DEF WorkerOpen, WorkerAt, WorkerGoes, db
<1>1. worker' \in [at : {"off", "pay", "open", "rewrite", "load", "done", "failed"},
                   due : Int, got : Seq(Rows)]
      /\ worker'.at \in {"rewrite", "load", "failed"}
      /\ worker'.at = "rewrite" => worker'.got = rows
  <2>1. CASE uncommitted
    BY <2>1 DEF IInv, Types
  <2>2. CASE ~uncommitted /\ gap
    <3>1. worker' = [at |-> "rewrite", due |-> worker.due, got |-> rows]
      BY <2>2 DEF IInv, Types
    <3> QED BY <3>1 DEF IInv, Types
  <2>3. CASE ~uncommitted /\ ~gap
    BY <2>3 DEF IInv, Types
  <2> QED BY <2>1, <2>2, <2>3
<1>8. Types'
  BY <1>1 DEF IInv, Types
<1>9. Current'
  BY <1>1 DEF IInv, Types, Current
<1> QED BY <1>8, <1>9 DEF IInv, Keeps

\* What is written back is what is there.
LEMMA WorkerRewriteInvariant ==
    ASSUME StartupAssumption, IInv, WorkerRewrite
    PROVE  IInv' /\ Keeps
<1> USE DEF WorkerRewrite, WorkerAt, WorkerGoes, db
<1>1. worker' \in [at : {"off", "pay", "open", "rewrite", "load", "done", "failed"},
                   due : Int, got : Seq(Rows)]
      /\ worker'.at \in {"load", "failed"}
  BY DEF IInv, Types
<1>2. rows' \in Seq(Rows) /\ (platform = "windows" => rows' = rows)
  BY DEF IInv, Types, Current
<1>8. Types'
  BY <1>1, <1>2 DEF IInv, Types
<1>9. Current'
  BY <1>1, <1>2 DEF IInv, Types, Current
<1> QED BY <1>8, <1>9, <1>2 DEF IInv, Keeps

\* The records for the first list are those that are there.
LEMMA WorkerLoadInvariant ==
    ASSUME StartupAssumption, IInv, WorkerLoad
    PROVE  IInv' /\ Keeps
<1> USE DEF WorkerLoad, WorkerAt, WorkerGoes, db
<1>1. worker' = [at |-> "done", due |-> worker.due, got |-> rows]
  BY DEF IInv, Types
<1>8. Types'
  BY <1>1 DEF IInv, Types
<1>9. Current'
  BY <1>1 DEF IInv, Types, Current
<1> QED BY <1>8, <1>9 DEF IInv, Keeps

\* The worker is done, and the first list waits.
LEMMA PollSuccessInvariant ==
    ASSUME StartupAssumption, IInv, PollSuccess
    PROVE  IInv' /\ Keeps
<1> USE DEF PollSuccess, AtRest, Finish, db
<1>1. stage' \in [at : {"none", "list", "charts"}, got : Seq(Rows)]
      /\ stage'.at = "list" /\ stage'.got = worker.got
  BY DEF IInv, Types
<1>8. Types'
  BY <1>1, IdleHasType DEF IInv, Types
<1>9. Current'
  BY <1>1, IdleHasType DEF IInv, Types, Current
<1> QED BY <1>8, <1>9 DEF IInv, Keeps

\* The worker failed, and the list is loaded here.
LEMMA PollErrorInvariant == ASSUME StartupAssumption, IInv, PollError PROVE IInv' /\ Keeps
<1> USE DEF PollError, AtRest, Finish, db
<1>8. Types'
  BY IdleHasType DEF IInv, Types
<1>9. Current'
  BY IdleHasType DEF IInv, Types, Current
<1> QED BY <1>8, <1>9 DEF IInv, Keeps

\* The first list is shown.
LEMMA StageListInvariant == ASSUME StartupAssumption, IInv, StageList PROVE IInv' /\ Keeps
<1> USE DEF StageList, AtRest, db
<1>1. stage' \in [at : {"none", "list", "charts"}, got : Seq(Rows)] /\ stage'.at = "charts"
  BY DEF IInv, Types
<1>8. Types'
  BY <1>1 DEF IInv, Types
<1>9. Current'
  BY <1>1, IdleHasType DEF IInv, Types, Current
<1> QED BY <1>8, <1>9 DEF IInv, Keeps

\* The other views leave the list as it is.
LEMMA StageChartsInvariant ==
    ASSUME StartupAssumption, IInv, StageCharts
    PROVE  IInv' /\ Keeps
<1> USE DEF StageCharts, AtRest, db
<1>8. Types'
  BY IdleHasType DEF IInv, Types
<1>9. Current'
  BY IdleHasType DEF IInv, Types, Current
<1> QED BY <1>8, <1>9 DEF IInv, Keeps

\* The list is loaded when a view fails.
LEMMA StageFailsInvariant ==
    ASSUME StartupAssumption, IInv, StageFails
    PROVE  IInv' /\ Keeps
<1> USE DEF StageFails, AtRest, db
<1>8. Types'
  BY IdleHasType DEF IInv, Types
<1>9. Current'
  BY IdleHasType DEF IInv, Types, Current
<1> QED BY <1>8, <1>9 DEF IInv, Keeps

\* A row is saved while no worker runs.
LEMMA GuiSaveInvariant == ASSUME StartupAssumption, IInv, GuiSave PROVE IInv' /\ Keeps
<1> USE DEF GuiSave, Clickable
<1>1. made' \in 0 .. MaxRows /\ made' \in Rows
  BY MadeIsRow DEF IInv
<1>2. rows' \in Seq(Rows) /\ InSeq(rows) \subseteq InSeq(rows')
  BY <1>1, AppendKeeps DEF IInv, Types
<1>3. gui' \in [at : {"idle", "transfer", "read", "write", "message"}, got : Seq(Rows)]
      /\ gui'.at = "message"
  BY DEF IInv, Types
<1>4. platform = "windows" => ~busy /\ worker.at = "off"
  BY DEF IInv, Types, Platforms
<1>8. Types'
  BY <1>1, <1>2, <1>3 DEF IInv, Types
<1>9. Current'
  BY <1>3, <1>4 DEF IInv, Types, Current
<1> QED BY <1>8, <1>9, <1>2 DEF IInv, Keeps

\* All rows are read while no worker runs.
LEMMA GuiTransferInvariant ==
    ASSUME StartupAssumption, IInv, GuiTransfer
    PROVE  IInv' /\ Keeps
<1> USE DEF GuiTransfer, Clickable
<1>1. made' \in 0 .. MaxRows /\ made' \in Rows
  BY MadeIsRow DEF IInv
<1>2. Append(rows, made') \in Seq(Rows) /\ InSeq(rows) \subseteq InSeq(Append(rows, made'))
  BY <1>1, AppendKeeps DEF IInv, Types
<1>4. platform = "windows" => ~busy /\ worker.at = "off"
  BY DEF IInv, Types, Platforms
<1>8. Types'
  BY <1>1, <1>2 DEF IInv, Types
<1>9. Current'
  BY <1>2, <1>4 DEF IInv, Types, Current
<1> QED BY <1>8, <1>9 DEF IInv, Keeps

\* They are written back with the new one.
LEMMA GuiTransferWritesInvariant ==
    ASSUME StartupAssumption, IInv, GuiTransferWrites
    PROVE  IInv' /\ Keeps
<1> USE DEF GuiTransferWrites
<1>1. rows' \in Seq(Rows) /\ (platform = "windows" => InSeq(rows) \subseteq InSeq(rows'))
  BY DEF IInv, Types, Current
<1>2. platform = "windows" => ~busy /\ worker.at = "off" /\ stage.at # "list"
  BY DEF IInv, Types, Current
<1>8. Types'
  BY <1>1, EmptyIsSeq DEF IInv, Types
<1>9. Current'
  BY <1>2 DEF IInv, Types, Current
<1> QED BY <1>8, <1>9, <1>1 DEF IInv, Keeps

\* A row goes while no worker runs.
LEMMA GuiDeleteInvariant ==
    ASSUME StartupAssumption, IInv, NEW k \in Rows, GuiDelete(k)
    PROVE  IInv'
<1> USE DEF GuiDelete, Clickable
<1>1. platform = "windows" => ~busy /\ worker.at = "off"
  BY DEF IInv, Types, Platforms
<1>2. CASE k \in DOMAIN rows
  <2>1. rows' \in Seq(Rows)
    BY <1>2, RemoveAtIsSeq DEF IInv, Types
  <2>2. gui' \in [at : {"idle", "transfer", "read", "write", "message"}, got : Seq(Rows)]
        /\ gui'.at = "read"
    BY <1>2 DEF IInv, Types
  <2>3. Types'
    BY <2>1, <2>2 DEF IInv, Types
  <2>4. Current'
    BY <1>1, <2>2 DEF IInv, Types, Current
  <2> QED BY <2>3, <2>4 DEF IInv
<1>3. CASE k \notin DOMAIN rows
  <2>1. Types'
    BY <1>3 DEF IInv, Types
  <2>2. Current'
    BY <1>3 DEF IInv, Current
  <2> QED BY <2>1, <2>2 DEF IInv
<1> QED BY <1>2, <1>3

\* The rows are read for their new ids.
LEMMA GuiReadInvariant == ASSUME StartupAssumption, IInv, GuiRead PROVE IInv' /\ Keeps
<1> USE DEF GuiRead, db
<1>1. platform = "windows" => ~busy /\ worker.at = "off" /\ stage.at # "list"
  BY DEF IInv, Types, Current
<1>8. Types'
  BY DEF IInv, Types
<1>9. Current'
  BY <1>1 DEF IInv, Types, Current
<1> QED BY <1>8, <1>9 DEF IInv, Keeps

\* What is written back is what is there.
LEMMA GuiRewriteInvariant ==
    ASSUME StartupAssumption, IInv, GuiRewrite
    PROVE  IInv' /\ Keeps
<1> USE DEF GuiRewrite
<1>1. rows' \in Seq(Rows) /\ (platform = "windows" => rows' = rows)
  BY DEF IInv, Types, Current
<1>2. platform = "windows" => ~busy /\ worker.at = "off" /\ stage.at # "list"
  BY DEF IInv, Types, Current
<1>8. Types'
  BY <1>1, EmptyIsSeq DEF IInv, Types
<1>9. Current'
  BY <1>1, <1>2 DEF IInv, Types, Current
<1> QED BY <1>8, <1>9, <1>1 DEF IInv, Keeps

\* The list is what is there.
LEMMA GuiRefreshInvariant ==
    ASSUME StartupAssumption, IInv, GuiRefresh
    PROVE  IInv' /\ Keeps
<1> USE DEF GuiRefresh, db
<1>1. platform = "windows" => ~busy /\ worker.at = "off" /\ stage.at # "list"
  BY DEF IInv, Types, Current
<1>8. Types'
  BY IdleHasType DEF IInv, Types
<1>9. Current'
  BY <1>1, IdleHasType DEF IInv, Types, Current
<1> QED BY <1>8, <1>9 DEF IInv, Keeps

\* Every step keeps the invariant; only a deletion takes a row away.
LEMMA NextInvariant ==
    ASSUME StartupAssumption, IInv, [Next]_vars
    PROVE  IInv' /\ (Keeps \/ \E k \in Rows : GuiDelete(k))
<1>1. CASE Start \/ Stop
  BY <1>1, StartInvariant, StopInvariant
<1>2. CASE WorkerPay \/ WorkerPaid \/ WorkerOpen
  BY <1>2, WorkerPayInvariant, WorkerPaidInvariant, WorkerOpenInvariant
<1>3. CASE WorkerRewrite \/ WorkerLoad
  BY <1>3, WorkerRewriteInvariant, WorkerLoadInvariant
<1>4. CASE PollSuccess \/ PollError
  BY <1>4, PollSuccessInvariant, PollErrorInvariant
<1>5. CASE StageList \/ StageCharts \/ StageFails
  BY <1>5, StageListInvariant, StageChartsInvariant, StageFailsInvariant
<1>6. CASE GuiSave \/ GuiTransfer \/ GuiTransferWrites
  BY <1>6, GuiSaveInvariant, GuiTransferInvariant, GuiTransferWritesInvariant
<1>7. CASE \E k \in Rows : GuiDelete(k)
  BY <1>7, GuiDeleteInvariant
<1>8. CASE GuiRead \/ GuiRewrite \/ GuiRefresh
  BY <1>8, GuiReadInvariant, GuiRewriteInvariant, GuiRefreshInvariant
<1>9. CASE UNCHANGED vars
  <2>1. Types' /\ Current' /\ Keeps
    BY <1>9 DEF vars, IInv, Types, Current, Keeps
  <2> QED BY <2>1 DEF IInv
<1> QED BY <1>1, <1>2, <1>3, <1>4, <1>5, <1>6, <1>7, <1>8, <1>9 DEF Next

\* The invariant holds in every state.
THEOREM Invariant == ASSUME StartupAssumption PROVE Spec => []IInv
<1>1. Init => IInv
  BY InitInvariant
<1>2. IInv /\ [Next]_vars => IInv'
  BY NextInvariant
<1> QED BY <1>1, <1>2, PTL DEF Spec

-----------------------------------------------------------------------------
\* The variables have their types, and the window is busy exactly as long as there is a
\* worker whose end it has not seen.
THEOREM TypeCorrect == ASSUME StartupAssumption PROVE Spec => []TypeOK
<1>1. IInv => TypeOK
  <2> SUFFICES ASSUME IInv PROVE TypeOK
    OBVIOUS
  <2>1. /\ platform \in Platforms
        /\ rows \in Seq(Rows) /\ made \in 0 .. MaxRows /\ shown \in Seq(Rows)
    BY DEF IInv, Types
  <2>2. /\ gui.at \in {"idle", "transfer", "read", "write", "message"}
        /\ worker.at \in {"off", "pay", "open", "rewrite", "load", "done", "failed"}
        /\ stage.at \in {"none", "list", "charts"}
    BY DEF IInv, Types
  <2>3. busy = (worker.at # "off")
    <3>1. busy \in BOOLEAN /\ (busy <=> worker.at # "off")
      BY DEF IInv, Types
    <3> QED BY <3>1, Zenon
  <2> QED BY <2>1, <2>2, <2>3 DEF TypeOK
<1> QED BY <1>1, Invariant, PTL

\* Where Tk disables the window while it is busy, rows go only when the user deletes them:
\* neither thread writes back what it read before the other wrote.
THEOREM RowsStay == ASSUME StartupAssumption PROVE Spec => RowsStayOnWindows
<1> DEFINE Stay == platform = "windows" =>
              (InSeq(rows) \subseteq InSeq(rows') \/ \E k \in Rows : GuiDelete(k))
<1>1. IInv /\ [Next]_vars => [Stay]_vars
  BY NextInvariant DEF Keeps
<1> QED BY <1>1, Invariant, PTL DEF Spec, RowsStayOnWindows

\* The row that goes is the one the list shows at the position the user chose.
THEOREM DeletesShown == ASSUME StartupAssumption PROVE Spec => DeletesTheRowShown
<1> DEFINE Same == platform = "windows" =>
              \A k \in Rows : GuiDelete(k) => k \in DOMAIN rows /\ shown[k] = rows[k]
<1>1. IInv /\ [Next]_vars => [Same]_vars
  <2> SUFFICES ASSUME IInv, platform = "windows", NEW k \in Rows, GuiDelete(k)
               PROVE  k \in DOMAIN rows /\ shown[k] = rows[k]
    OBVIOUS
  <2>1. shown = rows /\ k \in DOMAIN shown
    BY DEF IInv, Types, Current, GuiDelete, Clickable, Platforms
  <2> QED BY <2>1
<1> QED BY <1>1, Invariant, PTL DEF Spec, DeletesTheRowShown

=============================================================================
