----------------------------- MODULE PartsProofs -----------------------------
(***************************************************************************)
(* Rates: for any number of changes of the settings, the types and the     *)
(* lock (TypeOK), that the switch tells the mode (SwitchTellsTheMode), and *)
(* that static rates take the place of cached ones only when the           *)
(* aggregator was replaced under a fetch (CacheHoldsUnlessReplaced).  The  *)
(* lock keeps fetches apart, so between an answer and its use nobody but   *)
(* the settings touches the aggregator, and nobody the cache.              *)
(*                                                                         *)
(* Backup: a start finds files that are newer than the JSON file, because  *)
(* opening the database touches them, so it always exports; and what an    *)
(* export carries is not behind the maintenance that began it (Fresh).     *)
(*                                                                         *)
(* AppUpdate: while a file is fetched and asked about it is newer than     *)
(* what runs and no other offer stands, and the settings tab shows what is *)
(* noted (Offering).                                                       *)
(*                                                                         *)
(* Mandatory: the date that the code computes for a template is the one    *)
(* day of the current period on which it falls (TargetIsDue), and the      *)
(* worker knows all bookings while it runs (Applying).                     *)
(*                                                                         *)
(* Tags: what ends a save keeps the names of the records and the colours   *)
(* of the tags and makes the uses right (CountedData), and so does the     *)
(* rewrite, which orders the names by their first records (RebuiltData);   *)
(* between saves only a deletion that was cut off leaves the uses wrong    *)
(* (TagsInv).                                                              *)
(***************************************************************************)
EXTENDS Rates, Backup, AppUpdate, Mandatory, Tags, TablesProofs, SequenceTheorems

Step == {"off", "wait", "locked", "fetch", "asked", "apply", "release", "remember", "done"}

Task == [at : Step, want : BOOLEAN, mine : 0 .. MaxSettings, got : Kinds]

HasLock(t) == tasks[t].at \in {"locked", "fetch", "asked", "apply", "release"}

Types ==
    /\ rates \in Kinds /\ cache \in Kinds /\ rates # "none"
    /\ online \in BOOLEAN
    /\ aggregator \in [id : 0 .. MaxSettings, last : Kinds]
    /\ lock \in Tasks \cup {Free}
    /\ switch \in [shown : BOOLEAN, running : BOOLEAN]
    /\ preference \in [online : BOOLEAN, lost : BOOLEAN]
    /\ tasks \in [Tasks -> Task]

\* The lock is with the task that acts under it.
Locking == \A t \in Tasks : lock = t <=> HasLock(t)

\* A fetch asked an aggregator that there was, and static rates are marked as such where
\* the fetch was answered, or were in the file before.
Fetching ==
    \A t \in Tasks :
        /\ tasks[t].mine <= aggregator.id
        /\ At(t, "apply") => tasks[t].got # "none"
        /\ At(t, "apply") /\ tasks[t].mine = aggregator.id /\ tasks[t].got = "static" =>
              aggregator.last = "static" \/ cache = "static"

\* What the task of the switch has done to the mode so far.
Switching ==
    /\ (switch.running <=> ~At("toggle", "off"))
    /\ tasks["toggle"].at \in {"fetch", "asked", "apply", "release", "remember"} =>
          (tasks["toggle"].want <=> online)
    /\ tasks["toggle"].at \in {"done", "off"} => preference.lost \/ preference.online = online
    /\ At("toggle", "off") => switch.shown = online

IInv == Types /\ Locking /\ Fetching /\ Switching

-----------------------------------------------------------------------------
\* At the beginning no task runs and built-in rates are used.
LEMMA InitInvariant == ASSUME RatesAssumption, Init PROVE IInv
<1> USE DEF Init, Kinds, Tasks, Free, NoTask, At
<1>1. Types
  <2>1. aggregator \in [id : 0 .. MaxSettings, last : Kinds]
    BY DEF RatesAssumption
  <2>2. tasks \in [Tasks -> Task]
    BY DEF RatesAssumption, Task, Step
  <2>3. switch \in [shown : BOOLEAN, running : BOOLEAN]
    OBVIOUS
  <2>4. preference \in [online : BOOLEAN, lost : BOOLEAN]
    OBVIOUS
  <2> QED BY <2>1, <2>2, <2>3, <2>4 DEF Types
<1>2. Locking
  BY DEF Locking, HasLock
<1>3. Fetching
  BY DEF Fetching
<1>4. Switching
  BY DEF Switching
<1> QED BY <1>1, <1>2, <1>3, <1>4 DEF IInv

\* One task changes and the others stay.
LEMMA OneTask ==
    ASSUME tasks \in [Tasks -> Task], NEW t \in Tasks, NEW new \in Task,
           tasks' = [tasks EXCEPT ![t] = new]
    PROVE  /\ tasks' \in [Tasks -> Task]
           /\ tasks'[t] = new
           /\ \A u \in Tasks \ {t} : tasks'[u] = tasks[u]
OBVIOUS

\* Changed in a field or two, a task is the record with the others as they were.
LEMMA AtAlone ==
    ASSUME NEW r \in Task, NEW s
    PROVE  [r EXCEPT !.at = s] = [at |-> s, want |-> r.want, mine |-> r.mine, got |-> r.got]
BY DEF Task

\* The aggregator it asked changed alone.
LEMMA MineAlone ==
    ASSUME NEW r \in Task, NEW m
    PROVE  [r EXCEPT !.mine = m] = [at |-> r.at, want |-> r.want, mine |-> m, got |-> r.got]
BY DEF Task

\* What it got changed alone.
LEMMA GotAlone ==
    ASSUME NEW r \in Task, NEW g
    PROVE  [r EXCEPT !.got = g] = [at |-> r.at, want |-> r.want, mine |-> r.mine, got |-> g]
BY DEF Task

\* Its place and the aggregator changed.
LEMMA AtAndMine ==
    ASSUME NEW r \in Task, NEW s \in Step, NEW m
    PROVE  [r EXCEPT !.at = s, !.mine = m]
             = [at |-> s, want |-> r.want, mine |-> m, got |-> r.got]
<1> DEFINE q == [r EXCEPT !.at = s]
<1>1. q \in Task
  BY DEF Task
<1>2. q.at = s /\ q.want = r.want /\ q.mine = r.mine /\ q.got = r.got
  BY AtAlone
<1>3. [r EXCEPT !.at = s, !.mine = m] = [q EXCEPT !.mine = m]
  OBVIOUS
<1> HIDE DEF q
<1>4. [q EXCEPT !.mine = m]
        = [at |-> q.at, want |-> q.want, mine |-> m, got |-> q.got]
  BY <1>1, MineAlone
<1> QED BY <1>2, <1>3, <1>4

\* Its place and what it got changed.
LEMMA AtAndGot ==
    ASSUME NEW r \in Task, NEW s \in Step, NEW g
    PROVE  [r EXCEPT !.at = s, !.got = g]
             = [at |-> s, want |-> r.want, mine |-> r.mine, got |-> g]
<1> DEFINE q == [r EXCEPT !.at = s]
<1>1. q \in Task
  BY DEF Task
<1>2. q.at = s /\ q.want = r.want /\ q.mine = r.mine /\ q.got = r.got
  BY AtAlone
<1>3. [r EXCEPT !.at = s, !.got = g] = [q EXCEPT !.got = g]
  OBVIOUS
<1> HIDE DEF q
<1>4. [q EXCEPT !.got = g]
        = [at |-> q.at, want |-> q.want, mine |-> q.mine, got |-> g]
  BY <1>1, GotAlone
<1> QED BY <1>2, <1>3, <1>4

\* The mode it wants changed alone.
LEMMA WantAlone ==
    ASSUME NEW r \in Task, NEW w
    PROVE  [r EXCEPT !.want = w] = [at |-> r.at, want |-> w, mine |-> r.mine, got |-> r.got]
BY DEF Task

\* Its place and the mode it wants changed.
LEMMA AtAndWant ==
    ASSUME NEW r \in Task, NEW s \in Step, NEW w
    PROVE  [r EXCEPT !.at = s, !.want = w]
             = [at |-> s, want |-> w, mine |-> r.mine, got |-> r.got]
<1> DEFINE q == [r EXCEPT !.at = s]
<1>1. q \in Task
  BY DEF Task
<1>2. q.at = s /\ q.mine = r.mine /\ q.got = r.got
  BY AtAlone
<1>3. [r EXCEPT !.at = s, !.want = w] = [q EXCEPT !.want = w]
  OBVIOUS
<1> HIDE DEF q
<1>4. [q EXCEPT !.want = w] = [at |-> q.at, want |-> w, mine |-> q.mine, got |-> q.got]
  BY <1>1, WantAlone
<1> QED BY <1>2, <1>3, <1>4

\* There is a number of the first aggregator.
LEMMA FirstIsThere == ASSUME RatesAssumption PROVE 0 \in 0 .. MaxSettings
BY DEF RatesAssumption

\* A task takes the lock when it is free.
LEMMA AcquireInvariant == ASSUME IInv, NEW t \in Tasks, Acquire(t) PROVE IInv'
<1> DEFINE new == [at |-> "locked", want |-> tasks[t].want,
                   mine |-> tasks[t].mine, got |-> tasks[t].got]
<1> USE DEF Acquire, Goes, At, Kinds, Free
<1>1. new \in Task
  BY DEF IInv, Types, Step, Tasks, Task
<1>2. tasks' = [tasks EXCEPT ![t] = new]
  <2>1. tasks[t] \in Task
    BY DEF IInv, Types, Tasks
  <2>2. tasks' = [tasks EXCEPT ![t] = [tasks[t] EXCEPT !.at = "locked"]]
    BY DEF IInv, Types, Tasks
  <2> QED BY <2>1, <2>2, AtAlone DEF Step
<1>3. /\ tasks' \in [Tasks -> Task]
      /\ tasks'[t] = new
      /\ \A u \in Tasks \ {t} : tasks'[u] = tasks[u]
  BY <1>1, <1>2, OneTask DEF IInv, Types, Tasks
<1>4. Types'
  <2>1. (aggregator \in [id : 0 .. MaxSettings, last : Kinds])'
    BY DEF IInv, Types
  <2>2. (switch \in [shown : BOOLEAN, running : BOOLEAN])'
    BY DEF IInv, Types
  <2>3. (preference \in [online : BOOLEAN, lost : BOOLEAN])'
    BY DEF IInv, Types, Task, Tasks
  <2>4. (rates \in Kinds /\ cache \in Kinds /\ rates # "none" /\ online \in BOOLEAN)'
    BY DEF IInv, Types, Task, Fetching
  <2>5. (lock \in Tasks \cup {Free})'
    BY DEF IInv, Types
  <2> QED BY <1>3, <2>1, <2>2, <2>3, <2>4, <2>5 DEF Types
<1>5. Locking'
  BY <1>3 DEF IInv, Types, Locking, HasLock, Task, Tasks
<1>6. Fetching'
  BY <1>3 DEF IInv, Types, Locking, HasLock, Fetching, Task, Tasks
<1>7. Switching'
  BY <1>3 DEF IInv, Types, Switching, Task, Tasks
<1> QED BY <1>4, <1>5, <1>6, <1>7 DEF IInv

\* What a task does to the mode is decided under the lock.
LEMMA EnterInvariant == ASSUME IInv, NEW t \in Tasks, Enter(t) PROVE IInv'
<1> DEFINE next == IF (t = "toggle" /\ tasks[t].want /\ ~online) \/ (t # "toggle" /\ online)
                   THEN "fetch" ELSE "release"
<1> DEFINE new == [at |-> next, want |-> tasks[t].want,
                   mine |-> tasks[t].mine, got |-> tasks[t].got]
<1> USE DEF Enter, Goes, At, Kinds, Free
<1>1. new \in Task
  BY DEF IInv, Types, Step, Tasks, Task
<1>2. tasks' = [tasks EXCEPT ![t] = new]
  <2>1. tasks[t] \in Task
    BY DEF IInv, Types, Tasks
  <2>2. tasks' = [tasks EXCEPT ![t].at = next]
    OBVIOUS
  <2>3. tasks' = [tasks EXCEPT ![t] = [tasks[t] EXCEPT !.at = next]]
    BY <2>2 DEF IInv, Types
  <2> HIDE DEF next
  <2>4. [tasks[t] EXCEPT !.at = next]
          = [at |-> next, want |-> tasks[t].want, mine |-> tasks[t].mine, got |-> tasks[t].got]
    BY <2>1, AtAlone
  <2> QED BY <2>3, <2>4 DEF next
<1>3. /\ tasks' \in [Tasks -> Task]
      /\ tasks'[t] = new
      /\ \A u \in Tasks \ {t} : tasks'[u] = tasks[u]
  BY <1>1, <1>2, OneTask DEF IInv, Types, Tasks
<1>4. Types'
  <2>1. (aggregator \in [id : 0 .. MaxSettings, last : Kinds])'
    BY DEF IInv, Types
  <2>2. (switch \in [shown : BOOLEAN, running : BOOLEAN])'
    BY DEF IInv, Types
  <2>3. (preference \in [online : BOOLEAN, lost : BOOLEAN])'
    BY DEF IInv, Types, Task, Tasks
  <2>4. (rates \in Kinds /\ cache \in Kinds /\ rates # "none" /\ online \in BOOLEAN)'
    BY DEF IInv, Types, Task, Fetching
  <2>5. (lock \in Tasks \cup {Free})'
    BY DEF IInv, Types
  <2> QED BY <1>3, <2>1, <2>2, <2>3, <2>4, <2>5 DEF Types
<1>5. Locking'
  BY <1>3 DEF IInv, Types, Locking, HasLock, Task, Tasks
<1>6. Fetching'
  BY <1>3 DEF IInv, Types, Locking, HasLock, Fetching, Task, Tasks
<1>7. Switching'
  <2>1. CASE t = "toggle"
    <3>1. (tasks'["toggle"].want <=> online') /\ tasks'["toggle"].at \in {"fetch", "release"}
      BY <1>3, <2>1 DEF IInv, Types, Task, Tasks
    <3> QED BY <3>1, <2>1 DEF IInv, Types, Switching, Task, Tasks
  <2>2. CASE t # "toggle"
    BY <1>3, <2>2 DEF IInv, Types, Switching, Task, Tasks
  <2> QED BY <2>1, <2>2
<1> QED BY <1>4, <1>5, <1>6, <1>7 DEF IInv

\* The aggregator that is there now is asked.
LEMMA AskInvariant == ASSUME IInv, NEW t \in Tasks, Ask(t) PROVE IInv'
<1> DEFINE new == [at |-> "asked", want |-> tasks[t].want,
                   mine |-> aggregator.id, got |-> tasks[t].got]
<1> USE DEF Ask, At, Kinds, Free
<1>1. new \in Task
  BY DEF IInv, Types, Step, Tasks, Task
<1>2. tasks' = [tasks EXCEPT ![t] = new]
  <2>1. tasks[t] \in Task
    BY DEF IInv, Types, Tasks
  <2>2. tasks' = [tasks EXCEPT ![t] = [tasks[t] EXCEPT !.at = "asked", !.mine = aggregator.id]]
    BY DEF IInv, Types, Tasks
  <2>3. [tasks[t] EXCEPT !.at = "asked", !.mine = aggregator.id]
          = [at |-> "asked", want |-> tasks[t].want, mine |-> aggregator.id, got |-> tasks[t].got]
    BY <2>1, AtAndMine DEF Step
  <2> QED BY <2>2, <2>3
<1>3. /\ tasks' \in [Tasks -> Task]
      /\ tasks'[t] = new
      /\ \A u \in Tasks \ {t} : tasks'[u] = tasks[u]
  BY <1>1, <1>2, OneTask DEF IInv, Types, Tasks
<1>4. Types'
  <2>1. (aggregator \in [id : 0 .. MaxSettings, last : Kinds])'
    BY DEF IInv, Types
  <2>2. (switch \in [shown : BOOLEAN, running : BOOLEAN])'
    BY DEF IInv, Types
  <2>3. (preference \in [online : BOOLEAN, lost : BOOLEAN])'
    BY DEF IInv, Types, Task, Tasks
  <2>4. (rates \in Kinds /\ cache \in Kinds /\ rates # "none" /\ online \in BOOLEAN)'
    BY DEF IInv, Types, Task, Fetching
  <2>5. (lock \in Tasks \cup {Free})'
    BY DEF IInv, Types
  <2> QED BY <1>3, <2>1, <2>2, <2>3, <2>4, <2>5 DEF Types
<1>5. Locking'
  BY <1>3 DEF IInv, Types, Locking, HasLock, Task, Tasks
<1>6. Fetching'
  BY <1>3 DEF IInv, Types, Locking, HasLock, Fetching, Task, Tasks
<1>7. Switching'
  BY <1>3 DEF IInv, Types, Switching, Task, Tasks
<1> QED BY <1>4, <1>5, <1>6, <1>7 DEF IInv

\* Only the aggregator that was asked notes who answered.
LEMMA AnswerInvariant ==
    ASSUME IInv, NEW t \in Tasks, NEW kind \in Kinds, Answer(t, kind)
    PROVE  IInv'
<1> DEFINE got == IF kind = "none" THEN cache ELSE kind
<1> DEFINE new == [at |-> IF got = "none" THEN "release" ELSE "apply", want |-> tasks[t].want,
                   mine |-> tasks[t].mine, got |-> got]
<1> USE DEF Answer, At, Kinds, Free
<1>1. new \in Task
  BY DEF IInv, Types, Step, Tasks, Task
<1>2. tasks' = [tasks EXCEPT ![t] = new]
  <2>1. tasks[t] \in Task
    BY DEF IInv, Types, Tasks
  <2>2. tasks' = [tasks EXCEPT ![t] = [tasks[t] EXCEPT !.at = IF got = "none" THEN "release" ELSE "apply",
                                                 !.got = got]]
    BY DEF IInv, Types, Tasks
  <2> QED BY <2>1, <2>2, AtAndGot DEF Step
<1>0. tasks \in [Tasks -> Task]
  BY DEF IInv, Types
<1> HIDE DEF new, got, Answer
<1>3. /\ tasks' \in [Tasks -> Task]
      /\ tasks'[t] = new
      /\ \A u \in Tasks \ {t} : tasks'[u] = tasks[u]
  BY <1>0, <1>1, <1>2, OneTask
<1> USE DEF new, got, Answer
<1>4. Types'
  <2>1. (aggregator \in [id : 0 .. MaxSettings, last : Kinds])'
    BY DEF IInv, Types
  <2>2. (switch \in [shown : BOOLEAN, running : BOOLEAN])'
    BY DEF IInv, Types
  <2>3. (preference \in [online : BOOLEAN, lost : BOOLEAN])'
    BY DEF IInv, Types, Task, Tasks
  <2>4. (rates \in Kinds /\ cache \in Kinds /\ rates # "none" /\ online \in BOOLEAN)'
    BY DEF IInv, Types, Task, Fetching
  <2>5. (lock \in Tasks \cup {Free})'
    BY DEF IInv, Types
  <2> QED BY <1>3, <2>1, <2>2, <2>3, <2>4, <2>5 DEF Types
<1>5. Locking'
  BY <1>3 DEF IInv, Types, Locking, HasLock, Task, Tasks
<1>6. Fetching'
  BY <1>3 DEF IInv, Types, Locking, HasLock, Fetching, Task, Tasks
<1>7. Switching'
  BY <1>3 DEF IInv, Types, Switching, Task, Tasks
<1> QED BY <1>4, <1>5, <1>6, <1>7 DEF IInv

\* Static rates that were marked are not saved.
LEMMA ApplyInvariant ==
    ASSUME IInv, NEW t \in Tasks, NEW saved \in BOOLEAN, Apply(t, saved)
    PROVE  IInv'
<1> DEFINE new == [at |-> "release", want |-> tasks[t].want,
                   mine |-> tasks[t].mine, got |-> tasks[t].got]
<1> USE DEF Apply, Goes, At, Kinds, Free
<1>1. new \in Task
  BY DEF IInv, Types, Step, Tasks, Task
<1>2. tasks' = [tasks EXCEPT ![t] = new]
  <2>1. tasks[t] \in Task
    BY DEF IInv, Types, Tasks
  <2>2. tasks' = [tasks EXCEPT ![t] = [tasks[t] EXCEPT !.at = "release"]]
    BY DEF IInv, Types, Tasks
  <2> QED BY <2>1, <2>2, AtAlone DEF Step
<1>3. /\ tasks' \in [Tasks -> Task]
      /\ tasks'[t] = new
      /\ \A u \in Tasks \ {t} : tasks'[u] = tasks[u]
  BY <1>1, <1>2, OneTask DEF IInv, Types, Tasks
<1>4. Types'
  <2>1. (aggregator \in [id : 0 .. MaxSettings, last : Kinds])'
    BY DEF IInv, Types
  <2>2. (switch \in [shown : BOOLEAN, running : BOOLEAN])'
    BY DEF IInv, Types
  <2>3. (preference \in [online : BOOLEAN, lost : BOOLEAN])'
    BY DEF IInv, Types, Task, Tasks
  <2>4. (rates \in Kinds /\ cache \in Kinds /\ rates # "none" /\ online \in BOOLEAN)'
    BY DEF IInv, Types, Task, Fetching
  <2>5. (lock \in Tasks \cup {Free})'
    BY DEF IInv, Types
  <2> QED BY <1>3, <2>1, <2>2, <2>3, <2>4, <2>5 DEF Types
<1>5. Locking'
  BY <1>3 DEF IInv, Types, Locking, HasLock, Task, Tasks
<1>6. Fetching'
  BY <1>3 DEF IInv, Types, Locking, HasLock, Fetching, Task, Tasks
<1>7. Switching'
  BY <1>3 DEF IInv, Types, Switching, Task, Tasks
<1> QED BY <1>4, <1>5, <1>6, <1>7 DEF IInv

\* The mode is written down, or the loss of it is.
LEMMA RememberInvariant == ASSUME IInv, NEW saved \in BOOLEAN, Remember(saved) PROVE IInv'
<1> DEFINE new == [at |-> "done", want |-> tasks["toggle"].want,
                   mine |-> tasks["toggle"].mine, got |-> tasks["toggle"].got]
<1> USE DEF Remember, Goes, At, Kinds, Free
<1>1. new \in Task
  BY DEF IInv, Types, Step, Tasks, Task
<1>2. tasks' = [tasks EXCEPT !["toggle"] = new]
  <2>1. tasks["toggle"] \in Task
    BY DEF IInv, Types, Tasks
  <2>2. tasks' = [tasks EXCEPT !["toggle"] = [tasks["toggle"] EXCEPT !.at = "done"]]
    BY DEF IInv, Types, Tasks
  <2> QED BY <2>1, <2>2, AtAlone DEF Step
<1>3. /\ tasks' \in [Tasks -> Task]
      /\ tasks'["toggle"] = new
      /\ \A u \in Tasks \ {"toggle"} : tasks'[u] = tasks[u]
  BY <1>1, <1>2, OneTask DEF IInv, Types, Tasks
<1>4. Types'
  <2>1. (aggregator \in [id : 0 .. MaxSettings, last : Kinds])'
    BY DEF IInv, Types
  <2>2. (switch \in [shown : BOOLEAN, running : BOOLEAN])'
    BY DEF IInv, Types
  <2>3. (preference \in [online : BOOLEAN, lost : BOOLEAN])'
    BY DEF IInv, Types, Task, Tasks
  <2>4. (rates \in Kinds /\ cache \in Kinds /\ rates # "none" /\ online \in BOOLEAN)'
    BY DEF IInv, Types, Task, Fetching
  <2>5. (lock \in Tasks \cup {Free})'
    BY DEF IInv, Types
  <2> QED BY <1>3, <2>1, <2>2, <2>3, <2>4, <2>5 DEF Types
<1>5. Locking'
  BY <1>3 DEF IInv, Types, Locking, HasLock, Task, Tasks
<1>6. Fetching'
  BY <1>3 DEF IInv, Types, Locking, HasLock, Fetching, Task, Tasks
<1>7. Switching'
  BY <1>3 DEF IInv, Types, Switching, Task, Tasks
<1> QED BY <1>4, <1>5, <1>6, <1>7 DEF IInv

\* The box is set to the mode.
LEMMA ToggleDoneInvariant == ASSUME RatesAssumption, IInv, ToggleDone PROVE IInv'
<1> DEFINE new == [at |-> "off", want |-> FALSE,
                   mine |-> 0, got |-> "none"]
<1> USE DEF ToggleDone, NoTask, WindowFree, At, Kinds, Free
<1>1. new \in Task
  BY FirstIsThere DEF IInv, Types, Step, Tasks, Task
<1>2. tasks' = [tasks EXCEPT !["toggle"] = new]
  BY DEF IInv, Types, Tasks, Task
<1>3. /\ tasks' \in [Tasks -> Task]
      /\ tasks'["toggle"] = new
      /\ \A u \in Tasks \ {"toggle"} : tasks'[u] = tasks[u]
  BY <1>1, <1>2, OneTask DEF IInv, Types, Tasks
<1>4. Types'
  <2>1. (aggregator \in [id : 0 .. MaxSettings, last : Kinds])'
    BY DEF IInv, Types
  <2>2. (switch \in [shown : BOOLEAN, running : BOOLEAN])'
    BY DEF IInv, Types
  <2>3. (preference \in [online : BOOLEAN, lost : BOOLEAN])'
    BY DEF IInv, Types, Task, Tasks
  <2>4. (rates \in Kinds /\ cache \in Kinds /\ rates # "none" /\ online \in BOOLEAN)'
    BY DEF IInv, Types, Task, Fetching
  <2>5. (lock \in Tasks \cup {Free})'
    BY DEF IInv, Types
  <2> QED BY <1>3, <2>1, <2>2, <2>3, <2>4, <2>5 DEF Types
<1>5. Locking'
  BY <1>3 DEF IInv, Types, Locking, HasLock, Task, Tasks
<1>6. Fetching'
  BY <1>3 DEF IInv, Types, Locking, HasLock, Fetching, Task, Tasks
<1>7. Switching'
  BY <1>3 DEF IInv, Types, Switching, Task, Tasks
<1> QED BY <1>4, <1>5, <1>6, <1>7 DEF IInv

\* A refresh ends.
LEMMA AutoDoneInvariant == ASSUME RatesAssumption, IInv, AutoDone PROVE IInv'
<1> DEFINE new == [at |-> "off", want |-> FALSE,
                   mine |-> 0, got |-> "none"]
<1> USE DEF AutoDone, NoTask, WindowFree, At, Kinds, Free
<1>1. new \in Task
  BY FirstIsThere DEF IInv, Types, Step, Tasks, Task
<1>2. tasks' = [tasks EXCEPT !["auto"] = new]
  BY DEF IInv, Types, Tasks, Task
<1>3. /\ tasks' \in [Tasks -> Task]
      /\ tasks'["auto"] = new
      /\ \A u \in Tasks \ {"auto"} : tasks'[u] = tasks[u]
  BY <1>1, <1>2, OneTask DEF IInv, Types, Tasks
<1>4. Types'
  <2>1. (aggregator \in [id : 0 .. MaxSettings, last : Kinds])'
    BY DEF IInv, Types
  <2>2. (switch \in [shown : BOOLEAN, running : BOOLEAN])'
    BY DEF IInv, Types
  <2>3. (preference \in [online : BOOLEAN, lost : BOOLEAN])'
    BY DEF IInv, Types, Task, Tasks
  <2>4. (rates \in Kinds /\ cache \in Kinds /\ rates # "none" /\ online \in BOOLEAN)'
    BY DEF IInv, Types, Task, Fetching
  <2>5. (lock \in Tasks \cup {Free})'
    BY DEF IInv, Types
  <2> QED BY <1>3, <2>1, <2>2, <2>3, <2>4, <2>5 DEF Types
<1>5. Locking'
  BY <1>3 DEF IInv, Types, Locking, HasLock, Task, Tasks
<1>6. Fetching'
  BY <1>3 DEF IInv, Types, Locking, HasLock, Fetching, Task, Tasks
<1>7. Switching'
  BY <1>3 DEF IInv, Types, Switching, Task, Tasks
<1> QED BY <1>4, <1>5, <1>6, <1>7 DEF IInv

\* The lock goes back.
LEMMA ReleaseInvariant ==
    ASSUME RatesAssumption, IInv, NEW t \in Tasks, Release(t)
    PROVE  IInv'
<1> DEFINE next == IF t = "toggle" THEN "remember" ELSE "done"
<1> DEFINE new == IF t = "settings"
                  THEN [at |-> "off", want |-> FALSE, mine |-> 0, got |-> "none"]
                  ELSE [at |-> next, want |-> tasks[t].want,
                        mine |-> tasks[t].mine, got |-> tasks[t].got]
<1> USE DEF Release, NoTask, At, Kinds, Free
<1>1. new \in Task
  BY FirstIsThere DEF IInv, Types, Step, Tasks, Task
<1>2. tasks' = [tasks EXCEPT ![t] = new]
  <2>1. CASE t = "settings"
    BY <2>1
  <2>2. CASE t # "settings"
    <3>1. tasks[t] \in Task
      BY DEF IInv, Types
    <3>2. tasks' = [tasks EXCEPT ![t] = [tasks[t] EXCEPT !.at = next]]
      BY <2>2 DEF IInv, Types
    <3> HIDE DEF next
    <3>3. [tasks[t] EXCEPT !.at = next]
            = [at |-> next, want |-> tasks[t].want,
               mine |-> tasks[t].mine, got |-> tasks[t].got]
      BY <3>1, AtAlone
    <3> QED BY <2>2, <3>2, <3>3
  <2> QED BY <2>1, <2>2
<1>3. /\ tasks' \in [Tasks -> Task]
      /\ tasks'[t] = new
      /\ \A u \in Tasks \ {t} : tasks'[u] = tasks[u]
  BY <1>1, <1>2, OneTask DEF IInv, Types
<1>4. Types'
  <2>1. (aggregator \in [id : 0 .. MaxSettings, last : Kinds])'
    BY DEF IInv, Types
  <2>2. (switch \in [shown : BOOLEAN, running : BOOLEAN])'
    BY DEF IInv, Types
  <2>3. (preference \in [online : BOOLEAN, lost : BOOLEAN])'
    BY DEF IInv, Types
  <2>4. (rates \in Kinds /\ cache \in Kinds /\ rates # "none" /\ online \in BOOLEAN)'
    BY DEF IInv, Types
  <2>5. (lock \in Tasks \cup {Free})'
    BY DEF IInv, Types
  <2> QED BY <1>3, <2>1, <2>2, <2>3, <2>4, <2>5 DEF Types
<1>5. Locking'
  BY <1>3 DEF IInv, Types, Locking, HasLock, Task, Tasks
<1>6. Fetching'
  BY <1>3, FirstIsThere DEF IInv, Types, Locking, HasLock, Fetching, Task, Tasks
<1>7. Switching'
  BY <1>3 DEF IInv, Types, Switching, Task, Tasks
<1> QED BY <1>4, <1>5, <1>6, <1>7 DEF IInv

\* No task, but one that waits.
LEMMA Waiting ==
    ASSUME RatesAssumption, NEW want \in BOOLEAN
    PROVE  [NoTask EXCEPT !.at = "wait", !.want = want]
             = [at |-> "wait", want |-> want, mine |-> 0, got |-> "none"]
<1> DEFINE none == NoTask
<1>1. none \in Task /\ none.mine = 0 /\ none.got = "none"
  BY FirstIsThere DEF NoTask, Task, Step, Kinds
<1> HIDE DEF none
<1>2. "wait" \in Step
  BY DEF Step
<1>3. [none EXCEPT !.at = "wait", !.want = want]
        = [at |-> "wait", want |-> want, mine |-> none.mine, got |-> none.got]
  BY <1>1, <1>2, AtAndWant
<1>4. [none EXCEPT !.at = "wait", !.want = want]
        = [at |-> "wait", want |-> want, mine |-> 0, got |-> "none"]
  BY <1>1, <1>3
<1> QED BY <1>4 DEF none

\* A task that begins waits for the lock.
LEMMA Begun ==
    ASSUME RatesAssumption, IInv, NEW t \in Tasks, NEW want \in BOOLEAN, Begin(t, want)
    PROVE  /\ tasks' \in [Tasks -> Task]
           /\ tasks'[t] = [at |-> "wait", want |-> want, mine |-> 0, got |-> "none"]
           /\ \A u \in Tasks \ {t} : tasks'[u] = tasks[u]
<1> DEFINE new == [at |-> "wait", want |-> want, mine |-> 0, got |-> "none"]
<1>1. new \in Task
  BY FirstIsThere DEF Task, Step, Kinds
<1>2. tasks' = [tasks EXCEPT ![t] = new]
  <2>1. [NoTask EXCEPT !.at = "wait", !.want = want] = new
    BY Waiting
  <2> QED BY <2>1 DEF Begin
<1> QED BY <1>1, <1>2, OneTask DEF IInv, Types

\* A click begins a task, unless one is under way.
LEMMA ToggleInvariant == ASSUME RatesAssumption, IInv, Toggle PROVE IInv'
<1> USE DEF Toggle, WindowFree, At, Kinds, Free
<1>1. CASE ~switch.running
  <2>1. /\ tasks' \in [Tasks -> Task]
        /\ tasks'["toggle"] = [at |-> "wait", want |-> ~switch.shown, mine |-> 0, got |-> "none"]
        /\ \A u \in Tasks \ {"toggle"} : tasks'[u] = tasks[u]
    <3>1. Begin("toggle", ~switch.shown)
      BY <1>1
    <3> QED BY <3>1, Begun DEF Tasks, IInv, Types
  <2>2. Types'
    BY <2>1 DEF IInv, Types
  <2>3. Locking'
    BY <2>1, <1>1 DEF IInv, Types, Locking, HasLock, Switching, Task, Tasks
  <2>4. Fetching'
    BY <2>1 DEF IInv, Types, Fetching, Task, Tasks
  <2>5. Switching'
    BY <2>1, <1>1 DEF IInv, Types, Switching, Task, Tasks
  <2> QED BY <2>2, <2>3, <2>4, <2>5 DEF IInv
<1>2. CASE ~(~switch.running)
  <2>1. tasks' = tasks
    BY <1>2
  <2>2. Types'
    BY <2>1 DEF IInv, Types
  <2>3. Locking'
    BY <2>1 DEF IInv, Locking, HasLock
  <2>4. Fetching'
    BY <2>1 DEF IInv, Types, Fetching, Task
  <2>5. Switching'
    BY <2>1, <1>2 DEF IInv, Types, Switching
  <2> QED BY <2>2, <2>3, <2>4, <2>5 DEF IInv
<1> QED BY <1>1, <1>2

\* The timer sets the box to the mode and may begin a refresh.
LEMMA TimerInvariant ==
    ASSUME RatesAssumption, IInv, NEW due \in BOOLEAN, Timer(due)
    PROVE  IInv'
<1> USE DEF Timer, WindowFree, At, Kinds, Free
<1>1. CASE due /\ online /\ ~switch.running /\ At("auto", "off")
  <2>1. /\ tasks' \in [Tasks -> Task]
        /\ tasks'["auto"] = [at |-> "wait", want |-> TRUE, mine |-> 0, got |-> "none"]
        /\ \A u \in Tasks \ {"auto"} : tasks'[u] = tasks[u]
    <3>1. Begin("auto", TRUE)
      BY <1>1
    <3> QED BY <3>1, Begun DEF Tasks, IInv, Types
  <2>2. Types'
    BY <2>1 DEF IInv, Types
  <2>3. Locking'
    BY <2>1, <1>1 DEF IInv, Types, Locking, HasLock, Switching, Task, Tasks
  <2>4. Fetching'
    BY <2>1 DEF IInv, Types, Fetching, Task, Tasks
  <2>5. Switching'
    BY <2>1, <1>1 DEF IInv, Types, Switching, Task, Tasks
  <2> QED BY <2>2, <2>3, <2>4, <2>5 DEF IInv
<1>2. CASE ~(due /\ online /\ ~switch.running /\ At("auto", "off"))
  <2>1. tasks' = tasks
    BY <1>2
  <2>2. Types'
    BY <2>1 DEF IInv, Types
  <2>3. Locking'
    BY <2>1 DEF IInv, Locking, HasLock
  <2>4. Fetching'
    BY <2>1 DEF IInv, Types, Fetching, Task
  <2>5. Switching'
    BY <2>1, <1>2 DEF IInv, Types, Switching
  <2> QED BY <2>2, <2>3, <2>4, <2>5 DEF IInv
<1> QED BY <1>1, <1>2

\* A new aggregator was asked by no fetch.
LEMMA SaveSettingsInvariant ==
    ASSUME RatesAssumption, IInv, NEW changed \in BOOLEAN, SaveSettings(changed)
    PROVE  IInv'
<1> USE DEF SaveSettings, WindowFree, At, Kinds, Free
<1>0. aggregator' \in [id : 0 .. MaxSettings, last : Kinds]
  <2>1. aggregator.id \in 0 .. MaxSettings /\ aggregator.id < MaxSettings
    BY DEF IInv, Types
  <2>2. aggregator.id + 1 \in 0 .. MaxSettings
    BY <2>1 DEF RatesAssumption
  <2> QED BY <2>2
<1>4. /\ rates' \in Kinds /\ cache' \in Kinds /\ rates' # "none"
      /\ online' \in BOOLEAN
      /\ lock' \in Tasks \cup {Free}
      /\ switch' \in [shown : BOOLEAN, running : BOOLEAN]
      /\ preference' \in [online : BOOLEAN, lost : BOOLEAN]
  BY DEF IInv, Types
<1>1. CASE online /\ changed
  <2>1. /\ tasks' \in [Tasks -> Task]
        /\ tasks'["settings"] = [at |-> "wait", want |-> TRUE, mine |-> 0, got |-> "none"]
        /\ \A u \in Tasks \ {"settings"} : tasks'[u] = tasks[u]
    <3>1. Begin("settings", TRUE)
      BY <1>1
    <3> QED BY <3>1, Begun DEF Tasks, IInv, Types
  <2>2. Types'
    BY <1>0, <1>4, <2>1 DEF Types
  <2>3. Locking'
    BY <2>1, <1>1 DEF IInv, Types, Locking, HasLock, Switching, Task, Tasks
  <2>4. Fetching'
    BY <2>1 DEF IInv, Types, Fetching, Task, Tasks
  <2>5. Switching'
    BY <2>1, <1>1 DEF IInv, Types, Switching, Task, Tasks
  <2> QED BY <2>2, <2>3, <2>4, <2>5 DEF IInv
<1>2. CASE ~(online /\ changed)
  <2>1. tasks' = tasks
    BY <1>2
  <2>2. Types'
    <3>1. tasks' \in [Tasks -> Task]
      BY <2>1 DEF IInv, Types
    <3> QED BY <1>0, <1>4, <3>1 DEF Types
  <2>3. Locking'
    BY <2>1 DEF IInv, Locking, HasLock
  <2>4. Fetching'
    BY <2>1 DEF IInv, Types, Fetching, Task
  <2>5. Switching'
    BY <2>1, <1>2 DEF IInv, Types, Switching
  <2> QED BY <2>2, <2>3, <2>4, <2>5 DEF IInv
<1> QED BY <1>1, <1>2

\* The process starts again with no task, or with the one that restores the mode.
LEMMA RestartInvariant == ASSUME RatesAssumption, IInv, Restart PROVE IInv'
<1> USE DEF Restart, At, Kinds, Free
<1> DEFINE first == [at |-> "wait", want |-> TRUE, mine |-> 0, got |-> "none"]
<1>1. NoTask \in Task /\ first \in Task
  BY FirstIsThere DEF NoTask, Task, Step, Kinds
<1>2. [NoTask EXCEPT !.at = "wait", !.want = TRUE] = first
  BY Waiting
<1>3. tasks' = [t \in Tasks |-> IF t = "toggle" /\ preference.online THEN first ELSE NoTask]
  BY <1>2
<1>4. aggregator' \in [id : 0 .. MaxSettings, last : Kinds] /\ aggregator'.id >= 0
  BY DEF IInv, Types
<1>5. preference' \in [online : BOOLEAN, lost : BOOLEAN] /\ preference'.online = preference.online
  BY DEF IInv, Types
<1>6. preference.online \in BOOLEAN
  BY DEF IInv, Types
<1>7. /\ tasks' \in [Tasks -> Task]
      /\ tasks'["toggle"] = IF preference.online THEN first ELSE NoTask
      /\ \A t \in Tasks \ {"toggle"} : tasks'[t] = NoTask
  <2> HIDE DEF first
  <2> QED BY <1>1, <1>3 DEF Tasks
<1>8. Types'
  <2>1. switch' \in [shown : BOOLEAN, running : BOOLEAN]
    BY <1>6
  <2>2. rates' \in Kinds /\ cache' \in Kinds /\ rates' # "none" /\ online' \in BOOLEAN
    BY DEF IInv, Types
  <2>3. lock' \in Tasks \cup {Free}
    OBVIOUS
  <2> QED BY <1>4, <1>5, <1>7, <2>1, <2>2, <2>3 DEF Types
<1>9. \A t \in Tasks : tasks'[t].at \in {"off", "wait"} /\ tasks'[t].mine = 0
  BY <1>7 DEF NoTask
<1>10. Locking'
  BY <1>9 DEF Locking, HasLock, Tasks
<1>11. Fetching'
  BY <1>9, <1>4 DEF Fetching
<1>12. Switching'
  <2>1. /\ switch'.shown = preference.online /\ switch'.running = preference.online
        /\ online' = FALSE
    OBVIOUS
  <2> HIDE DEF Restart
  <2>2. CASE preference.online
    <3>1. tasks'["toggle"].at = "wait"
      BY <1>7, <2>2
    <3> QED BY <2>1, <2>2, <3>1 DEF Switching
  <2>3. CASE ~preference.online
    <3>1. tasks'["toggle"].at = "off"
      BY <1>7, <2>3 DEF NoTask
    <3>2. preference.online = FALSE
      BY <1>6, <2>3
    <3> QED BY <1>5, <2>1, <3>1, <3>2 DEF Switching
  <2> QED BY <2>2, <2>3
<1> QED BY <1>8, <1>10, <1>11, <1>12 DEF IInv

\* Every step, and a step that changes nothing, keeps the invariant.
LEMMA NextInvariant == ASSUME RatesAssumption, IInv, [Next]_vars PROVE IInv'
<1>1. ASSUME NEW t \in Tasks, Acquire(t) PROVE IInv'
  BY <1>1, AcquireInvariant
<1>2. ASSUME NEW t \in Tasks, TaskStep(t) PROVE IInv'
  <2>1. CASE Enter(t)
    BY <2>1, EnterInvariant
  <2>2. CASE Ask(t)
    BY <2>2, AskInvariant
  <2>3. CASE \E kind \in Kinds : Answer(t, kind)
    BY <2>3, AnswerInvariant
  <2>4. CASE \E saved \in BOOLEAN : Apply(t, saved)
    BY <2>4, ApplyInvariant
  <2>5. CASE Release(t)
    BY <2>5, ReleaseInvariant
  <2> QED BY <1>2, <2>1, <2>2, <2>3, <2>4, <2>5 DEF TaskStep
<1>3. CASE \E saved \in BOOLEAN : Remember(saved)
  BY <1>3, RememberInvariant
<1>4. CASE Toggle
  BY <1>4, ToggleInvariant
<1>5. CASE ToggleDone
  BY <1>5, ToggleDoneInvariant
<1>6. CASE AutoDone
  BY <1>6, AutoDoneInvariant
<1>7. ASSUME NEW b \in BOOLEAN, Timer(b) \/ SaveSettings(b) PROVE IInv'
  BY <1>7, TimerInvariant, SaveSettingsInvariant
<1>8. CASE Restart
  BY <1>8, RestartInvariant
<1>9. CASE UNCHANGED vars
  <2>1. Types' /\ Locking' /\ Fetching' /\ Switching'
    BY <1>9 DEF vars, IInv, Types, Locking, HasLock, Fetching, Switching, At
  <2> QED BY <2>1 DEF IInv
<1> QED BY <1>1, <1>2, <1>3, <1>4, <1>5, <1>6, <1>7, <1>8, <1>9 DEF Next

\* The invariant holds in every state.
THEOREM Invariant == ASSUME RatesAssumption PROVE Spec => []IInv
<1>1. Init => IInv
  BY InitInvariant
<1>2. IInv /\ [Next]_vars => IInv'
  BY NextInvariant
<1> QED BY <1>1, <1>2, PTL DEF Spec

-----------------------------------------------------------------------------
\* The variables have their types, the lock is with the task that acts under it, and the
\* flag of the switch says whether its task is under way.
THEOREM TypeCorrect == ASSUME RatesAssumption PROVE Spec => []TypeOK
<1>1. IInv => TypeOK
  <2> SUFFICES ASSUME IInv PROVE TypeOK
    OBVIOUS
  <2>1. /\ rates \in Kinds /\ cache \in Kinds /\ rates # "none"
        /\ online \in BOOLEAN
        /\ lock \in Tasks \cup {Free}
    BY DEF IInv, Types
  <2>2. aggregator.id \in 0 .. MaxSettings /\ aggregator.last \in Kinds
    BY DEF IInv, Types
  <2>3. \A t \in Tasks : lock = t <=>
          tasks[t].at \in {"locked", "fetch", "asked", "apply", "release"}
    BY DEF IInv, Locking, HasLock
  <2>4. switch.running = ~At("toggle", "off")
    <3>1. switch.running \in BOOLEAN
      BY DEF IInv, Types
    <3>2. switch.running <=> ~At("toggle", "off")
      BY DEF IInv, Switching
    <3> QED BY <3>1, <3>2, Zenon
  <2> QED BY <2>1, <2>2, <2>3, <2>4 DEF TypeOK
<1> QED BY <1>1, Invariant, PTL

\* While no switch is under way, the box shows the mode the service is in, and the
\* database remembers it unless a write failed.
THEOREM SwitchTold == ASSUME RatesAssumption PROVE Spec => []SwitchTellsTheMode
<1>1. IInv => SwitchTellsTheMode
  BY DEF IInv, Switching, SwitchTellsTheMode, At
<1> QED BY <1>1, Invariant, PTL

\* Static rates take the place of cached ones only where a fetch is applied whose
\* aggregator was replaced meanwhile.
THEOREM CacheHolds == ASSUME RatesAssumption PROVE Spec => CacheHoldsUnlessReplaced
<1> DEFINE Held == cache' = "static" /\ cache # "static" =>
                      \E t \in Tasks : At(t, "apply") /\ tasks[t].mine # aggregator.id
<1>1. IInv /\ [Next]_vars => [Held]_vars
  <2> SUFFICES ASSUME IInv, Next, cache' = "static", cache # "static"
               PROVE  \E t \in Tasks : At(t, "apply") /\ tasks[t].mine # aggregator.id
    OBVIOUS
  <2>1. PICK t \in Tasks : \E saved \in BOOLEAN : Apply(t, saved)
    BY DEF Next, TaskStep, Acquire, Enter, Ask, Answer, Release, Remember, Toggle,
           ToggleDone, AutoDone, Timer, SaveSettings, Restart
  <2>2. At(t, "apply") /\ aggregator.last # "static" /\ tasks[t].got = "static"
    BY <2>1 DEF Apply
  <2>3. tasks[t].mine # aggregator.id
    BY <2>2 DEF IInv, Fetching
  <2> QED BY <2>2, <2>3
<1> QED BY <1>1, Invariant, PTL DEF Spec, CacheHoldsUnlessReplaced

-----------------------------------------------------------------------------
(* Backup.                                                                 *)

Steps == {"rest", "check", "thread", "sync", "write", "backup", "prune"}

Counts == 0 .. MaxCommits

BackupTypes ==
    /\ time \in 1 .. MaxTime /\ commits \in Counts
    /\ mainTime \in 1 .. time /\ sideTime \in 0 .. time
    /\ json \in [commits : Counts, at : 0 .. time]
    /\ \A b \in backups : b.stamp \in 1 .. time /\ b.commits \in Counts
    /\ process \in {"off", "starting", "ready"}
    /\ exporter \in [step : Steps, copy : Counts]
    /\ startedAt \in Counts

\* What is under way is not behind the maintenance that began it, and a start finds files
\* that are newer than the JSON file.
Fresh ==
    /\ startedAt <= commits
    /\ exporter.step = "write" => startedAt <= exporter.copy
    /\ exporter.step \in {"backup", "prune"} => startedAt <= json.commits
    /\ process = "starting" /\ exporter.step \in {"rest", "check"} => json.at < sideTime
    /\ process = "off" => exporter.step = "rest"
    /\ exporter.step = "check" => process = "starting"

BackupInv == BackupTypes /\ Fresh

\* A step of the export, of the start or of the user.
LEMMA BackupStep ==
    ASSUME BackupAssumption, BackupInv, BackupNext
    PROVE  BackupInv' /\ \A b \in backups' \ backups : b.commits >= startedAt
<1> USE DEF BackupInv, BackupTypes, Fresh, Steps, Counts, BackupAssumption
<1>1. CASE OpenDatabase
  BY <1>1 DEF OpenDatabase, Written
<1>2. CASE Commit
  BY <1>2 DEF Commit, Written, Rest
<1>3. CASE Close
  <2>1. /\ time' = time + 1 /\ mainTime' = time' /\ sideTime' = 0
        /\ process' = "off" /\ exporter' = [step |-> "rest", copy |-> 0]
        /\ UNCHANGED <<commits, json, backups, startedAt>> /\ time < MaxTime
    BY <1>3 DEF Close, Written, Rest, NoFile
  <2>2. BackupTypes'
    BY <2>1
  <2>3. Fresh'
    BY <2>1
  <2> QED BY <2>1, <2>2, <2>3
<1>4. CASE Kill
  BY <1>4 DEF Kill, Rest
<1>5. CASE Maintain
  BY <1>5 DEF Maintain, Rest
<1>6. ASSUME NEW large \in BOOLEAN, Check(large)
      PROVE  BackupInv' /\ \A b \in backups' \ backups : b.commits >= startedAt
  <2>1. ShouldExport
    BY <1>6 DEF Check, ShouldExport, LatestActivity, Later
  <2> QED BY <1>6, <2>1 DEF Check
<1>7. CASE Snapshot
  BY <1>7 DEF Snapshot
<1>8. CASE WriteJson
  BY <1>8 DEF WriteJson, Written
<1>9. CASE ExportFails
  BY <1>9 DEF ExportFails, Rest, Ready
<1>10. CASE CreateBackup
  BY <1>10 DEF CreateBackup, Written
<1>11. CASE Prune
  BY <1>11 DEF Prune, Rest, Ready
<1> QED BY <1>1, <1>2, <1>3, <1>4, <1>5, <1>6, <1>7, <1>8, <1>9, <1>10, <1>11 DEF BackupNext

\* It holds in every state; so do the types.
LEMMA BackupInvHolds == ASSUME BackupAssumption PROVE BackupSpec => []BackupInv
<1>1. BackupInit => BackupInv
  BY DEF BackupInit, BackupInv, BackupTypes, Fresh, Steps, Counts, BackupAssumption,
         Rest, Missing, NoFile
<1>2. BackupInv /\ [BackupNext]_backupVars => BackupInv'
  <2>1. BackupInv /\ UNCHANGED backupVars => BackupInv'
    BY DEF BackupInv, BackupTypes, Fresh, backupVars
  <2> QED BY <2>1, BackupStep
<1> QED BY <1>1, <1>2, PTL DEF BackupSpec

\* The backup a start makes has every commit that came before its maintenance
\* (BackupIsCurrent).
THEOREM BackupsAreCurrent == ASSUME BackupAssumption PROVE BackupSpec => BackupIsCurrent
<1> DEFINE Current == \A b \in backups' \ backups : b.commits >= startedAt
<1>1. BackupInv /\ [BackupNext]_backupVars => [Current]_backupVars
  BY BackupStep
<1>2. [][Current]_backupVars => BackupIsCurrent
  BY DEF BackupIsCurrent
<1> QED BY <1>1, <1>2, BackupInvHolds, PTL DEF BackupSpec

\* Times and commits keep their bounds (BackupTypeOK).
THEOREM BackupTyped == ASSUME BackupAssumption PROVE BackupSpec => []BackupTypeOK
<1>1. BackupInv => BackupTypeOK
  BY DEF BackupInv, BackupTypes, BackupTypeOK, Counts, BackupAssumption
<1> QED BY <1>1, BackupInvHolds, PTL

-----------------------------------------------------------------------------
(* AppUpdate: the offer and the hand-over.                                 *)

Flows == {"off", "ready", "checking", "downloading", "downloaded", "asking"}

MaybeVersion == Versions \cup {NoVersion}

UpdateTypes ==
    /\ installed \in Versions
    /\ downloads \in SUBSET Versions /\ parts \in SUBSET Versions /\ installers \in SUBSET Versions
    /\ notes \in [install : MaybeVersion, cleanup : MaybeVersion]
    /\ app \in [flow : Flows, built : BOOLEAN, offer : MaybeVersion, target : MaybeVersion]

\* What is fetched is newer than what runs, and no offer stands while it is fetched; the
\* settings tab shows what is noted.
Offering ==
    /\ app.flow = "off" => app = Off
    /\ app.flow \in {"downloading", "downloaded", "asking"} =>
          app.target \in Versions /\ IsNewer(installed, app.target)
    /\ app.built => app.offer = notes.install
    /\ app.flow \in {"checking", "downloading", "downloaded"} => app.built /\ app.offer = NoVersion
    /\ app.flow = "asking" => app.built

UpdateInv == UpdateTypes /\ Offering

Handing ==
    \A v \in installers' \ installers : v \in downloads /\ Above(Precedence(v), Precedence(installed))

ReleasedInTime ==
    Flow("off") /\ app'.flow = "ready" => \A v \in downloads \ downloads' : IsSameOrNewer(installed, v)

Surviving ==
    notes'.install # notes.install /\ notes.install # NoVersion =>
        notes.install \notin downloads' \/ ~IsNewer(installed, notes.install)

Forward == UpdateInv' /\ Handing /\ ReleasedInTime /\ Surviving

\* The comparison of the code and the order of versions are one.
LEMMA NewerIsAbove ==
    ASSUME AppUpdateAssumption, NEW v \in Versions, NEW w \in Versions, IsNewer(v, w)
    PROVE  Above(Precedence(w), Precedence(v))
<1>1. /\ v.core \in Nat /\ v.pre \in Nat /\ w.core \in Nat /\ w.pre \in Nat
  BY DEF AppUpdateAssumption
<1>2. /\ Precedence(w)[1] = w.core /\ Precedence(v)[1] = v.core
      /\ Precedence(w)[2] = (IF w.pre = 0 THEN 1 ELSE 0)
      /\ Precedence(v)[2] = (IF v.pre = 0 THEN 1 ELSE 0)
      /\ Precedence(w)[3] = w.pre /\ Precedence(v)[3] = v.pre
  BY DEF Precedence
<1> DEFINE a == Precedence(w)
           b == Precedence(v)
<1> HIDE DEF a, b
<1>3. /\ a[1] = w.core /\ b[1] = v.core
      /\ a[2] = (IF w.pre = 0 THEN 1 ELSE 0)
      /\ b[2] = (IF v.pre = 0 THEN 1 ELSE 0)
      /\ a[3] = w.pre /\ b[3] = v.pre
  BY <1>2 DEF a, b
<1>4. CASE w.core > v.core
  <2>1. a[1] > b[1] /\ \A j \in 1 .. 1 - 1 : a[j] = b[j]
    BY <1>1, <1>3, <1>4
  <2> QED BY <2>1 DEF Above, a, b
<1>5. CASE w.core = v.core /\ v.pre # 0 /\ w.pre = 0
  <2>1. a[2] > b[2] /\ \A j \in 1 .. 2 - 1 : a[j] = b[j]
    BY <1>1, <1>3, <1>5
  <2> QED BY <2>1 DEF Above, a, b
<1>6. CASE w.core = v.core /\ v.pre # 0 /\ w.pre # 0 /\ w.pre > v.pre
  <2>1. a[3] > b[3] /\ \A j \in 1 .. 3 - 1 : a[j] = b[j]
    BY <1>1, <1>3, <1>6
  <2> QED BY <2>1 DEF Above, a, b
<1> QED BY <1>1, <1>4, <1>5, <1>6 DEF IsNewer

\* What is taken of a list of releases is a version, and newer.
LEMMA CandidateIsNewer ==
    ASSUME AppUpdateAssumption, NEW list \in ReleaseLists, Candidates(list) # {}
    PROVE  LET first == list[Min(Candidates(list))]
           IN  first.version \in Versions /\ IsNewer(installed, first.version)
<1> DEFINE S == Candidates(list)
<1>1. list \in Seq([version : Versions, asset : BOOLEAN])
  BY DEF AppUpdateAssumption
<1>2. Len(list) \in Nat /\ S \in SUBSET (1 .. Len(list))
  BY <1>1 DEF Candidates
<1>3. Min(S) \in S
  <2> HIDE DEF S
  <2>1. Ids(S)
    BY <1>2, IdsOfInterval
  <2>2. S # {}
    BY DEF S
  <2> QED BY <2>1, <2>2, MinIsMember
<1> DEFINE i == Min(S)
<1>4. i \in DOMAIN list /\ IsNewer(installed, list[i].version)
  BY <1>3 DEF Candidates
<1> HIDE DEF i
<1>5. list[i] \in [version : Versions, asset : BOOLEAN]
  BY <1>1, <1>4, ElementOfSeq, LenProperties
<1>6. list[i].version \in Versions
  BY <1>5
<1> QED BY <1>4, <1>6 DEF i

\* A note is kept or goes.
LEMMA OfferedOrNot ==
    ASSUME NEW v \in MaybeVersion PROVE StillOffered(v) \in {v, NoVersion} /\ StillOffered(v) \in MaybeVersion
BY DEF StillOffered, MaybeVersion

\* A start, whatever it finds of notes and files.
LEMMA StartForward ==
    ASSUME AppUpdateAssumption, UpdateInv, NEW removed \in BOOLEAN, Start(removed) PROVE Forward
<1>1. /\ app = Off /\ app' = [flow |-> "ready", built |-> FALSE, offer |-> NoVersion, target |-> NoVersion]
      /\ UNCHANGED <<installed, parts, installers>>
  BY DEF Start, UpdateInv, Offering, Flow, Off
<1>2. notes.install \in MaybeVersion /\ notes.cleanup \in MaybeVersion
  BY DEF UpdateInv, UpdateTypes
<1>3. /\ notes'.install = StillOffered(notes.install)
      /\ notes' \in [install : MaybeVersion, cleanup : MaybeVersion]
      /\ downloads' \subseteq downloads
      /\ \A v \in downloads \ downloads' : IsSameOrNewer(installed, v)
  <2>1. StillOffered(notes.install) \in MaybeVersion /\ NoVersion \in MaybeVersion
    BY <1>2, OfferedOrNot DEF MaybeVersion
  <2> QED BY <1>2, <2>1 DEF Start, Reconciled
<1>4. Surviving
  BY <1>3 DEF Surviving, StillOffered
<1>5. UpdateTypes'
  BY <1>1, <1>3 DEF UpdateInv, UpdateTypes, Flows, MaybeVersion
<1>6. Offering'
  BY <1>1 DEF Offering
<1> QED BY <1>1, <1>3, <1>4, <1>5, <1>6 DEF Forward, UpdateInv, Handing, ReleasedInTime

\* The settings tab, and the check that it starts.
LEMMA SettingsForward ==
    ASSUME AppUpdateAssumption, UpdateInv, BuildSettings \/ CheckForUpdate PROVE Forward
<1> USE DEF UpdateInv
<1>1. notes \in [install : MaybeVersion, cleanup : MaybeVersion] /\ notes.install \in MaybeVersion
      /\ app \in [flow : Flows, built : BOOLEAN, offer : MaybeVersion, target : MaybeVersion]
      /\ NoVersion \in MaybeVersion
  BY DEF UpdateTypes, MaybeVersion
<1>2. CASE BuildSettings
  <2>1. /\ UNCHANGED <<installed, downloads, parts, installers>> /\ app.flow = "ready"
        /\ notes'.install = StillOffered(notes.install) /\ notes'.cleanup = notes.cleanup
        /\ app'.flow = "ready" /\ app'.built /\ app'.offer = notes'.install
    BY <1>1, <1>2 DEF BuildSettings, Flow
  <2>2. StillOffered(notes.install) \in MaybeVersion
    BY <1>1, OfferedOrNot
  <2>3. notes' \in [install : MaybeVersion, cleanup : MaybeVersion]
    BY <1>1, <1>2, <2>2 DEF BuildSettings
  <2>4. app' \in [flow : Flows, built : BOOLEAN, offer : MaybeVersion, target : MaybeVersion]
    BY <1>1, <1>2, <2>1, <2>2 DEF BuildSettings
  <2>5. Surviving
    BY <2>1 DEF Surviving, StillOffered
  <2>6. UpdateTypes'
    BY <2>1, <2>3, <2>4 DEF UpdateTypes
  <2>7. Offering'
    BY <2>1 DEF Offering
  <2> QED BY <2>1, <2>5, <2>6, <2>7 DEF Forward, Handing, ReleasedInTime, Flow
<1>3. CASE CheckForUpdate
  <2>1. /\ UNCHANGED <<installed, downloads, parts, installers>> /\ app.flow = "ready" /\ app.built
        /\ StillOffered(app.offer) = NoVersion
        /\ notes'.install = IF app.offer = NoVersion THEN notes.install ELSE NoVersion
        /\ app'.flow = "checking" /\ app'.built /\ app'.offer = NoVersion
    BY <1>1, <1>3 DEF CheckForUpdate, Flow
  <2>2. app.offer = notes.install
    BY <2>1 DEF Offering
  <2>3. notes'.install = NoVersion
    BY <2>1, <2>2
  <2>4. notes' \in [install : MaybeVersion, cleanup : MaybeVersion]
    BY <1>1, <1>3 DEF CheckForUpdate
  <2>5. app' \in [flow : Flows, built : BOOLEAN, offer : MaybeVersion, target : MaybeVersion]
    BY <1>1, <1>3 DEF CheckForUpdate, Flows
  <2>6. Surviving
    BY <2>1, <2>2 DEF Surviving, StillOffered
  <2>7. UpdateTypes'
    BY <2>1, <2>4, <2>5 DEF UpdateTypes
  <2>8. Offering'
    BY <2>1, <2>3 DEF Offering
  <2> QED BY <2>1, <2>6, <2>7, <2>8 DEF Forward, Handing, ReleasedInTime, Flow
<1> QED BY <1>2, <1>3

\* The answer to a check.
LEMMA CheckAnsweredForward ==
    ASSUME AppUpdateAssumption, UpdateInv, NEW list \in ReleaseLists, NEW agrees \in BOOLEAN,
           CheckAnswered(list, agrees)
    PROVE  Forward
<1> DEFINE first == list[Min(Candidates(list))]
<1>1. /\ UNCHANGED <<installed, downloads, parts, notes, installers>> /\ app.flow = "checking"
      /\ app \in [flow : Flows, built : BOOLEAN, offer : MaybeVersion, target : MaybeVersion]
      /\ app.built /\ app.offer = NoVersion
  BY DEF CheckAnswered, Flow, UpdateInv, UpdateTypes, Offering
<1>2. CASE /\ Candidates(list) # {}
           /\ app' = [app EXCEPT !.flow = "downloading", !.target = first.version]
  <2>1. first.version \in Versions /\ IsNewer(installed, first.version)
    BY <1>2, CandidateIsNewer
  <2> HIDE DEF first
  <2>2. /\ app'.flow = "downloading" /\ app'.built /\ app'.offer = NoVersion
        /\ app'.target = first.version
    BY <1>1, <1>2
  <2>3. app' \in [flow : Flows, built : BOOLEAN, offer : MaybeVersion, target : MaybeVersion]
    BY <1>1, <1>2, <2>1 DEF Flows, MaybeVersion
  <2>4. UpdateTypes' /\ Offering'
    BY <1>1, <2>1, <2>2, <2>3 DEF UpdateInv, UpdateTypes, Offering, IsNewer
  <2> QED BY <1>1, <2>2, <2>4 DEF Forward, UpdateInv, Handing, ReleasedInTime, Surviving, Flow
<1>3. CASE app' = [app EXCEPT !.flow = "ready"]
  <2>1. app'.flow = "ready" /\ app'.built /\ app'.offer = NoVersion
    BY <1>1, <1>3
  <2>2. app' \in [flow : Flows, built : BOOLEAN, offer : MaybeVersion, target : MaybeVersion]
    BY <1>1, <1>3 DEF Flows
  <2>3. UpdateTypes' /\ Offering'
    BY <1>1, <2>1, <2>2 DEF UpdateInv, UpdateTypes, Offering
  <2> QED BY <1>1, <2>1, <2>3 DEF Forward, UpdateInv, Handing, ReleasedInTime, Surviving, Flow
<1> QED BY <1>2, <1>3 DEF CheckAnswered

\* The worker and what comes after it.
LEMMA DownloadForward ==
    ASSUME AppUpdateAssumption, UpdateInv, NEW removed \in BOOLEAN,
           \/ DownloadChunk \/ DownloadEnds \/ DownloadFails(removed)
           \/ OfferDownloaded \/ InstallLater
    PROVE  Forward
<1> DEFINE T == [flow : Flows, built : BOOLEAN, offer : MaybeVersion, target : MaybeVersion]
<1>1. /\ app \in T /\ notes \in [install : MaybeVersion, cleanup : MaybeVersion]
      /\ app.flow \in {"downloading", "downloaded", "asking"}
      /\ app.target \in Versions /\ IsNewer(installed, app.target) /\ app.built
      /\ app.offer = notes.install
      /\ UNCHANGED <<installed, installers>>
  <2>1. app.flow \in {"downloading", "downloaded", "asking"} /\ UNCHANGED <<installed, installers>>
    BY DEF DownloadChunk, DownloadEnds, DownloadFails, OfferDownloaded, InstallLater, Flow
  <2> QED BY <2>1 DEF UpdateInv, UpdateTypes, Offering
<1>2. Handing /\ ReleasedInTime
  BY <1>1 DEF Handing, ReleasedInTime, Flow
<1>3. CASE DownloadChunk \/ DownloadEnds \/ DownloadFails(removed) \/ InstallLater
  <2>1. /\ UNCHANGED notes /\ downloads' \in SUBSET Versions /\ parts' \in SUBSET Versions
    BY <1>1, <1>3
    DEF UpdateInv, UpdateTypes, DownloadChunk, DownloadEnds, DownloadFails, InstallLater
  <2>2. \/ app' = [app EXCEPT !.flow = "ready"]
        \/ app.flow = "downloading" /\ (app' = app \/ app' = [app EXCEPT !.flow = "downloaded"])
    BY <1>3 DEF DownloadChunk, DownloadEnds, DownloadFails, InstallLater, MovesTo, Flow
  <2>3. app' \in T
    BY <1>1, <2>2 DEF Flows
  <2>4. /\ app'.built = app.built /\ app'.offer = app.offer /\ app'.target = app.target
        /\ app'.flow \in {"ready", "downloading", "downloaded"}
        /\ app'.flow # "ready" => app.flow = "downloading"
    BY <1>1, <2>2
  <2>5. Offering'
    BY <1>1, <2>1, <2>4 DEF UpdateInv, Offering, IsNewer
  <2>6. UpdateTypes'
    BY <1>1, <2>1, <2>3 DEF UpdateInv, UpdateTypes
  <2> QED BY <1>2, <2>1, <2>5, <2>6 DEF Forward, UpdateInv, Surviving
<1>4. CASE OfferDownloaded
  <2>1. /\ app'.flow = "asking" /\ app'.built /\ app'.offer = app.target /\ app'.target = app.target
        /\ notes'.install = app.target /\ app.offer = NoVersion /\ UNCHANGED <<downloads, parts>>
    BY <1>1, <1>4 DEF OfferDownloaded, Flow, UpdateInv, Offering
  <2>2. app' \in T /\ notes' \in [install : MaybeVersion, cleanup : MaybeVersion]
    BY <1>1, <1>4 DEF OfferDownloaded, Flows, MaybeVersion
  <2>3. Offering'
    BY <1>1, <2>1 DEF Offering, IsNewer
  <2>4. UpdateTypes'
    BY <1>1, <2>1, <2>2 DEF UpdateInv, UpdateTypes
  <2>5. Surviving
    BY <1>1, <2>1 DEF Surviving
  <2> QED BY <1>2, <2>3, <2>4, <2>5 DEF Forward, UpdateInv
<1> QED
  BY <1>3, <1>4

\* A file is handed over to its installer.
LEMMA LaunchForward ==
    ASSUME AppUpdateAssumption, UpdateInv, NEW v \in Versions, NEW starts \in BOOLEAN,
           IsNewer(installed, v), app.flow \in {"ready", "asking"},
           UNCHANGED <<installed, downloads, parts>>, Launch(v, starts)
    PROVE  Forward
<1> DEFINE T == [flow : Flows, built : BOOLEAN, offer : MaybeVersion, target : MaybeVersion]
<1>1. /\ app \in T /\ notes \in [install : MaybeVersion, cleanup : MaybeVersion]
      /\ installed \in Versions
  BY DEF UpdateInv, UpdateTypes
<1>2. /\ notes'.install = notes.install
      /\ notes' \in [install : MaybeVersion, cleanup : MaybeVersion]
  BY <1>1 DEF Launch, MaybeVersion
<1>3. Handing
  <2>1. \A w \in installers' \ installers : w = v /\ v \in downloads
    BY DEF Launch
  <2> QED BY <1>1, <2>1, NewerIsAbove DEF Handing
<1>4. /\ app' = Off \/ app' = [app EXCEPT !.flow = "ready"]
      /\ installers' \in SUBSET Versions
  BY DEF Launch, MovesTo, UpdateInv, UpdateTypes
<1>5. app' \in T
  <2>1. Off \in T
    BY DEF Off, Flows, MaybeVersion
  <2>2. [app EXCEPT !.flow = "ready"] \in T
    BY <1>1 DEF Flows
  <2> QED BY <1>4, <2>1, <2>2
<1>6. Offering'
  <2>1. CASE app' = Off
    BY <1>2, <2>1 DEF Off, Offering
  <2>2. CASE app' = [app EXCEPT !.flow = "ready"]
    <3>1. app'.flow = "ready" /\ app'.built = app.built /\ app'.offer = app.offer
      BY <1>1, <2>2
    <3> QED BY <1>2, <3>1 DEF UpdateInv, Offering
  <2> QED BY <1>4, <2>1, <2>2
<1>7. UpdateTypes'
  BY <1>2, <1>4, <1>5 DEF UpdateInv, UpdateTypes
<1> QED BY <1>2, <1>3, <1>6, <1>7 DEF Forward, UpdateInv, ReleasedInTime, Surviving, Flow

\* The user installs: at once, or what the settings tab offers.
LEMMA InstallForward ==
    ASSUME AppUpdateAssumption, UpdateInv, NEW starts \in BOOLEAN,
           InstallNow(starts) \/ InstallOffered(starts)
    PROVE  Forward
<1> DEFINE T == [flow : Flows, built : BOOLEAN, offer : MaybeVersion, target : MaybeVersion]
<1>1. app \in T
  BY DEF UpdateInv, UpdateTypes
<1>2. CASE InstallNow(starts) /\ app.target \in downloads
  <2>1. app.target \in Versions /\ IsNewer(installed, app.target)
    BY <1>2 DEF InstallNow, Flow, UpdateInv, Offering
  <2> QED BY <1>2, <2>1, LaunchForward DEF InstallNow, Flow
<1>3. CASE InstallNow(starts) /\ app.target \notin downloads
  <2>1. /\ UNCHANGED <<installed, downloads, parts, notes, installers>> /\ app.flow = "asking"
        /\ app' = [app EXCEPT !.flow = "ready"]
    BY <1>3 DEF InstallNow, MovesTo, Flow
  <2>2. app' \in T /\ app'.flow = "ready" /\ app'.built = app.built /\ app'.offer = app.offer
    BY <1>1, <2>1 DEF Flows
  <2>3. UpdateTypes' /\ Offering'
    BY <2>1, <2>2 DEF UpdateInv, UpdateTypes, Offering
  <2> QED BY <2>1, <2>3 DEF Forward, UpdateInv, Handing, ReleasedInTime, Surviving, Flow
<1>4. CASE InstallOffered(starts)
  <2>1. /\ app.offer # NoVersion /\ app.offer \in MaybeVersion /\ UNCHANGED <<installed, downloads, parts>>
        /\ StillOffered(app.offer) = app.offer /\ Launch(app.offer, starts) /\ app.flow = "ready"
    BY <1>1, <1>4 DEF InstallOffered, Flow
  <2>2. app.offer \in Versions /\ IsNewer(installed, app.offer)
    BY <2>1 DEF StillOffered, MaybeVersion
  <2> QED BY <2>1, <2>2, LaunchForward
<1> QED BY <1>2, <1>3, <1>4

\* What happens outside the window: it is closed, an installer ends, files go.
LEMMA OutsideForward ==
    ASSUME AppUpdateAssumption, UpdateInv, NEW v \in Versions, NEW installs \in BOOLEAN,
           Stop \/ InstallerEnds(v, installs) \/ InstallByHand(v) \/ CacheEmptied
    PROVE  Forward
<1>1. UNCHANGED notes /\ installers' \subseteq installers /\ downloads' \subseteq downloads
      /\ parts' \subseteq parts /\ (app' = app \/ app' = Off) /\ installed' \in Versions
      /\ (app.flow # "off" => UNCHANGED installed)
  BY DEF Stop, InstallerEnds, InstallByHand, CacheEmptied, Flow, UpdateInv, UpdateTypes
<1>2. Off.flow = "off" /\ ~Off.built
      /\ Off \in [flow : Flows, built : BOOLEAN, offer : MaybeVersion, target : MaybeVersion]
  BY DEF Off, Flows, MaybeVersion
<1>3. UpdateTypes'
  BY <1>1, <1>2 DEF UpdateInv, UpdateTypes
<1>4. Offering'
  BY <1>1, <1>2 DEF UpdateInv, Offering, IsNewer
<1>5. ReleasedInTime
  BY <1>1, <1>2 DEF UpdateInv, ReleasedInTime, Flow
<1> QED BY <1>1, <1>3, <1>4, <1>5 DEF Forward, UpdateInv, Handing, Surviving

\* Every step.
LEMMA UpdateStep == ASSUME AppUpdateAssumption, UpdateInv, AppUpdateNext PROVE Forward
<1>1. ASSUME NEW done \in BOOLEAN, Start(done) PROVE Forward
  BY <1>1, StartForward
<1>2. ASSUME NEW done \in BOOLEAN,
             \/ DownloadChunk \/ DownloadEnds \/ DownloadFails(done)
             \/ OfferDownloaded \/ InstallLater
      PROVE  Forward
  BY <1>2, DownloadForward
<1>3. ASSUME NEW done \in BOOLEAN, InstallNow(done) \/ InstallOffered(done) PROVE Forward
  BY <1>3, InstallForward
<1>4. ASSUME NEW done \in BOOLEAN, NEW list \in ReleaseLists, CheckAnswered(list, done)
      PROVE  Forward
  BY <1>4, CheckAnsweredForward
<1>5. ASSUME NEW done \in BOOLEAN, NEW v \in Versions,
             Stop \/ InstallerEnds(v, done) \/ InstallByHand(v) \/ CacheEmptied
      PROVE  Forward
  BY <1>5, OutsideForward
<1>6. CASE BuildSettings \/ CheckForUpdate
  BY <1>6, SettingsForward
<1>7. TRUE \in BOOLEAN /\ FirstVersion \in Versions
  BY DEF AppUpdateAssumption
<1> QED BY <1>1, <1>2, <1>3, <1>4, <1>5, <1>6, <1>7 DEF AppUpdateNext

\* What holds in every state of it.
LEMMA UpdateInvHolds == ASSUME AppUpdateAssumption PROVE AppUpdateSpec => []UpdateInv
<1>1. AppUpdateInit => UpdateInv
  BY DEF AppUpdateInit, UpdateInv, UpdateTypes, Offering, AppUpdateAssumption, Off, Flows,
         MaybeVersion
<1>2. UpdateInv /\ UNCHANGED appUpdateVars => UpdateInv'
  BY DEF UpdateInv, UpdateTypes, Offering, appUpdateVars, IsNewer
<1>3. UpdateInv /\ [AppUpdateNext]_appUpdateVars => UpdateInv'
  BY <1>2, UpdateStep DEF Forward
<1> QED BY <1>1, <1>3, PTL DEF AppUpdateSpec

\* Notes, files and installers are of versions (AppUpdateTypeOK).
THEOREM UpdateTyped == ASSUME AppUpdateAssumption PROVE AppUpdateSpec => []AppUpdateTypeOK
<1>1. UpdateInv => AppUpdateTypeOK
  BY DEF UpdateInv, UpdateTypes, AppUpdateTypeOK, MaybeVersion
<1> QED BY <1>1, UpdateInvHolds, PTL

\* Only a whole file of a newer version reaches an installer; a download waits until its
\* version runs, and is offered until it is installed or gone (UpdatesGoForward).
THEOREM UpdatesAreForward ==
    ASSUME AppUpdateAssumption PROVE AppUpdateSpec => UpdatesGoForward
<1>1. UpdateInv /\ [AppUpdateNext]_appUpdateVars =>
         [Handing]_appUpdateVars /\ [ReleasedInTime]_appUpdateVars /\ [Surviving]_appUpdateVars
  BY UpdateStep DEF Forward
<1>2. AppUpdateSpec =>
         [][Handing]_appUpdateVars /\ [][ReleasedInTime]_appUpdateVars /\ [][Surviving]_appUpdateVars
  BY <1>1, UpdateInvHolds, PTL DEF AppUpdateSpec
<1> QED BY <1>2
  DEF UpdatesGoForward, OnlyNewerIsHandedOver, DownloadsWaitForTheirVersion, OfferSurvives,
      Handing, ReleasedInTime, Surviving

-----------------------------------------------------------------------------
(* Mandatory: the calendar, the day a payment falls on, and the worker.    *)

\* The day after a month.
MonthEnd(m) == MonthStart[m] + MonthLengths[m]

\* Months follow each other from day 1.
LEMMA MonthsFollow ==
    ASSUME MandatoryAssumption
    PROVE  /\ Len(MonthLengths) \in Nat \ {0} /\ Months = 1 .. Len(MonthLengths)
           /\ \A m \in Months : MonthLengths[m] \in Nat \ {0} /\ MonthStart[m] \in Nat
           /\ MonthStart[1] = 1
           /\ \A m \in Months : m + 1 \in Months => MonthStart[m + 1] = MonthEnd(m)
<1>1. MonthLengths \in Seq(Nat \ {0}) /\ MonthLengths # <<>>
  BY DEF MandatoryAssumption
<1>2. Len(MonthLengths) \in Nat \ {0} /\ Months = 1 .. Len(MonthLengths)
  BY <1>1, EmptySeq, LenProperties DEF Months
<1>3. \A m \in Months : MonthLengths[m] \in Nat \ {0}
  BY <1>1, <1>2, ElementOfSeq
<1>4. \A m \in Months : MonthStart[m] = 1 + Total(MonthLengths, 1 .. m - 1)
  BY DEF MonthStart, Total
<1>5. \A m \in Months : MonthStart[m] \in Nat
  <2> TAKE m \in Months
  <2>a. m \in Nat /\ m - 1 \in Int /\ m <= Len(MonthLengths)
    BY <1>2
  <2>b. IsFiniteSet(1 .. m - 1)
    BY <2>a, FS_Interval
  <2>c. \A k \in 1 .. m - 1 : MonthLengths[k] \in Nat
    BY <1>2, <1>3, <2>a
  <2>1. m \in Nat /\ IsFiniteSet(1 .. m - 1) /\ \A k \in 1 .. m - 1 : MonthLengths[k] \in Nat
    BY <2>a, <2>b, <2>c
  <2>2. Total(MonthLengths, 1 .. m - 1) \in Nat
    BY <2>1, TotalType
  <2> QED BY <1>4, <2>2
<1>6. MonthStart[1] = 1
  <2>1. 1 \in Months /\ 1 .. 1 - 1 = {}
    BY <1>2
  <2> QED BY <1>4, <2>1, TotalEmpty
<1>7. ASSUME NEW m \in Months, m + 1 \in Months
      PROVE  MonthStart[m + 1] = MonthEnd(m)
  <2> DEFINE S == 1 .. m - 1
  <2>a. m \in Nat \ {0} /\ m - 1 \in Int /\ (m + 1) - 1 = m
    BY <1>2
  <2>b. IsFiniteSet(S)
    BY <2>a, FS_Interval
  <2>c. m \notin S /\ 1 .. m = S \cup {m}
    BY <2>a
  <2>1. m \in Nat \ {0} /\ m \notin S /\ 1 .. (m + 1) - 1 = S \cup {m} /\ IsFiniteSet(S)
    BY <2>a, <2>b, <2>c
  <2>2. \A y \in S \cup {m} : MonthLengths[y] \in Int
    BY <1>2, <1>3
  <2>3. Total(MonthLengths, S \cup {m}) = MonthLengths[m] + Total(MonthLengths, S)
    <3> HIDE DEF S
    <3> QED BY <2>1, <2>2, TotalAdd
  <2>4. Total(MonthLengths, S) \in Int
    <3> HIDE DEF S
    <3> QED BY <2>1, <2>2, TotalType
  <2>5. /\ MonthStart[m + 1] = 1 + Total(MonthLengths, S \cup {m})
        /\ MonthStart[m] = 1 + Total(MonthLengths, S)
    BY <1>4, <1>7, <2>1
  <2>6. MonthLengths[m] \in Nat
    BY <1>3
  <2> HIDE DEF S
  <2> QED BY <2>3, <2>4, <2>5, <2>6 DEF MonthEnd
<1> QED BY <1>2, <1>3, <1>5, <1>6, <1>7

\* A month ends before a later one begins.
LEMMA MonthsInOrder ==
    ASSUME MandatoryAssumption, NEW m \in Months, NEW n \in Months, m < n
    PROVE  MonthEnd(m) <= MonthStart[n]
<1> DEFINE S == {k \in Nat : m + 1 + k \in Months => MonthEnd(m) <= MonthStart[m + 1 + k]}
<1>1. m \in Nat \ {0} /\ n \in Nat \ {0} /\ Months = 1 .. Len(MonthLengths)
      /\ Len(MonthLengths) \in Nat
  BY MonthsFollow
<1>2. MonthEnd(m) \in Nat
  BY MonthsFollow DEF MonthEnd
<1>3. 0 \in S
  BY <1>1, <1>2, MonthsFollow
<1>4. ASSUME NEW k \in S
      PROVE  k + 1 \in S
  <2> SUFFICES ASSUME m + 1 + (k + 1) \in Months
               PROVE  MonthEnd(m) <= MonthStart[m + 1 + (k + 1)]
    OBVIOUS
  <2> DEFINE j == m + 1 + k
  <2>1. j \in Months /\ j + 1 \in Months /\ j + 1 = m + 1 + (k + 1)
    BY <1>1
  <2>2. MonthEnd(m) <= MonthStart[j]
    BY <2>1
  <2> HIDE DEF j
  <2>3. MonthStart[j + 1] = MonthStart[j] + MonthLengths[j]
    BY <2>1, MonthsFollow DEF MonthEnd
  <2>4. MonthStart[j] \in Nat /\ MonthLengths[j] \in Nat
    BY <2>1, MonthsFollow
  <2> QED BY <1>2, <2>1, <2>2, <2>3, <2>4
<1>5. S = Nat
  <2>1. S \in SUBSET Nat
    OBVIOUS
  <2> HIDE DEF S
  <2> QED BY <1>3, <1>4, <2>1, NatInductionSet
<1>6. n - m - 1 \in Nat /\ m + 1 + (n - m - 1) = n
  BY <1>1
<1> QED BY <1>5, <1>6

\* The days of the months are the days.
LEMMA DaysOfMonths ==
    ASSUME MandatoryAssumption
    PROVE  /\ \A m \in Months : MonthStart[m] \in Nat \ {0} /\ MonthEnd(m) \in Nat
           /\ \A m \in Months : \A d \in Int : MonthStart[m] <= d /\ d < MonthEnd(m) => d \in Days
           /\ \A d \in Days : \E m \in Months : MonthStart[m] <= d /\ d < MonthEnd(m)
           /\ Days \in SUBSET Nat /\ Days = 1 .. Cardinality(Days) /\ Cardinality(Days) \in Nat
           /\ Days # {}
<1> DEFINE n == Len(MonthLengths)
           last == MonthEnd(n) - 1
<1>1. n \in Months /\ 1 \in Months /\ Months = 1 .. n /\ n \in Nat /\ Days = 1 .. last
  BY MonthsFollow DEF Days, MonthEnd
<1>2. \A m \in Months : MonthEnd(m) \in Nat /\ MonthStart[m] < MonthEnd(m)
  BY MonthsFollow DEF MonthEnd
<1>3. \A m \in Months : MonthStart[m] \in Nat \ {0}
  <2> TAKE m \in Months
  <2>1. MonthStart[m] \in Nat /\ MonthStart[1] = 1 /\ MonthEnd(1) \in Nat /\ 1 < MonthEnd(1)
    BY <1>1, <1>2, MonthsFollow
  <2>2. CASE m = 1
    BY <2>1, <2>2
  <2>3. CASE 1 < m
    BY <1>1, <2>1, <2>3, MonthsInOrder
  <2> QED BY <1>1, <2>2, <2>3
<1>4. \A m \in Months : MonthEnd(m) <= last + 1
  <2> TAKE m \in Months
  <2>1. CASE m = n
    BY <1>1, <1>2, <2>1
  <2>2. CASE m < n
    BY <1>1, <1>2, <1>3, <2>2, MonthsInOrder
  <2> QED BY <1>1, <2>1, <2>2
<1>5. last \in Nat /\ 1 <= last
  BY <1>1, <1>2, <1>3
<1> HIDE DEF last
<1>6. \A m \in Months : \A d \in Int : MonthStart[m] <= d /\ d < MonthEnd(m) => d \in Days
  BY <1>1, <1>2, <1>3, <1>4, <1>5
<1> DEFINE Covered(d) == \E m \in Months : MonthStart[m] <= d /\ d < MonthEnd(m)
           S == {k \in Nat : k \in Months => \A d \in Nat \ {0} : d < MonthEnd(k) => Covered(d)}
<1>7. 0 \in S
  BY <1>1
<1>8. ASSUME NEW k \in S
      PROVE  k + 1 \in S
  <2> SUFFICES ASSUME k + 1 \in Months, NEW d \in Nat \ {0}, d < MonthEnd(k + 1)
               PROVE  Covered(d)
    OBVIOUS
  <2>1. CASE MonthStart[k + 1] <= d
    BY <2>1
  <2>2. CASE d < MonthStart[k + 1] /\ k = 0
    BY <2>2, MonthsFollow
  <2>3. CASE d < MonthStart[k + 1] /\ k # 0
    <3>1. k \in Months
      BY <1>1, <2>3
    <3>2. d < MonthEnd(k)
      BY <2>3, <3>1, MonthsFollow
    <3> QED BY <3>1, <3>2
  <2>4. MonthStart[k + 1] \in Nat
    BY <1>3
  <2> QED BY <2>1, <2>2, <2>3, <2>4
<1>9. S = Nat
  <2>1. S \in SUBSET Nat
    OBVIOUS
  <2> HIDE DEF S
  <2> QED BY <1>7, <1>8, <2>1, NatInductionSet
<1>10. \A d \in Days : Covered(d)
  <2>1. \A d \in Nat \ {0} : d < MonthEnd(n) => Covered(d)
    <3>1. n \in S
      BY <1>1, <1>9
    <3> QED BY <1>1, <3>1
  <2>2. \A d \in Days : d \in Nat \ {0} /\ d < MonthEnd(n)
    BY <1>1, <1>2, <1>5 DEF last
  <2> HIDE DEF Covered
  <2> QED BY <2>1, <2>2
<1>11. Cardinality(Days) = last
  BY <1>1, <1>5, FS_Interval
<1> QED BY <1>1, <1>2, <1>3, <1>5, <1>6, <1>10, <1>11

\* MonthOf finds the one month of a day.
LEMMA MonthOfDay ==
    ASSUME MandatoryAssumption, NEW d \in Days
    PROVE  /\ MonthOf(d) \in Months
           /\ MonthStart[MonthOf(d)] <= d /\ d < MonthEnd(MonthOf(d))
           /\ \A m \in Months : MonthStart[m] <= d /\ d < MonthEnd(m) => MonthOf(d) = m
           /\ DayOfMonth(d) \in Nat /\ DayOfMonth(d) \in 1 .. MonthLengths[MonthOf(d)]
<1> DEFINE n == MonthOf(d)
<1>1. n \in Months /\ MonthStart[n] <= d /\ d < MonthEnd(n)
  BY DaysOfMonths DEF MonthOf, MonthEnd
<1>2. d \in Nat /\ Months \in SUBSET Nat
  BY DaysOfMonths, MonthsFollow
<1>3. DayOfMonth(d) \in Nat /\ DayOfMonth(d) \in 1 .. MonthLengths[n]
  <2>1. MonthStart[n] \in Nat /\ MonthLengths[n] \in Nat
    BY <1>1, MonthsFollow
  <2> HIDE DEF n
  <2>2. DayOfMonth(d) = d - MonthStart[n] + 1
    BY DEF DayOfMonth, n
  <2> QED BY <1>1, <1>2, <2>1, <2>2 DEF MonthEnd
<1> HIDE DEF n
<1>4. ASSUME NEW m \in Months, MonthStart[m] <= d, d < MonthEnd(m)
      PROVE  n = m
  <2>1. /\ MonthStart[m] \in Nat /\ MonthStart[n] \in Nat
        /\ MonthEnd(m) \in Nat /\ MonthEnd(n) \in Nat
    BY <1>1, DaysOfMonths
  <2>2. ~ n < m
    BY <1>1, <1>2, <1>4, <2>1, MonthsInOrder
  <2>3. ~ m < n
    BY <1>1, <1>2, <1>4, <2>1, MonthsInOrder
  <2> QED BY <1>1, <1>2, <2>2, <2>3
<1> QED BY <1>1, <1>3, <1>4 DEF n

\* The smaller of two numbers.
LEMMA MinOfTwo ==
    ASSUME NEW a \in Int, NEW b \in Int
    PROVE  Min({a, b}) = IF a <= b THEN a ELSE b
<1>1. \E x \in {a, b} : \A y \in {a, b} : x <= y
  OBVIOUS
<1> QED BY <1>1 DEF Min

\* The day that a payment falls on in a month: that of its anchor, or the last one.
SameDay(anchor, d) ==
    \/ DayOfMonth(d) = DayOfMonth(anchor)
    \/ /\ DayOfMonth(d) < DayOfMonth(anchor)
       /\ d + 1 \in Days => MonthOf(d + 1) # MonthOf(d)

\* Clamped is that day, and there is no other in the month.
LEMMA ClampedIsSameDay ==
    ASSUME MandatoryAssumption, NEW anchor \in Days, NEW m \in Months
    PROVE  LET c == Clamped(anchor, m)
           IN  c \in Days /\ MonthOf(c) = m /\ SameDay(anchor, c)
<1> DEFINE c == Clamped(anchor, m)
           k == DayOfMonth(anchor)
           l == MonthLengths[m]
           s == MonthStart[m]
<1>1. k \in Nat \ {0} /\ l \in Nat \ {0} /\ s \in Nat \ {0} /\ MonthEnd(m) = s + l
  BY MonthOfDay, MonthsFollow, DaysOfMonths DEF MonthEnd
<1>2. c = s + (IF k <= l THEN k ELSE l) - 1
  BY <1>1, MinOfTwo DEF Clamped
<1> HIDE DEF c, k, l, s
<1>3. c \in Nat /\ s <= c /\ c < MonthEnd(m) /\ c - s + 1 = IF k <= l THEN k ELSE l
  BY <1>1, <1>2
<1>4. c \in Days
  BY <1>3, DaysOfMonths DEF s
<1>5. MonthOf(c) = m
  BY <1>3, <1>4, MonthOfDay DEF s
<1>6. DayOfMonth(c) = IF k <= l THEN k ELSE l
  BY <1>3, <1>5 DEF DayOfMonth, s
<1>7. ASSUME l < k, c + 1 \in Days, MonthOf(c + 1) = m
      PROVE  FALSE
  <2>1. c + 1 < MonthEnd(m)
    BY <1>7, MonthOfDay
  <2> QED BY <1>1, <1>2, <1>7, <2>1
<1>8. SameDay(anchor, c)
  <2>1. CASE k <= l
    BY <1>6, <2>1 DEF SameDay, k
  <2>2. CASE l < k
    <3>1. DayOfMonth(c) < k
      BY <1>1, <1>6, <2>2
    <3> QED BY <1>5, <1>7, <2>2, <3>1 DEF SameDay, k
  <2> QED BY <1>1, <2>1, <2>2
<1> QED BY <1>4, <1>5, <1>8 DEF c

\* A day on which a payment falls is the one that Clamped computes for its month.
LEMMA SameDayIsClamped ==
    ASSUME MandatoryAssumption, NEW anchor \in Days, NEW d \in Days, SameDay(anchor, d)
    PROVE  d = Clamped(anchor, MonthOf(d))
<1> DEFINE m == MonthOf(d)
           k == DayOfMonth(anchor)
           l == MonthLengths[m]
           s == MonthStart[m]
<1>1. m \in Months /\ s <= d /\ d < MonthEnd(m) /\ d \in Nat
  BY MonthOfDay, DaysOfMonths
<1>2. k \in Nat \ {0} /\ l \in Nat \ {0} /\ s \in Nat \ {0} /\ MonthEnd(m) = s + l
  <2> HIDE DEF m
  <2> QED BY <1>1, MonthOfDay, MonthsFollow, DaysOfMonths DEF MonthEnd
<1>3. Clamped(anchor, m) = s + (IF k <= l THEN k ELSE l) - 1
  <2> HIDE DEF m, k, l
  <2> QED BY <1>2, MinOfTwo DEF Clamped, k, l
<1>4. DayOfMonth(d) = d - s + 1
  BY DEF DayOfMonth
<1> HIDE DEF m, k, l, s
<1>5. CASE DayOfMonth(d) = k
  BY <1>1, <1>2, <1>3, <1>4, <1>5 DEF m
<1>6. CASE DayOfMonth(d) < k /\ (d + 1 \in Days => MonthOf(d + 1) # m)
  <2>1. ~ d + 1 < MonthEnd(m)
    <3> SUFFICES ASSUME d + 1 < MonthEnd(m)
                 PROVE  FALSE
      OBVIOUS
    <3>1. s <= d + 1 /\ d + 1 \in Int
      BY <1>1, <1>2
    <3>2. d + 1 \in Days
      BY <1>1, <3>1, DaysOfMonths DEF s
    <3>3. MonthOf(d + 1) = m
      BY <1>1, <3>1, <3>2, MonthOfDay DEF s
    <3> QED BY <1>6, <3>2, <3>3
  <2>2. d = s + l - 1
    BY <1>1, <1>2, <2>1
  <2>3. l < k
    BY <1>2, <1>4, <1>6, <2>2
  <2> QED BY <1>2, <1>3, <2>2, <2>3 DEF m
<1> QED BY <1>5, <1>6 DEF SameDay, m, k

\* Division with remainder, and that there is one way to do it.
LEMMA Quotients ==
    ASSUME NEW n \in Nat, NEW b \in Nat \ {0}
    PROVE  /\ n \div b \in Nat /\ n % b \in Nat /\ n % b < b
           /\ n = (n \div b) * b + (n % b) /\ n \div b <= n
           /\ \A q \in Nat, r \in Nat : n = q * b + r /\ r < b => q = n \div b /\ r = n % b
<1>1. n \div b \in Int /\ n % b \in 0 .. b - 1 /\ n = b * (n \div b) + (n % b)
  BY SMT
<1>2. n \div b \in Nat
  <2>1. ASSUME n \div b <= -1
        PROVE  FALSE
    <3>1. b * (n \div b) <= -b
      BY <1>1, <2>1, SMT
    <3> QED BY <1>1, <3>1
  <2> QED BY <1>1, <2>1
<1> DEFINE q0 == n \div b
           r0 == n % b
<1> HIDE DEF q0, r0
<1>3. q0 \in Nat /\ r0 \in Nat /\ r0 < b /\ n = b * q0 + r0
  BY <1>1, <1>2 DEF q0, r0
<1>4. q0 <= n /\ b * q0 = q0 * b
  BY <1>3, SMT
<1>5. ASSUME NEW q \in Nat, NEW r \in Nat, n = q * b + r, r < b
      PROVE  q = q0 /\ r = r0
  <2>1. ASSUME NEW x \in Nat, NEW y \in Nat, x < y
        PROVE  x * b + b <= y * b
    <3>1. (x + 1) * b <= y * b
      BY <2>1, SMT
    <3> QED BY <3>1, SMT
  <2>2. ~ q < q0
    BY <1>3, <1>4, <1>5, <2>1, SMT
  <2>3. ~ q0 < q
    BY <1>3, <1>4, <1>5, <2>1, SMT
  <2>4. q = q0
    BY <1>3, <2>2, <2>3
  <2> QED BY <1>3, <1>4, <1>5, <2>4, SMT
<1> QED BY <1>3, <1>4, <1>5 DEF q0, r0

InYearOf(m, n, k) == YearOf(m) = YearOf(n) /\ MonthOfYear(m) = MonthOfYear(k)

\* A calendar of whole years has in the year of a month one month with the place of another.
LEMMA MonthInYear ==
    ASSUME MandatoryAssumption, NEW n \in Months, NEW k \in Months
    PROVE  /\ \E m \in Months : InYearOf(m, n, k)
           /\ \A m, j \in Months : InYearOf(m, n, k) /\ InYearOf(j, n, k) => m = j
<1> DEFINE P == MonthsPerYear
           N == Len(MonthLengths)
           y == (n - 1) \div P
           i == (k - 1) % P
           m0 == y * P + i + 1
<1>1. P \in Nat \ {0} /\ N \in Nat \ {0} /\ Months = 1 .. N /\ N % P = 0
  BY MonthsFollow DEF MandatoryAssumption
<1> HIDE DEF P, N
<1>2. n - 1 \in Nat /\ k - 1 \in Nat /\ n - 1 < N
  BY <1>1
<1>3. y \in Nat /\ y * P <= n - 1 /\ i \in Nat /\ i < P
  <2>1. y \in Nat /\ (n - 1) % P \in Nat /\ n - 1 = y * P + ((n - 1) % P)
    BY <1>1, <1>2, Quotients
  <2>2. i \in Nat /\ i < P
    BY <1>1, <1>2, Quotients
  <2>3. y * P \in Nat
    BY <1>1, <2>1, SMT
  <2> HIDE DEF y, i
  <2> QED BY <1>1, <2>1, <2>2, <2>3
<1> DEFINE Q == N \div P
<1>4. Q \in Nat /\ N = Q * P
  <2>1. N = Q * P + (N % P) /\ Q \in Nat
    BY <1>1, Quotients
  <2>2. Q * P \in Nat
    BY <1>1, <2>1, SMT
  <2> HIDE DEF Q
  <2> QED BY <1>1, <2>1, <2>2
<1> HIDE DEF y, i, Q
<1>5. y < Q
  <2> SUFFICES ASSUME Q <= y
               PROVE  FALSE
    BY <1>3, <1>4
  <2>1. Q * P <= y * P
    BY <1>1, <1>3, <1>4, SMT
  <2>2. Q * P \in Nat /\ y * P \in Nat
    BY <1>1, <1>3, <1>4, SMT
  <2> QED BY <1>2, <1>3, <1>4, <2>1, <2>2
<1>6. y * P + P <= N
  <2>1. (y + 1) * P <= Q * P
    BY <1>1, <1>3, <1>4, <1>5, SMT
  <2>2. (y + 1) * P = y * P + P
    BY <1>1, <1>3, SMT
  <2> QED BY <1>4, <2>1, <2>2
<1>7. y * P \in Nat
  BY <1>1, <1>3, SMT
<1>8. m0 \in Months /\ m0 - 1 = y * P + i /\ m0 - 1 \in Nat
  <2> DEFINE a == y * P
  <2>1. a \in Nat /\ a + P <= N
    BY <1>6, <1>7
  <2> HIDE DEF a
  <2>2. a + i + 1 \in Months /\ (a + i + 1) - 1 = a + i /\ a + i \in Nat
    BY <1>1, <1>3, <2>1
  <2> QED BY <2>2 DEF a
<1>9. (m0 - 1) \div P = y /\ (m0 - 1) % P = i
  <2> HIDE DEF m0
  <2> QED BY <1>1, <1>3, <1>8, Quotients
<1>10. InYearOf(m0, n, k)
  <2> HIDE DEF m0
  <2> QED BY <1>9 DEF InYearOf, YearOf, MonthOfYear, y, i, P
<1>11. ASSUME NEW m \in Months, NEW j \in Months, InYearOf(m, n, k), InYearOf(j, n, k)
       PROVE  m = j
  <2>1. (m - 1) \div P = (j - 1) \div P /\ (m - 1) % P = (j - 1) % P
    BY <1>11 DEF InYearOf, YearOf, MonthOfYear, P
  <2>2. m - 1 \in Nat /\ j - 1 \in Nat /\ m \in Nat /\ j \in Nat
    BY <1>1
  <2>3. m - 1 = ((m - 1) \div P) * P + ((m - 1) % P) /\ j - 1 = ((j - 1) \div P) * P + ((j - 1) % P)
    BY <1>1, <2>2, Quotients
  <2>4. m - 1 = j - 1
    BY <2>1, <2>3
  <2> QED BY <2>2, <2>4
<1> QED BY <1>8, <1>10, <1>11

\* The day of the week that a payment falls on, not after today and less than a week before.
LEMMA WeekDay ==
    ASSUME MandatoryAssumption, NEW first \in Nat, NEW today \in Nat, first <= today
    PROVE  LET r == (today - first) % WeekLength
           IN  /\ r \in Nat /\ r < WeekLength /\ first <= today - r
               /\ \E k \in 0 .. today : today - r = first + k * WeekLength
               /\ \A d \in Nat, k \in Nat :
                     d = first + k * WeekLength /\ d <= today /\ today - d < WeekLength
                        => d = today - r
<1> DEFINE W == WeekLength
           n == today - first
           q == n \div W
           r == n % W
<1>1. W \in Nat \ {0} /\ n \in Nat /\ today = first + n
  BY DEF MandatoryAssumption
<1> HIDE DEF W, n
<1>2. q \in Nat /\ r \in Nat /\ r < W /\ n = q * W + r /\ q <= n /\ q * W \in Nat
  <2>1. q \in Nat /\ r \in Nat /\ r < W /\ n = q * W + r /\ q <= n
    BY <1>1, Quotients
  <2>2. q * W \in Nat
    BY <1>1, <2>1, SMT
  <2> QED BY <2>1, <2>2
<1> HIDE DEF q, r
<1> DEFINE a == q * W
<1>3. today - r = first + a /\ first <= today - r /\ q \in 0 .. today
  <2>1. a \in Nat /\ n = a + r
    BY <1>2
  <2> HIDE DEF a
  <2> QED BY <1>1, <1>2, <2>1
<1>4. ASSUME NEW d \in Nat, NEW k \in Nat, d = first + k * W, d <= today, today - d < W
      PROVE  d = today - r
  <2> DEFINE b == k * W
  <2>1. b \in Nat
    BY <1>1, SMT
  <2>2. d = first + b
    BY <1>4
  <2> HIDE DEF b
  <2>3. n = b + (today - d) /\ today - d \in Nat /\ today - d < W
    BY <1>1, <1>4, <2>1, <2>2
  <2> DEFINE e == today - d
  <2>4. e \in Nat /\ e < W /\ n = k * W + e
    BY <2>3 DEF b
  <2> HIDE DEF e
  <2>5. e = n % W
    BY <1>1, <2>4, Quotients
  <2>6. today - d = r
    BY <2>5 DEF e, r
  <2> QED BY <2>3, <2>6, <1>1
<1> QED BY <1>2, <1>3, <1>4 DEF W, n, r

\* May a payment be booked on this day?
MayBook(t, today, d) == AutoPay(t) /\ t.date <= today /\ t.date <= d /\ d <= today

Anchored(t, today) ==
    CHOOSE m \in Months : InYearOf(m, MonthOf(today), MonthOf(t.date))

\* The day that the code computes, before it looks whether it may book on it.
Computed(t, today) ==
    CASE t.period = "daily"   -> today
      [] t.period = "weekly"  -> today - ((today - t.date) % WeekLength)
      [] t.period = "monthly" -> Clamped(t.date, MonthOf(today))
      [] t.period = "yearly"  -> Clamped(t.date, Anchored(t, today))

\* TargetDate is the day computed where a payment may be booked on it.
LEMMA TargetIsComputed ==
    ASSUME NEW t, NEW today
    PROVE  TargetDate(t, today) =
              IF MayBook(t, today, Computed(t, today)) THEN Computed(t, today) ELSE NoDate
BY DEF TargetDate, MayBook, Computed, Anchored, InYearOf

\* Where the payment may be booked, it falls, and in the current period.
LEMMA ComputedIsDue ==
    ASSUME MandatoryAssumption, NEW t \in Template, NEW today \in Days,
           MayBook(t, today, Computed(t, today))
    PROVE  Computed(t, today) \in DueDays(t, today)
<1> DEFINE c == Computed(t, today)
           n == MonthOf(today)
<1>1. AutoPay(t) /\ t.date <= today /\ t.date <= c /\ c <= today /\ t.date \in Days
  BY DEF MayBook, Template, AutoPay
<1>2. today \in Nat /\ t.date \in Nat /\ Days = 1 .. Cardinality(Days) /\ Cardinality(Days) \in Nat
  BY <1>1, DaysOfMonths
<1>3. n \in Months /\ MonthOf(t.date) \in Months
  BY <1>1, MonthOfDay
<1>4. CASE t.period = "daily"
  <2>1. c = today
    BY <1>4 DEF Computed
  <2> QED BY <1>1, <1>4, <2>1 DEF DueDays, CurrentPeriod, Falls
<1>5. CASE t.period = "weekly"
  <2>1. c = today - ((today - t.date) % WeekLength)
    BY <1>5 DEF Computed
  <2> DEFINE r == (today - t.date) % WeekLength
  <2>2. r \in Nat /\ r < WeekLength /\ \E k \in 0 .. today : today - r = t.date + k * WeekLength
    BY <1>1, <1>2, WeekDay
  <2> HIDE DEF r
  <2>3. c = today - r
    BY <2>1 DEF r
  <2> HIDE DEF c
  <2>4. today - c < WeekLength /\ c \in Days
    <3>1. WeekLength \in Nat
      BY DEF MandatoryAssumption
    <3> QED BY <1>1, <1>2, <2>2, <2>3, <3>1
  <2>5. \E k \in 0 .. Cardinality(Days) : c = t.date + k * WeekLength
    BY <1>2, <2>2, <2>3
  <2>6. Falls(t, c)
    BY <1>1, <1>5, <2>5 DEF Falls
  <2>7. c \in CurrentPeriod(t, today)
    BY <1>1, <1>5, <2>4 DEF CurrentPeriod
  <2> QED BY <2>6, <2>7 DEF DueDays, c
<1>6. CASE t.period = "monthly"
  <2>1. c = Clamped(t.date, n)
    BY <1>6 DEF Computed
  <2>2. c \in Days /\ MonthOf(c) = n /\ SameDay(t.date, c)
    BY <1>1, <1>3, <2>1, ClampedIsSameDay
  <2> HIDE DEF c, n
  <2>3. Falls(t, c)
    BY <1>1, <1>6, <2>2 DEF Falls, SameDay
  <2>4. c \in CurrentPeriod(t, today)
    BY <1>1, <1>6, <2>2 DEF CurrentPeriod, n
  <2> QED BY <2>3, <2>4 DEF DueDays, c
<1>7. CASE t.period = "yearly"
  <2> DEFINE m == Anchored(t, today)
  <2>1. c = Clamped(t.date, m)
    BY <1>7 DEF Computed
  <2>2. m \in Months /\ InYearOf(m, n, MonthOf(t.date))
    BY <1>3, MonthInYear DEF Anchored
  <2>3. c \in Days /\ MonthOf(c) = m /\ SameDay(t.date, c)
    BY <1>1, <2>1, <2>2, ClampedIsSameDay
  <2> HIDE DEF c, n, m
  <2>4. Falls(t, c)
    BY <1>1, <1>7, <2>2, <2>3 DEF Falls, SameDay, InYearOf
  <2>5. c \in CurrentPeriod(t, today)
    BY <1>1, <1>7, <2>2, <2>3 DEF CurrentPeriod, InYearOf, n
  <2> QED BY <2>4, <2>5 DEF DueDays, c
<1> QED BY <1>4, <1>5, <1>6, <1>7 DEF Template, Periods

\* What falls in the current period is the day that the code computes.
LEMMA DueIsComputed ==
    ASSUME MandatoryAssumption, NEW t \in Template, NEW today \in Days,
           NEW d \in DueDays(t, today)
    PROVE  d \in Days /\ MayBook(t, today, d) /\ d = Computed(t, today)
<1>1. d \in Days /\ d <= today /\ AutoPay(t) /\ t.date <= d /\ t.date \in Days
  BY DEF DueDays, CurrentPeriod, Falls, Template, AutoPay
<1>2. today \in Nat /\ t.date \in Nat /\ d \in Nat
  BY <1>1, DaysOfMonths
<1>3. MayBook(t, today, d)
  BY <1>1, <1>2 DEF MayBook
<1>4. CASE t.period = "daily"
  BY <1>1, <1>3, <1>4 DEF Computed, DueDays, CurrentPeriod
<1>5. CASE t.period = "weekly"
  <2>1. today - d < WeekLength
    BY <1>5 DEF DueDays, CurrentPeriod
  <2>2. PICK k \in 0 .. Cardinality(Days) : d = t.date + k * WeekLength
    BY <1>5 DEF DueDays, Falls
  <2>3. k \in Nat
    OBVIOUS
  <2> DEFINE first == t.date
  <2>a. first \in Nat /\ first <= today
    BY <1>1, <1>2
  <2>b. d = first + k * WeekLength
    BY <2>2
  <2> HIDE DEF first
  <2>c. d = today - ((today - first) % WeekLength)
    BY <1>1, <1>2, <2>1, <2>3, <2>a, <2>b, WeekDay
  <2>4. d = today - ((today - t.date) % WeekLength)
    BY <2>c DEF first
  <2> QED BY <1>1, <1>3, <1>5, <2>4 DEF Computed
<1>6. CASE t.period = "monthly"
  <2>1. MonthOf(d) = MonthOf(today)
    BY <1>6 DEF DueDays, CurrentPeriod
  <2>2. SameDay(t.date, d)
    BY <1>6 DEF DueDays, Falls, SameDay
  <2>3. d = Clamped(t.date, MonthOf(today))
    BY <1>1, <2>1, <2>2, SameDayIsClamped
  <2> QED BY <1>1, <1>3, <1>6, <2>3 DEF Computed
<1>7. CASE t.period = "yearly"
  <2> DEFINE m == MonthOf(d)
  <2>1. YearOf(m) = YearOf(MonthOf(today)) /\ MonthOfYear(m) = MonthOfYear(MonthOf(t.date))
    BY <1>7 DEF DueDays, CurrentPeriod, Falls
  <2>2. SameDay(t.date, d)
    BY <1>7 DEF DueDays, Falls, SameDay
  <2>3. d = Clamped(t.date, m)
    BY <1>1, <2>2, SameDayIsClamped
  <2>4. m \in Months /\ MonthOf(today) \in Months /\ MonthOf(t.date) \in Months
    BY <1>1, MonthOfDay
  <2>5. m = Anchored(t, today)
    <3> HIDE DEF m
    <3>1. InYearOf(m, MonthOf(today), MonthOf(t.date))
      BY <2>1 DEF InYearOf
    <3> QED BY <2>4, <3>1, MonthInYear DEF Anchored
  <2> QED BY <1>1, <1>3, <1>7, <2>3, <2>5 DEF Computed
<1> QED BY <1>1, <1>3, <1>4, <1>5, <1>6, <1>7 DEF Template, Periods

\* A payment is due on the date that the code takes, and on no other day.
THEOREM TargetIsDue ==
    ASSUME MandatoryAssumption, NEW t \in Template, NEW today \in Days
    PROVE  /\ TargetDate(t, today) # NoDate =>
                 TargetDate(t, today) \in Days /\ TargetDate(t, today) \in DueDays(t, today)
           /\ \A d \in DueDays(t, today) : TargetDate(t, today) # NoDate /\ TargetDate(t, today) = d
<1>1. ASSUME TargetDate(t, today) # NoDate
      PROVE  TargetDate(t, today) \in Days /\ TargetDate(t, today) \in DueDays(t, today)
  <2>1. MayBook(t, today, Computed(t, today)) /\ TargetDate(t, today) = Computed(t, today)
    BY <1>1, TargetIsComputed
  <2> QED BY <2>1, ComputedIsDue, DueIsComputed
<1>2. ASSUME NEW d \in DueDays(t, today)
      PROVE  TargetDate(t, today) # NoDate /\ TargetDate(t, today) = d
  <2>1. d \in Days /\ MayBook(t, today, d) /\ d = Computed(t, today)
    BY DueIsComputed
  <2>2. TargetDate(t, today) = d
    BY <2>1, TargetIsComputed
  <2>3. d # NoDate
    <3>1. Days = 1 .. Cardinality(Days) /\ Cardinality(Days) \in Nat
      BY DaysOfMonths
    <3> QED BY <2>1, <3>1 DEF NoDate
  <2> QED BY <2>2, <2>3
<1> QED BY <1>1, <1>2

-----------------------------------------------------------------------------
\* A bag with one member more.
LEMMA BagAdded ==
    ASSUME NEW B, IsABag(B), NEW b
    PROVE  LET C == B (+) SetToBag({b})
           IN  /\ IsABag(C) /\ BagToSet(C) = BagToSet(B) \cup {b}
               /\ \A x \in BagToSet(C (-) B) : x = b
<1> DEFINE C == B (+) SetToBag({b})
           S == SetToBag({b})
           Take == [e \in DOMAIN C |-> IF e \in DOMAIN B THEN C[e] - B[e] ELSE C[e]]
<1>1. DOMAIN S = {b} /\ S[b] = 1 /\ \A e \in DOMAIN B : B[e] \in Nat /\ B[e] > 0
  BY DEF SetToBag, IsABag
<1>2. C = [e \in (DOMAIN B) \cup (DOMAIN S) |->
              (IF e \in DOMAIN B THEN B[e] ELSE 0) + (IF e \in DOMAIN S THEN S[e] ELSE 0)]
  BY DEF (+)
<1> HIDE DEF C, S
<1>3. DOMAIN C = DOMAIN B \cup {b} /\ \A e \in DOMAIN C : C[e] \in {n \in Nat : n > 0}
  BY <1>1, <1>2
<1>4. C \in [DOMAIN C -> {n \in Nat : n > 0}]
  BY <1>2, <1>3
<1>5. C (-) B = [e \in {d \in DOMAIN Take : Take[d] > 0} |-> Take[e]]
  BY DEF (-)
<1>6. \A e \in DOMAIN Take : Take[e] > 0 => e = b
  BY <1>1, <1>2, <1>3
<1> HIDE DEF Take
<1>7. \A x \in DOMAIN (C (-) B) : x = b
  BY <1>5, <1>6
<1> QED BY <1>3, <1>4, <1>7 DEF C, S, IsABag, BagToSet

\* A bag with one member less.
LEMMA BagTaken ==
    ASSUME NEW B, IsABag(B), NEW b
    PROVE  LET C == B (-) SetToBag({b})
           IN  IsABag(C) /\ BagToSet(C) \subseteq BagToSet(B)
<1> DEFINE S == SetToBag({b})
           C == B (-) SetToBag({b})
           Take == [e \in DOMAIN B |-> IF e \in DOMAIN S THEN B[e] - S[e] ELSE B[e]]
<1>1. DOMAIN S = {b} /\ S[b] = 1 /\ \A e \in DOMAIN B : B[e] \in Nat /\ B[e] > 0
  BY DEF SetToBag, IsABag
<1>2. C = [e \in {d \in DOMAIN Take : Take[d] > 0} |-> Take[e]]
  BY DEF (-)
<1> HIDE DEF C, S
<1>3. DOMAIN Take = DOMAIN B /\ \A e \in DOMAIN Take : Take[e] \in Int
  BY <1>1
<1> HIDE DEF Take
<1>4. DOMAIN C \subseteq DOMAIN B /\ \A e \in DOMAIN C : C[e] \in {n \in Nat : n > 0}
  BY <1>2, <1>3
<1>5. C \in [DOMAIN C -> {n \in Nat : n > 0}]
  BY <1>2, <1>4
<1> QED BY <1>4, <1>5 DEF C, S, IsABag, BagToSet

MandatoryTypes ==
    /\ day \in Days
    /\ active \in SUBSET Wallets /\ SystemWallet \in active
    /\ templates \in Seq(Template) /\ Len(templates) <= MaxTemplates
    /\ IsABag(records) /\ BagToSet(records) \in SUBSET Booking
    /\ open \in BOOLEAN
    /\ job \in [running : BOOLEAN, today : Days, todo : Seq(Template), seen : SUBSET Booking]

\* The worker at rest has its types.
LEMMA NoJobTyped ==
    ASSUME MandatoryAssumption
    PROVE  1 \in Days /\ ~NoJob.running /\
           NoJob \in [running : BOOLEAN, today : Days, todo : Seq(Template), seen : SUBSET Booking]
<1>1. 1 \in Days
  BY DaysOfMonths
<1>2. <<>> \in Seq(Template)
  OBVIOUS
<1> QED BY <1>1, <1>2 DEF NoJob

\* A booking more, or less, changes nothing else.
LEMMA RecordSaved ==
    ASSUME MandatoryTypes, NEW b \in Booking, records' = Save(b)
    PROVE  /\ IsABag(records') /\ BagToSet(records') \in SUBSET Booking
           /\ BagToSet(records') = BagToSet(records) \cup {b}
           /\ \A x \in BagToSet(records' (-) records) : x = b
<1>1. IsABag(records) /\ BagToSet(records) \in SUBSET Booking
  BY DEF MandatoryTypes
<1>2. /\ IsABag(records') /\ BagToSet(records') = BagToSet(records) \cup {b}
      /\ \A x \in BagToSet(records' (-) records) : x = b
  BY <1>1, BagAdded DEF Save
<1> QED BY <1>1, <1>2

\* What the worker does next, and with what.
LEMMA NextPayment ==
    ASSUME MandatoryAssumption, MandatoryTypes, ApplyNext
    PROVE  LET t == Head(job.todo)
               target == TargetDate(t, job.today)
               booking == BookingOf(t, t.wallet, target)
           IN  /\ job.running /\ open /\ t \in Template /\ job.today \in Days
               /\ target # NoDate => booking \in Booking
               /\ \/ /\ target = NoDate \/ booking \in job.seen
                     /\ job' = [job EXCEPT !.todo = Tail(job.todo)]
                     /\ UNCHANGED records
                  \/ /\ target # NoDate /\ booking \notin job.seen
                     /\ job' = [job EXCEPT !.todo = Tail(job.todo), !.seen = job.seen \cup {booking}]
                     /\ records' = Save(booking)
               /\ Len(job.todo) \in Nat /\ Len(job.todo) # 0 /\ t = job.todo[1]
               /\ Tail(job.todo) \in Seq(Template) /\ Len(Tail(job.todo)) = Len(job.todo) - 1
               /\ \A j \in 1 .. Len(job.todo) - 1 : Tail(job.todo)[j] = job.todo[j + 1]
<1> DEFINE t == Head(job.todo)
           target == TargetDate(t, job.today)
           booking == BookingOf(t, t.wallet, target)
<1>1. job.running /\ open /\ job.todo # <<>> /\ job.todo \in Seq(Template) /\ job.today \in Days
  BY DEF ApplyNext, MandatoryTypes
<1>2. t \in Template /\ Len(job.todo) \in Nat /\ Len(job.todo) # 0 /\ t = job.todo[1]
  BY <1>1, HeadTailProperties, EmptySeq, LenProperties
<1>3. /\ Tail(job.todo) \in Seq(Template) /\ Len(Tail(job.todo)) = Len(job.todo) - 1
      /\ \A j \in 1 .. Len(job.todo) - 1 : Tail(job.todo)[j] = job.todo[j + 1]
  BY <1>1, HeadTailProperties
<1>4. target # NoDate => booking \in Booking
  <2>1. target # NoDate => target \in Days
    BY <1>1, <1>2, TargetIsDue
  <2> HIDE DEF target, t
  <2> QED BY <1>2, <2>1 DEF BookingOf, Booking, Template
<1>5. \/ /\ target = NoDate \/ booking \in job.seen
         /\ job' = [job EXCEPT !.todo = Tail(job.todo)]
         /\ UNCHANGED records
      \/ /\ target # NoDate /\ booking \notin job.seen
         /\ job' = [job EXCEPT !.todo = Tail(job.todo), !.seen = job.seen \cup {booking}]
         /\ records' = Save(booking)
  BY DEF ApplyNext, MandatoryTypes
<1> QED BY <1>1, <1>2, <1>3, <1>4, <1>5

\* The types hold at first ...
LEMMA MandatoryTypesStart == ASSUME MandatoryAssumption, MandatoryInit PROVE MandatoryTypes
<1>1. IsABag(EmptyBag) /\ BagToSet(EmptyBag) = {}
  BY DEF EmptyBag, SetToBag, IsABag, BagToSet
<1>2. <<>> \in Seq(Template) /\ Len(<<>>) = 0 /\ MaxTemplates \in Nat /\ SystemWallet \in Wallets
  BY DEF MandatoryAssumption
<1> QED BY <1>1, <1>2, NoJobTyped DEF MandatoryInit, MandatoryTypes

\* What a step of the user does: templates, wallets or records, and never the worker.
LEMMA UserStep ==
    ASSUME MandatoryAssumption, MandatoryTypes,
           \/ \E w \in Wallets, n \in Names, p \in Periods, d \in Dates \cup {NoDate} :
                 CreateMandatoryExpense(w, n, p, d)
           \/ \E i \in DOMAIN templates :
                 \/ \E d \in Dates \cup {NoDate} : UpdateDate(i, d)
                 \/ \E p \in Periods : UpdatePeriod(i, p)
                 \/ \E w \in Wallets : UpdateWallet(i, w)
                 \/ DeleteTemplate(i)
                 \/ \E w \in Wallets, d \in Dates : AddToReport(i, w, d)
           \/ DeleteAllTemplates
           \/ \E w \in Wallets, n \in Names, p \in Periods : CreateBooking(w, n, p)
           \/ \E b \in BagToSet(records) : DeleteBooking(b)
           \/ \E w \in Wallets : SoftDeleteWallet(w)
    PROVE  Reachable /\ UNCHANGED job /\ MandatoryTypes'
<1> USE DEF MandatoryTypes
<1>1. ASSUME NEW w \in Wallets, NEW n \in Names, NEW p \in Periods, NEW d \in Dates \cup {NoDate},
             CreateMandatoryExpense(w, n, p, d)
      PROVE  Reachable /\ UNCHANGED job /\ MandatoryTypes'
  <2> DEFINE t == [wallet |-> w, name |-> n, period |-> p, date |-> d]
  <2>1. t \in Template
    BY DEF Template, MandatoryAssumption
  <2>2. templates' = Append(templates, t) /\ Len(templates) < MaxTemplates
    BY <1>1 DEF CreateMandatoryExpense
  <2> HIDE DEF t
  <2>3. templates' \in Seq(Template) /\ Len(templates') = Len(templates) + 1
    BY <2>1, <2>2, AppendProperties
  <2>4. Len(templates) \in Nat /\ MaxTemplates \in Nat
    BY LenProperties DEF MandatoryAssumption
  <2> QED BY <1>1, <2>2, <2>3, <2>4 DEF CreateMandatoryExpense
<1>2. ASSUME NEW i \in DOMAIN templates, NEW changed \in Template, UpdateTemplate(i, changed)
      PROVE  Reachable /\ UNCHANGED job /\ MandatoryTypes'
  <2>1. templates' = [templates EXCEPT ![i] = changed]
    BY <1>2 DEF UpdateTemplate
  <2>2. templates' \in Seq(Template) /\ Len(templates') = Len(templates)
    BY <2>1, ExceptSeq
  <2> QED BY <1>2, <2>2 DEF UpdateTemplate
<1>3. \A i \in DOMAIN templates : templates[i] \in Template
  BY ElementOfSeq
<1>4. ASSUME NEW i \in DOMAIN templates, NEW d \in Dates \cup {NoDate}, UpdateDate(i, d)
      PROVE  Reachable /\ UNCHANGED job /\ MandatoryTypes'
  <2>1. [templates[i] EXCEPT !.date = d] \in Template
    BY <1>3 DEF Template, MandatoryAssumption
  <2> QED BY <1>2, <1>4, <2>1 DEF UpdateDate
<1>5. ASSUME NEW i \in DOMAIN templates, NEW p \in Periods, UpdatePeriod(i, p)
      PROVE  Reachable /\ UNCHANGED job /\ MandatoryTypes'
  <2>1. [templates[i] EXCEPT !.period = p] \in Template
    BY <1>3 DEF Template
  <2> QED BY <1>2, <1>5, <2>1 DEF UpdatePeriod
<1>6. ASSUME NEW i \in DOMAIN templates, NEW w \in Wallets, UpdateWallet(i, w)
      PROVE  Reachable /\ UNCHANGED job /\ MandatoryTypes'
  <2>1. [templates[i] EXCEPT !.wallet = w] \in Template
    BY <1>3 DEF Template
  <2> QED BY <1>2, <1>6, <2>1 DEF UpdateWallet
<1>7. ASSUME NEW i \in DOMAIN templates, DeleteTemplate(i)
      PROVE  Reachable /\ UNCHANGED job /\ MandatoryTypes'
  <2> DEFINE n == Len(templates)
             before == SubSeq(templates, 1, i - 1)
             after == SubSeq(templates, i + 1, n)
  <2>1. n \in Nat /\ i \in 1 .. n
    BY LenProperties
  <2>2. before \in Seq(Template) /\ Len(before) = i - 1
    <3>1. \A k \in 1 .. i - 1 : templates[k] \in Template
      BY <1>3, <2>1
    <3> QED BY <2>1, SubSeqProperties
  <2>3. after \in Seq(Template) /\ Len(after) = n - i
    <3>1. \A k \in i + 1 .. n : templates[k] \in Template
      BY <1>3, <2>1
    <3> QED BY <2>1, SubSeqProperties
  <2>4. templates' = before \o after
    BY <1>7 DEF DeleteTemplate
  <2> HIDE DEF before, after
  <2>5. templates' \in Seq(Template) /\ Len(templates') = Len(before) + Len(after)
    BY <2>2, <2>3, <2>4, ConcatProperties
  <2>6. Len(templates') <= MaxTemplates
    <3>1. MaxTemplates \in Nat
      BY DEF MandatoryAssumption
    <3> QED BY <2>1, <2>2, <2>3, <2>5, <3>1
  <2> QED BY <1>7, <2>5, <2>6 DEF DeleteTemplate
<1>8. ASSUME NEW b \in Booking, records' = Save(b), Reachable,
             UNCHANGED <<day, active, templates, open, job>>
      PROVE  Reachable /\ UNCHANGED job /\ MandatoryTypes'
  BY <1>8, RecordSaved
<1>9. ASSUME NEW i \in DOMAIN templates, NEW w \in Wallets, NEW d \in Dates, AddToReport(i, w, d)
      PROVE  Reachable /\ UNCHANGED job /\ MandatoryTypes'
  <2>1. BookingOf(templates[i], w, d) \in Booking
    BY <1>3 DEF BookingOf, Booking, Template, MandatoryAssumption
  <2> QED BY <1>8, <1>9, <2>1 DEF AddToReport
<1>10. ASSUME DeleteAllTemplates
       PROVE  Reachable /\ UNCHANGED job /\ MandatoryTypes'
  <2>1. <<>> \in Seq(Template) /\ Len(<<>>) = 0 /\ MaxTemplates \in Nat
    BY DEF MandatoryAssumption
  <2> QED BY <1>10, <2>1 DEF DeleteAllTemplates
<1>11. ASSUME NEW w \in Wallets, NEW n \in Names, NEW p \in Periods, CreateBooking(w, n, p)
       PROVE  Reachable /\ UNCHANGED job /\ MandatoryTypes'
  <2>1. [wallet |-> w, name |-> n, period |-> p, date |-> day] \in Booking
    BY DEF Booking
  <2> QED BY <1>8, <1>11, <2>1 DEF CreateBooking
<1>12. ASSUME NEW b \in BagToSet(records), DeleteBooking(b)
       PROVE  Reachable /\ UNCHANGED job /\ MandatoryTypes'
  <2>1. IsABag(records') /\ BagToSet(records') \subseteq BagToSet(records)
    BY <1>12, BagTaken DEF DeleteBooking
  <2> QED BY <1>12, <2>1 DEF DeleteBooking
<1>13. ASSUME NEW w \in Wallets, SoftDeleteWallet(w)
       PROVE  Reachable /\ UNCHANGED job /\ MandatoryTypes'
  BY <1>13 DEF SoftDeleteWallet
<1> QED BY <1>1, <1>4, <1>5, <1>6, <1>7, <1>9, <1>10, <1>11, <1>12, <1>13

\* ... and every step keeps them.
LEMMA MandatoryTypesStep ==
    ASSUME MandatoryAssumption, MandatoryTypes, [MandatoryNext]_mandatoryVars
    PROVE  MandatoryTypes'
<1>1. CASE StartApplication
  <2>1. job' = [running |-> TRUE, today |-> day, todo |-> templates, seen |-> BagToSet(records)]
    BY <1>1 DEF StartApplication
  <2> QED BY <1>1, <2>1 DEF StartApplication, MandatoryTypes
<1>2. CASE ApplyNext
  <2> DEFINE t == Head(job.todo)
             booking == BookingOf(t, t.wallet, TargetDate(t, job.today))
  <2>1. /\ UNCHANGED <<day, active, templates, open>> /\ Tail(job.todo) \in Seq(Template)
        /\ \/ job' = [job EXCEPT !.todo = Tail(job.todo)] /\ UNCHANGED records
           \/ /\ job' = [job EXCEPT !.todo = Tail(job.todo), !.seen = job.seen \cup {booking}]
              /\ records' = Save(booking) /\ booking \in Booking
    <3>1. UNCHANGED <<day, active, templates, open>>
      BY <1>2 DEF ApplyNext
    <3> QED BY <1>2, <3>1, NextPayment
  <2> HIDE DEF booking
  <2> QED BY <2>1, RecordSaved DEF MandatoryTypes
<1>3. CASE ApplyDone
  BY <1>3, NoJobTyped DEF ApplyDone, MandatoryTypes
<1>4. CASE StopApplication
  BY <1>4, NoJobTyped DEF StopApplication, MandatoryTypes
<1>5. CASE NextDay
  BY <1>5 DEF NextDay, MandatoryTypes
<1>6. CASE UNCHANGED mandatoryVars
  BY <1>6 DEF mandatoryVars, MandatoryTypes
<1> QED BY <1>1, <1>2, <1>3, <1>4, <1>5, <1>6, UserStep DEF MandatoryNext

\* Templates, bookings and what the worker carries are of their types, and the system wallet
\* stays active (MandatoryTypeOK).
THEOREM MandatoryTyped == ASSUME MandatoryAssumption PROVE MandatorySpec => []MandatoryTypeOK
<1>1. MandatoryTypes => MandatoryTypeOK
  BY DEF MandatoryTypes, MandatoryTypeOK
<1> QED BY <1>1, MandatoryTypesStart, MandatoryTypesStep, PTL DEF MandatorySpec

-----------------------------------------------------------------------------
\* The payment of a template is booked, if it is due on that day.
Booked(t, today) ==
    LET d == TargetDate(t, today)
    IN  d # NoDate => BookingOf(t, t.wallet, d) \in BagToSet(records)

\* After k templates, those to do are the others, and what was due of the first is booked.
AppliedSome(k) ==
    /\ Len(job.todo) = Len(templates) - k
    /\ \A j \in 1 .. Len(job.todo) : job.todo[j] = templates[k + j]
    /\ \A i \in 1 .. k : Booked(templates[i], job.today)

\* While the worker runs it knows all bookings.
Applying ==
    job.running =>
        /\ job.seen = BagToSet(records)
        /\ \E k \in 0 .. Len(templates) : AppliedSome(k)

MandatoryInv == MandatoryTypes /\ Applying

NewOnly ==
    job.running /\ records' # records =>
        \A b \in BagToSet(records' (-) records) : ~BagIn(b, records)

DueOnly ==
    job.running /\ records' # records =>
        \A b \in BagToSet(records' (-) records) : \E i \in DOMAIN templates :
            /\ b = BookingOf(templates[i], templates[i].wallet, b.date)
            /\ b.date \in DueDays(templates[i], job.today)

AllDue ==
    ApplyDone => \A i \in DOMAIN templates : \A d \in DueDays(templates[i], job.today) :
        BagIn(BookingOf(templates[i], templates[i].wallet, d), records)

\* A step of the worker keeps Applying, and books what is new and due.
LEMMA PaymentApplied ==
    ASSUME MandatoryAssumption, MandatoryInv, ApplyNext
    PROVE  Applying' /\ NewOnly /\ DueOnly
<1> DEFINE t == Head(job.todo)
           today == job.today
           target == TargetDate(t, today)
           booking == BookingOf(t, t.wallet, target)
<1>1. MandatoryTypes /\ job.running /\ job.seen = BagToSet(records)
  BY NextPayment DEF MandatoryInv, Applying
<1>2. PICK k \in 0 .. Len(templates) : AppliedSome(k)
  BY <1>1 DEF MandatoryInv, Applying
<1>3. /\ t \in Template /\ today \in Days
      /\ target # NoDate => booking \in Booking
      /\ \/ /\ target = NoDate \/ booking \in job.seen
            /\ job' = [job EXCEPT !.todo = Tail(job.todo)]
            /\ UNCHANGED records
         \/ /\ target # NoDate /\ booking \notin job.seen
            /\ job' = [job EXCEPT !.todo = Tail(job.todo), !.seen = job.seen \cup {booking}]
            /\ records' = Save(booking)
  BY <1>1, NextPayment
<1>4. /\ Len(job.todo) \in Nat /\ Len(job.todo) # 0 /\ t = job.todo[1]
      /\ Len(Tail(job.todo)) = Len(job.todo) - 1
      /\ \A j \in 1 .. Len(job.todo) - 1 : Tail(job.todo)[j] = job.todo[j + 1]
  BY <1>1, NextPayment
<1>5. templates' = templates
  BY DEF ApplyNext
<1>6. Len(templates) \in Nat /\ DOMAIN templates = 1 .. Len(templates)
  BY <1>1, LenProperties DEF MandatoryTypes
<1>7. t = templates[k + 1] /\ k + 1 \in 0 .. Len(templates) /\ k + 1 \in DOMAIN templates
  <2> DEFINE n == Len(templates)
             l == Len(job.todo)
  <2>1. l = n - k /\ \A j \in 1 .. l : job.todo[j] = templates[k + j]
    BY <1>2 DEF AppliedSome
  <2>2. n \in Nat /\ k \in 0 .. n /\ l \in Nat /\ l # 0 /\ DOMAIN templates = 1 .. n
    BY <1>2, <1>4, <1>6
  <2>3. t = job.todo[1]
    BY <1>4
  <2> HIDE DEF n, l, t
  <2>4. 1 \in 1 .. l /\ k + 1 \in 0 .. n /\ k + 1 \in 1 .. n
    BY <2>1, <2>2
  <2> QED BY <2>1, <2>2, <2>3, <2>4 DEF n
<1>13. Len(job.todo) = Len(templates) - k /\ k \in Nat
  <2>1. Len(job.todo) = Len(templates) - k
    BY <1>2 DEF AppliedSome
  <2>2. \A n \in Nat : \A x \in 0 .. n : x \in Nat
    OBVIOUS
  <2> QED BY <1>2, <1>6, <2>1, <2>2
<1> HIDE DEF booking, target, t, today
<1>8. /\ job'.todo = Tail(job.todo) /\ job'.today = today /\ job'.running
      /\ BagToSet(records') = BagToSet(records) \cup (job'.seen \ job.seen)
      /\ job'.seen = BagToSet(records')
      /\ target # NoDate => booking \in BagToSet(records')
  <2>1. job \in [running : BOOLEAN, today : Days, todo : Seq(Template), seen : SUBSET Booking]
    BY <1>1 DEF MandatoryTypes
  <2>2. CASE job' = [job EXCEPT !.todo = Tail(job.todo)] /\ UNCHANGED records
             /\ (target = NoDate \/ booking \in job.seen)
    BY <1>1, <2>1, <2>2 DEF today
  <2>3. CASE /\ job' = [job EXCEPT !.todo = Tail(job.todo), !.seen = job.seen \cup {booking}]
             /\ records' = Save(booking) /\ target # NoDate /\ booking \notin job.seen
    <3>1. BagToSet(records') = BagToSet(records) \cup {booking}
      BY <1>1, <1>3, <2>3, RecordSaved
    <3> QED BY <1>1, <2>1, <2>3, <3>1 DEF today
  <2> QED BY <1>3, <2>2, <2>3
<1>9. Applying'
  <2>1. \A i \in 1 .. k : Booked(templates[i], today)'
    <3>1. \A i \in 1 .. k : Booked(templates[i], today)
      BY <1>2 DEF AppliedSome, today
    <3> QED BY <1>5, <1>8, <3>1 DEF Booked, today
  <2>2. Booked(templates[k + 1], today)'
    <3>1. templates'[k + 1] = t /\ today' = today
      BY <1>5, <1>7, <1>8 DEF today
    <3>2. TargetDate(t, today) # NoDate =>
             BookingOf(t, t.wallet, TargetDate(t, today)) \in BagToSet(records')
      BY <1>8 DEF booking, target
    <3> QED BY <3>1, <3>2 DEF Booked
  <2>3. AppliedSome(k + 1)'
    <3>1. Len(job'.todo) = Len(templates') - (k + 1)
      <4>1. Len(job.todo) = Len(templates) - k /\ k \in Nat
        BY <1>13
      <4>2. Len(job'.todo) = Len(job.todo) - 1 /\ Len(templates') = Len(templates)
        BY <1>4, <1>5, <1>8
      <4> DEFINE n == Len(templates)
                 l == Len(job.todo)
      <4>a. n \in Nat /\ k \in Nat /\ l = n - k
        BY <1>6, <4>1
      <4> HIDE DEF n, l
      <4>b. l - 1 = n - (k + 1)
        BY <4>a
      <4>3. Len(job.todo) - 1 = Len(templates) - (k + 1)
        BY <4>b DEF n, l
      <4> QED BY <4>2, <4>3
    <3>2. \A j \in 1 .. Len(job'.todo) : job'.todo[j] = templates'[(k + 1) + j]
      <4> TAKE j \in 1 .. Len(job'.todo)
      <4>1. j \in 1 .. Len(job.todo) - 1 /\ j + 1 \in 1 .. Len(job.todo) /\ k + (j + 1) = (k + 1) + j
        BY <1>4, <1>8
      <4> QED BY <1>2, <1>4, <1>5, <1>8, <4>1 DEF AppliedSome
    <3>3. \A i \in 1 .. k + 1 : Booked(templates[i], today)'
      BY <2>1, <2>2
    <3>4. \A i \in 1 .. k + 1 : Booked(templates[i], job.today)'
      BY <3>3 DEF today
    <3> QED BY <3>1, <3>2, <3>4 DEF AppliedSome
  <2> QED BY <1>5, <1>7, <1>8, <2>3 DEF Applying
<1>10. ASSUME records' # records, NEW b \in BagToSet(records' (-) records)
       PROVE  b = booking /\ target # NoDate /\ booking \notin BagToSet(records)
  <2>1. records' = Save(booking) /\ target # NoDate /\ booking \notin job.seen
    BY <1>3, <1>10
  <2>2. b = booking
    BY <1>1, <1>3, <1>10, <2>1, RecordSaved
  <2> QED BY <1>1, <2>1, <2>2
<1>11. NewOnly
  BY <1>10 DEF NewOnly, BagIn
<1>12. DueOnly
  <2>1. target # NoDate => target \in DueDays(t, today)
    BY <1>3, TargetIsDue DEF target
  <2>2. booking.date = target /\ booking = BookingOf(t, t.wallet, target)
    BY DEF booking, BookingOf
  <2> QED BY <1>7, <1>10, <2>1, <2>2 DEF DueOnly, today
<1> QED BY <1>9, <1>11, <1>12

\* Every step keeps the invariant, as long as the window is disabled.
LEMMA MandatoryInvStep ==
    ASSUME MandatoryAssumption, WindowDisabled, MandatoryInv, [MandatoryNext]_mandatoryVars
    PROVE  MandatoryInv' /\ (~UNCHANGED mandatoryVars => NewOnly /\ DueOnly)
<1>1. MandatoryTypes /\ MandatoryTypes'
  BY MandatoryTypesStep DEF MandatoryInv
<1>2. CASE StartApplication
  <2>1. /\ job' = [running |-> TRUE, today |-> day, todo |-> templates, seen |-> BagToSet(records)]
        /\ records' = records /\ templates' = templates
    BY <1>2 DEF StartApplication
  <2>2. Len(templates) \in Nat
    BY <1>1, LenProperties DEF MandatoryTypes
  <2>3. AppliedSome(0)'
    <3>1. Len(job'.todo) = Len(templates') - 0
      BY <2>1, <2>2
    <3>2. \A j \in 1 .. Len(job'.todo) : job'.todo[j] = templates'[0 + j]
      BY <2>1, <2>2
    <3> QED BY <3>1, <3>2 DEF AppliedSome
  <2>4. Applying'
    BY <2>1, <2>2, <2>3 DEF Applying
  <2> QED BY <1>1, <2>1, <2>4 DEF MandatoryInv, NewOnly, DueOnly
<1>3. CASE ApplyNext
  BY <1>1, <1>3, PaymentApplied DEF MandatoryInv
<1>4. CASE ApplyDone \/ StopApplication
  <2>1. ~job'.running /\ records' = records
    BY <1>4, NoJobTyped DEF ApplyDone, StopApplication
  <2> QED BY <1>1, <2>1 DEF MandatoryInv, Applying, NewOnly, DueOnly
<1>5. CASE NextDay
  <2>1. UNCHANGED <<templates, records, job>>
    BY <1>5 DEF NextDay
  <2> QED BY <1>1, <2>1 DEF MandatoryInv, Applying, AppliedSome, Booked, NewOnly, DueOnly
<1>6. CASE UNCHANGED mandatoryVars
  BY <1>1, <1>6 DEF mandatoryVars, MandatoryInv, Applying, AppliedSome, Booked
<1>7. CASE Reachable /\ UNCHANGED job
  <2>1. ~job.running /\ ~job'.running
    BY <1>7 DEF Reachable
  <2> QED BY <1>1, <2>1 DEF MandatoryInv, Applying, NewOnly, DueOnly
<1> QED BY <1>1, <1>2, <1>3, <1>4, <1>5, <1>6, <1>7, UserStep DEF MandatoryNext

\* When the worker is done, everything due is booked.
LEMMA DoneIsAll ==
    ASSUME MandatoryAssumption, MandatoryInv
    PROVE  AllDue
<1> SUFFICES ASSUME ApplyDone, NEW i \in DOMAIN templates, NEW d \in DueDays(templates[i], job.today)
             PROVE  BagIn(BookingOf(templates[i], templates[i].wallet, d), records)
  BY DEF AllDue
<1>1. job.running /\ job.todo = <<>> /\ MandatoryTypes
  BY DEF ApplyDone, MandatoryInv
<1>2. PICK k \in 0 .. Len(templates) : AppliedSome(k)
  BY <1>1 DEF MandatoryInv, Applying
<1>3. Len(templates) \in Nat /\ DOMAIN templates = 1 .. Len(templates) /\ templates[i] \in Template
  BY <1>1, LenProperties, ElementOfSeq DEF MandatoryTypes
<1>4. i \in 1 .. k
  <2> DEFINE n == Len(templates)
  <2>1. Len(job.todo) = 0 /\ Len(job.todo) = n - k
    BY <1>1, <1>2 DEF AppliedSome
  <2>2. n \in Nat /\ i \in 1 .. n /\ k \in 0 .. n
    BY <1>2, <1>3
  <2> HIDE DEF n
  <2>3. n - k = 0
    BY <2>1
  <2> QED BY <2>2, <2>3
<1>5. Booked(templates[i], job.today)
  BY <1>2, <1>4 DEF AppliedSome
<1>6. TargetDate(templates[i], job.today) # NoDate /\ TargetDate(templates[i], job.today) = d
  BY <1>1, <1>3, TargetIsDue DEF MandatoryTypes
<1> QED BY <1>5, <1>6 DEF Booked, BagIn

\* The invariant holds in every state.
LEMMA MandatoryInvHolds ==
    ASSUME MandatoryAssumption, WindowDisabled PROVE MandatorySpec => []MandatoryInv
<1>1. MandatoryInit => MandatoryInv
  BY MandatoryTypesStart, NoJobTyped DEF MandatoryInit, MandatoryInv, Applying
<1>2. MandatoryInv /\ [MandatoryNext]_mandatoryVars => MandatoryInv'
  BY MandatoryInvStep
<1> QED BY <1>1, <1>2, PTL DEF MandatorySpec

\* Where the window is disabled while the worker runs, it books each payment once, nothing that
\* is not due, and all that is when it is done (BooksWhatIsDueOnce).
THEOREM PaymentsAreBookedOnce ==
    ASSUME MandatoryAssumption, WindowDisabled
    PROVE  MandatorySpec => BooksWhatIsDueOnce
<1>1. MandatoryInv /\ [MandatoryNext]_mandatoryVars => [NewOnly]_mandatoryVars
  BY MandatoryInvStep
<1>2. MandatoryInv /\ [MandatoryNext]_mandatoryVars => [DueOnly]_mandatoryVars
  BY MandatoryInvStep
<1>3. MandatoryInv /\ [MandatoryNext]_mandatoryVars => [AllDue]_mandatoryVars
  BY DoneIsAll
<1>4. [][NewOnly]_mandatoryVars => NeverBooksTwice
  BY DEF NewOnly, NeverBooksTwice
<1>5. [][DueOnly]_mandatoryVars => BooksOnlyWhatIsDue
  BY DEF DueOnly, BooksOnlyWhatIsDue
<1>6. [][AllDue]_mandatoryVars => AllDueIsBooked
  BY DEF AllDue, AllDueIsBooked
<1>7. MandatorySpec => NeverBooksTwice
  BY <1>1, <1>4, MandatoryInvHolds, PTL DEF MandatorySpec
<1>8. MandatorySpec => BooksOnlyWhatIsDue
  BY <1>2, <1>5, MandatoryInvHolds, PTL DEF MandatorySpec
<1>9. MandatorySpec => AllDueIsBooked
  BY <1>3, <1>6, MandatoryInvHolds, PTL DEF MandatorySpec
<1> QED BY <1>7, <1>8, <1>9 DEF BooksWhatIsDueOnce

-----------------------------------------------------------------------------
(* Tags. *)

TagRow == [name : Labels, colour : Colours, uses : Nat, last : TagDates \cup {0}]

\* A record, whose tags are there.
TaggedRecord(tags) == [date : TagDates, tags : SUBSET DOMAIN tags]

\* Each name has one row.
NamesApart(tags) == \A t, u \in DOMAIN tags : tags[t].name = tags[u].name => t = u

\* The tables of tags, of their uses and of records.
TagsData(d) ==
    /\ d = [tags |-> d.tags, counter |-> d.counter, records |-> d.records]
    /\ TableOf(d.tags, d.counter, TagRow)
    /\ NamesApart(d.tags)
    /\ d.records \in Seq(TaggedRecord(d.tags))

\* The names of the records of J are the same in e.
NamesKept(d, e, J) ==
    /\ DOMAIN e.records = DOMAIN d.records
    /\ \A i \in J \cap DOMAIN d.records : NamesOf(e, i) = NamesOf(d, i)

\* Names that are in both have their colours in both.
ColoursKept(d, e) ==
    \A t \in DOMAIN d.tags, u \in DOMAIN e.tags :
        d.tags[t].name = e.tags[u].name => d.tags[t].colour = e.tags[u].colour

\* Every row of e has the name and the colour of a row of d.
RowsFrom(d, e) ==
    \A u \in DOMAIN e.tags : \E t \in DOMAIN d.tags :
        e.tags[u].name = d.tags[t].name /\ e.tags[u].colour = d.tags[t].colour

DatesOf(d, t) == {d.records[i].date : i \in Users(d, t)}

\* Uses and dates of last use are those of the records.
UsesRight(d) ==
    \A t \in DOMAIN d.tags :
        /\ d.tags[t].uses = Cardinality(Users(d, t))
        /\ Users(d, t) # {} => d.tags[t].last = Max(DatesOf(d, t))

\* The same of the tags that are used.
UsedRight(d) ==
    \A t \in DOMAIN d.tags : Users(d, t) # {} =>
        d.tags[t].uses = Cardinality(Users(d, t)) /\ d.tags[t].last = Max(DatesOf(d, t))

\* Other tags or other records in the tables.
LEMMA TagsReplaced ==
    ASSUME NEW d, d = [tags |-> d.tags, counter |-> d.counter, records |-> d.records], NEW x, NEW y
    PROVE  /\ [d EXCEPT !.tags = x] = [tags |-> x, counter |-> d.counter, records |-> d.records]
           /\ [d EXCEPT !.records = y] = [tags |-> d.tags, counter |-> d.counter, records |-> y]
<1> DEFINE r(a, b, c) == [tags |-> a, counter |-> b, records |-> c]
<1>1. \A a, b, c : [r(a, b, c) EXCEPT !.tags = x] = r(x, b, c)
  OBVIOUS
<1>2. \A a, b, c : [r(a, b, c) EXCEPT !.records = y] = r(a, b, y)
  OBVIOUS
<1>5. d = r(d.tags, d.counter, d.records)
  OBVIOUS
<1> HIDE DEF r
<1>6. [d EXCEPT !.tags = x] = r(x, d.counter, d.records)
  BY <1>1, <1>5
<1>7. [d EXCEPT !.records = y] = r(d.tags, d.counter, y)
  BY <1>2, <1>5
<1> QED BY <1>6, <1>7 DEF r

\* The records and the rows of tags, one by one.
LEMMA DataRows ==
    ASSUME NEW d, TagsData(d)
    PROVE  /\ DOMAIN d.records = 1 .. Len(d.records) /\ Len(d.records) \in Nat
           /\ \A i \in DOMAIN d.records :
                 /\ d.records[i] \in TaggedRecord(d.tags) /\ d.records[i].date \in TagDates
                 /\ d.records[i].tags \in SUBSET DOMAIN d.tags
           /\ Ids(DOMAIN d.tags) /\ \A t \in DOMAIN d.tags : d.tags[t] \in TagRow
           /\ d.counter \in Nat
<1>1. d.records \in Seq(TaggedRecord(d.tags)) /\ TableOf(d.tags, d.counter, TagRow)
  BY DEF TagsData
<1>2. /\ DOMAIN d.records = 1 .. Len(d.records) /\ Len(d.records) \in Nat
      /\ \A i \in DOMAIN d.records : d.records[i] \in TaggedRecord(d.tags)
  BY <1>1, LenProperties, ElementOfSeq
<1>3. \A i \in DOMAIN d.records :
        d.records[i].date \in TagDates /\ d.records[i].tags \in SUBSET DOMAIN d.tags
  BY <1>2 DEF TaggedRecord
<1> QED BY <1>1, <1>2, <1>3, TableIds DEF TableOf

\* Records are a sequence of a kind when each of them is of it.
LEMMA RecordsSeq ==
    ASSUME NEW d, TagsData(d), NEW S, \A i \in DOMAIN d.records : d.records[i] \in S
    PROVE  d.records \in Seq(S)
<1> DEFINE n == Len(d.records)
<1>1. d.records \in [1 .. n -> TaggedRecord(d.tags)] /\ n \in Nat
  BY LenProperties DEF TagsData
<1> HIDE DEF n
<1>2. d.records \in [1 .. n -> S]
  BY <1>1
<1> QED BY <1>1, <1>2, SeqDef

\* A finite set of numbers that has members has a largest.
LEMMA MaxOfSome ==
    ASSUME NEW S, Ids(S), S # {}
    PROVE  Max(S) \in S /\ Max({0} \cup S) = Max(S)
<1>1. MaxId(S) \in S /\ \A j \in S : j <= MaxId(S)
  BY MaxIdBounds
<1>2. S \in SUBSET (Nat \ {0})
  BY DEF Ids
<1>3. \E x \in S : \A y \in S : x >= y
  BY <1>1, <1>2
<1>4. Max(S) \in S /\ \A y \in S : Max(S) >= y
  BY <1>3 DEF Max
<1> DEFINE m == Max(S)
           T == {0} \cup S
<1>a. m \in S /\ m \in Nat /\ \A y \in S : y \in Nat /\ m >= y
  BY <1>2, <1>4
<1> HIDE DEF m
<1>5. m \in T /\ \A y \in T : y \in Nat /\ m >= y
  BY <1>a
<1> HIDE DEF T
<1>6. \A x \in T : (\A y \in T : x >= y) => x = m
  BY <1>a, <1>5
<1>7. Max(T) = m
  BY <1>5, <1>6 DEF Max
<1> QED BY <1>4, <1>7 DEF m, T

\* The users of a tag and their dates are finite in number.
LEMMA UsersFinite ==
    ASSUME TagsAssumption, NEW d, TagsData(d), NEW t
    PROVE  /\ Users(d, t) \in SUBSET DOMAIN d.records /\ IsFiniteSet(Users(d, t))
           /\ Cardinality(Users(d, t)) \in Nat
           /\ DatesOf(d, t) \in SUBSET TagDates /\ Ids(DatesOf(d, t))
           /\ Users(d, t) # {} => DatesOf(d, t) # {}
<1> DEFINE U == Users(d, t)
           D == DatesOf(d, t)
           f == [i \in U |-> d.records[i].date]
<1>1. U \in SUBSET DOMAIN d.records
  BY DEF Users
<1>2. IsFiniteSet(DOMAIN d.records)
  <2>1. 1 \in Int /\ Len(d.records) \in Int /\ DOMAIN d.records = 1 .. Len(d.records)
    BY DataRows
  <2> QED BY <2>1, FS_Interval
<1>3. IsFiniteSet(U) /\ Cardinality(U) \in Nat
  BY <1>1, <1>2, FS_Subset, FS_CardinalityType
<1>4. D \in SUBSET TagDates
  BY <1>1, DataRows DEF DatesOf
<1>5. f \in Surjection(U, D)
  BY DEF Surjection, DatesOf
<1>6. IsFiniteSet(D)
  BY <1>3, <1>5, FS_Surjection
<1>7. Ids(D)
  BY <1>4, <1>6 DEF Ids, TagsAssumption
<1>8. U # {} => D # {}
  BY DEF DatesOf
<1> QED BY <1>1, <1>3, <1>4, <1>7, <1>8

\* Refreshed rows: right uses, and the names and colours there were.
LEMMA RefreshedData ==
    ASSUME TagsAssumption, NEW d, TagsData(d)
    PROVE  LET e == Refreshed(d)
           IN  /\ TagsData(e) /\ UsesRight(e)
               /\ e.records = d.records /\ e.counter = d.counter /\ DOMAIN e.tags = DOMAIN d.tags
               /\ \A t \in DOMAIN d.tags : /\ e.tags[t].name = d.tags[t].name
                                           /\ e.tags[t].colour = d.tags[t].colour
<1> DEFINE e == Refreshed(d)
           last(t) == Max({0} \cup DatesOf(d, t))
           row(t) == [d.tags[t] EXCEPT !.uses = Cardinality(Users(d, t)), !.last = last(t)]
<1> DEFINE tags == [t \in DOMAIN d.tags |-> row(t)]
<1>1. e = [tags |-> tags, counter |-> d.counter, records |-> d.records]
  <2>1. e = [d EXCEPT !.tags = tags]
    BY DEF Refreshed, DatesOf
  <2> HIDE DEF tags
  <2> QED BY <2>1, TagsReplaced DEF TagsData
<1>2. ASSUME NEW t \in DOMAIN d.tags
      PROVE  /\ last(t) \in TagDates \cup {0}
             /\ Users(d, t) # {} => last(t) = Max(DatesOf(d, t))
  <2>1. CASE DatesOf(d, t) = {}
    <3>1. Users(d, t) = {} /\ {0} \cup DatesOf(d, t) = {0}
      BY <2>1, UsersFinite
    <3>2. Max({0}) = 0
      BY DEF Max
    <3> QED BY <3>1, <3>2
  <2>2. CASE DatesOf(d, t) # {}
    BY <2>2, UsersFinite, MaxOfSome
  <2> QED BY <2>1, <2>2
<1> HIDE DEF last
<1>3. ASSUME NEW t \in DOMAIN d.tags
      PROVE  /\ row(t) \in TagRow /\ row(t).name = d.tags[t].name /\ row(t).colour = d.tags[t].colour
             /\ row(t).uses = Cardinality(Users(d, t)) /\ row(t).last = last(t)
  <2>1. d.tags[t] \in TagRow /\ Cardinality(Users(d, t)) \in Nat /\ last(t) \in TagDates \cup {0}
    BY <1>2, DataRows, UsersFinite
  <2> QED BY <2>1 DEF TagRow
<1> HIDE DEF row
<1>4. tags \in [DOMAIN tags -> TagRow] /\ DOMAIN tags = DOMAIN d.tags
  BY <1>3
<1>5. TableOf(tags, d.counter, TagRow)
  BY <1>4 DEF TagsData, TableOf
<1>6. NamesApart(tags)
  BY <1>3 DEF TagsData, NamesApart
<1>7. e.tags = tags /\ e.counter = d.counter /\ e.records = d.records
  BY <1>1
<1>8. e = [tags |-> e.tags, counter |-> e.counter, records |-> e.records]
  BY <1>1
<1> HIDE DEF e
<1>9. TagsData(e)
  <2>1. e.records \in Seq(TaggedRecord(e.tags))
    BY <1>4, <1>7 DEF TagsData, TaggedRecord
  <2> HIDE DEF tags
  <2> QED BY <1>5, <1>6, <1>7, <1>8, <2>1 DEF TagsData
<1>10. UsesRight(e)
  <2>1. \A t : Users(e, t) = Users(d, t) /\ DatesOf(e, t) = DatesOf(d, t)
    BY <1>7 DEF Users, DatesOf
  <2> QED BY <1>2, <1>3, <1>7, <2>1 DEF UsesRight
<1> QED BY <1>3, <1>7, <1>9, <1>10 DEF e

\* The rows that nobody uses may go.
LEMMA UnusedGone ==
    ASSUME TagsAssumption, NEW d, TagsData(d)
    PROVE  LET e == [d EXCEPT !.tags = Without(d.tags, {t \in DOMAIN d.tags : Users(d, t) = {}})]
           IN  /\ TagsData(e) /\ NamesKept(d, e, DOMAIN d.records)
               /\ e.records = d.records
               /\ DOMAIN e.tags \in SUBSET DOMAIN d.tags
               /\ \A t \in DOMAIN e.tags : e.tags[t] = d.tags[t] /\ Users(d, t) # {}
               /\ \A t \in DOMAIN d.tags : Users(d, t) # {} => t \in DOMAIN e.tags
<1> DEFINE S == {t \in DOMAIN d.tags : Users(d, t) = {}}
           e == [d EXCEPT !.tags = Without(d.tags, S)]
<1>1. e = [tags |-> Without(d.tags, S), counter |-> d.counter, records |-> d.records]
  BY DEF TagsData
<1>2. /\ TableOf(Without(d.tags, S), d.counter, TagRow)
      /\ DOMAIN Without(d.tags, S) = DOMAIN d.tags \ S
      /\ \A t \in DOMAIN Without(d.tags, S) : Without(d.tags, S)[t] = d.tags[t]
  BY RowsRemoved DEF TagsData
<1>3. /\ e.tags = Without(d.tags, S) /\ e.counter = d.counter /\ e.records = d.records
      /\ e = [tags |-> e.tags, counter |-> e.counter, records |-> e.records]
  BY <1>1
<1> HIDE DEF e
<1>4. \A t \in DOMAIN e.tags :
        t \in DOMAIN d.tags /\ e.tags[t] = d.tags[t] /\ Users(d, t) # {}
  BY <1>2, <1>3
<1>5. \A t \in DOMAIN d.tags : Users(d, t) # {} => t \in DOMAIN e.tags
  BY <1>2, <1>3
<1>6. ASSUME NEW i \in DOMAIN d.records
      PROVE  d.records[i].tags \in SUBSET DOMAIN e.tags /\ d.records[i] \in TaggedRecord(e.tags)
  <2>1. d.records[i].tags \in SUBSET DOMAIN d.tags /\ d.records[i] \in TaggedRecord(d.tags)
    BY DataRows
  <2>2. \A t \in d.records[i].tags : i \in Users(d, t)
    BY DEF Users
  <2>3. d.records[i].tags \in SUBSET DOMAIN e.tags
    BY <1>5, <2>1, <2>2
  <2> QED BY <2>1, <2>3 DEF TaggedRecord
<1>7. TagsData(e)
  <2>1. NamesApart(e.tags)
    BY <1>4 DEF TagsData, NamesApart
  <2>2. e.records \in Seq(TaggedRecord(e.tags))
    BY <1>3, <1>6, RecordsSeq
  <2> QED BY <1>2, <1>3, <2>1, <2>2 DEF TagsData
<1>8. NamesKept(d, e, DOMAIN d.records)
  <2>1. \A i \in DOMAIN d.records :
           d.records[i].tags \cap DOMAIN e.tags = d.records[i].tags \cap DOMAIN d.tags
    BY <1>4, <1>6
  <2>2. \A i \in DOMAIN d.records : NamesOf(e, i) = NamesOf(d, i)
    BY <1>3, <1>4, <2>1 DEF NamesOf
  <2> QED BY <1>3, <2>2 DEF NamesKept
<1> QED BY <1>3, <1>4, <1>5, <1>7, <1>8 DEF e

\* Records of d with other tags: those of T, which are rows of e.
Retags(d, e, T) ==
    e.records = [i \in DOMAIN d.records |-> [d.records[i] EXCEPT !.tags = T[i]]]

\* Records that get tags that are there.
LEMMA RetaggedData ==
    ASSUME TagsAssumption, NEW d, TagsData(d), NEW e,
           e = [tags |-> e.tags, counter |-> e.counter, records |-> e.records],
           TableOf(e.tags, e.counter, TagRow), NamesApart(e.tags),
           NEW T \in [DOMAIN d.records -> SUBSET DOMAIN e.tags],
           Retags(d, e, T)
    PROVE  /\ TagsData(e) /\ DOMAIN e.records = DOMAIN d.records
           /\ \A i \in DOMAIN d.records :
                 e.records[i].tags = T[i] /\ e.records[i].date = d.records[i].date
<1> DEFINE n == Len(d.records)
<1>1. n \in Nat /\ DOMAIN d.records = 1 .. n /\ DOMAIN e.records = 1 .. n
  BY DataRows DEF Retags
<1>2. ASSUME NEW i \in DOMAIN d.records
      PROVE  /\ e.records[i] \in TaggedRecord(e.tags)
             /\ e.records[i].tags = T[i] /\ e.records[i].date = d.records[i].date
  <2>1. d.records[i] \in TaggedRecord(d.tags) /\ T[i] \in SUBSET DOMAIN e.tags
    BY DataRows
  <2>2. e.records[i] = [d.records[i] EXCEPT !.tags = T[i]]
    BY DEF Retags
  <2> QED BY <2>1, <2>2 DEF TaggedRecord
<1>3. e.records \in [1 .. n -> TaggedRecord(e.tags)]
  BY <1>1, <1>2 DEF Retags
<1> HIDE DEF n
<1>4. e.records \in Seq(TaggedRecord(e.tags))
  BY <1>1, <1>3, SeqDef
<1> QED BY <1>1, <1>2, <1>4 DEF TagsData

\* Renumbering closes the gaps, and keeps rows, names and uses.
LEMMA NormalizedData ==
    ASSUME TagsAssumption, NEW d, TagsData(d)
    PROVE  LET e == Normalized(d)
           IN  /\ TagsData(e) /\ NamesKept(d, e, DOMAIN d.records) /\ RowsFrom(d, e)
               /\ UsesRight(d) => UsesRight(e)
<1> DEFINE S == DOMAIN d.tags
           e == Normalized(d)
           T == [i \in DOMAIN d.records |-> {Rank(S, t) : t \in d.records[i].tags}]
<1>1. /\ e = [tags |-> e.tags, counter |-> e.counter, records |-> e.records]
      /\ e.tags = Reinserted(d.tags) /\ e.counter = Cardinality(S) /\ Retags(d, e, T)
  BY DEF Normalized, Retags
<1> HIDE DEF e
<1>2. /\ TableOf(e.tags, e.counter, TagRow)
      /\ \A t \in S : Rank(S, t) \in DOMAIN e.tags /\ e.tags[Rank(S, t)] = d.tags[t]
      /\ \A k \in DOMAIN e.tags : \E t \in S : Rank(S, t) = k /\ e.tags[k] = d.tags[t]
  BY <1>1, TableReinserted DEF TagsData
<1>3. NamesApart(e.tags)
  BY <1>2 DEF NamesApart, TagsData
<1>4. T \in [DOMAIN d.records -> SUBSET DOMAIN e.tags]
  <2>1. \A i \in DOMAIN d.records : d.records[i].tags \in SUBSET S
    BY DataRows
  <2>2. \A i \in DOMAIN d.records : {Rank(S, t) : t \in d.records[i].tags} \in SUBSET DOMAIN e.tags
    BY <1>2, <2>1
  <2> QED BY <2>2
<1>5. /\ TagsData(e) /\ DOMAIN e.records = DOMAIN d.records
      /\ \A i \in DOMAIN d.records :
            e.records[i].tags = T[i] /\ e.records[i].date = d.records[i].date
  <2> HIDE DEF T
  <2> QED BY <1>1, <1>2, <1>3, <1>4, RetaggedData
<1>6. ASSUME NEW i \in DOMAIN d.records
      PROVE  /\ e.records[i].tags = {Rank(S, t) : t \in d.records[i].tags}
             /\ d.records[i].tags \in SUBSET S
             /\ \A t \in S : Rank(S, t) \in e.records[i].tags <=> t \in d.records[i].tags
  <2>1. e.records[i].tags = {Rank(S, t) : t \in d.records[i].tags} /\ d.records[i].tags \in SUBSET S
    BY <1>5, DataRows
  <2>2. \A t, u \in S : Rank(S, t) = Rank(S, u) => t = u
    BY DataRows, RankInjective
  <2> QED BY <2>1, <2>2
<1>7. NamesKept(d, e, DOMAIN d.records)
  <2>1. \A i \in DOMAIN d.records : NamesOf(e, i) = NamesOf(d, i)
    BY <1>2, <1>6 DEF NamesOf
  <2> QED BY <1>5, <2>1 DEF NamesKept
<1>8. RowsFrom(d, e)
  BY <1>2 DEF RowsFrom
<1>9. ASSUME UsesRight(d)
      PROVE  UsesRight(e)
  <2> SUFFICES ASSUME NEW k \in DOMAIN e.tags
               PROVE  /\ e.tags[k].uses = Cardinality(Users(e, k))
                      /\ Users(e, k) # {} => e.tags[k].last = Max(DatesOf(e, k))
    BY DEF UsesRight
  <2>1. PICK t \in S : Rank(S, t) = k /\ e.tags[k] = d.tags[t]
    BY <1>2
  <2>2. Users(e, k) = Users(d, t)
    BY <1>5, <1>6, <2>1 DEF Users
  <2>3. DatesOf(e, k) = DatesOf(d, t)
    BY <1>5, <2>2 DEF DatesOf, Users
  <2> QED BY <1>9, <2>1, <2>2, <2>3 DEF UsesRight
<1> QED BY <1>5, <1>7, <1>8, <1>9 DEF e

\* Names, rows and colours kept over two steps.
LEMMA KeptOver ==
    ASSUME NEW d, NEW e, NEW f
    PROVE  /\ \A J : NamesKept(d, e, J) /\ NamesKept(e, f, J) => NamesKept(d, f, J)
           /\ RowsFrom(d, e) /\ RowsFrom(e, f) => RowsFrom(d, f)
           /\ ColoursKept(d, e) /\ RowsFrom(e, f) => ColoursKept(d, f)
<1>1. ASSUME NEW J, NamesKept(d, e, J), NamesKept(e, f, J)
      PROVE  NamesKept(d, f, J)
  BY <1>1 DEF NamesKept
<1>2. ASSUME RowsFrom(d, e), RowsFrom(e, f)
      PROVE  RowsFrom(d, f)
  <2> SUFFICES ASSUME NEW u \in DOMAIN f.tags
               PROVE  \E t \in DOMAIN d.tags :
                         f.tags[u].name = d.tags[t].name /\ f.tags[u].colour = d.tags[t].colour
    BY DEF RowsFrom
  <2>1. PICK v \in DOMAIN e.tags : f.tags[u].name = e.tags[v].name /\ f.tags[u].colour = e.tags[v].colour
    BY <1>2 DEF RowsFrom
  <2>2. PICK t \in DOMAIN d.tags : e.tags[v].name = d.tags[t].name /\ e.tags[v].colour = d.tags[t].colour
    BY <1>2 DEF RowsFrom
  <2> QED BY <2>1, <2>2
<1>3. ASSUME ColoursKept(d, e), RowsFrom(e, f)
      PROVE  ColoursKept(d, f)
  <2> SUFFICES ASSUME NEW t \in DOMAIN d.tags, NEW u \in DOMAIN f.tags,
                      d.tags[t].name = f.tags[u].name
               PROVE  d.tags[t].colour = f.tags[u].colour
    BY DEF ColoursKept
  <2>1. PICK v \in DOMAIN e.tags : f.tags[u].name = e.tags[v].name /\ f.tags[u].colour = e.tags[v].colour
    BY <1>3 DEF RowsFrom
  <2> QED BY <1>3, <2>1 DEF ColoursKept
<1> QED BY <1>1, <1>2, <1>3

\* A name has one row, so rows from d have the colours of d.
LEMMA RowsFromColours ==
    ASSUME NEW d, TagsData(d), NEW e, RowsFrom(d, e)
    PROVE  ColoursKept(d, e)
<1> SUFFICES ASSUME NEW t \in DOMAIN d.tags, NEW u \in DOMAIN e.tags,
                    d.tags[t].name = e.tags[u].name
             PROVE  d.tags[t].colour = e.tags[u].colour
  BY DEF ColoursKept
<1>1. PICK v \in DOMAIN d.tags : e.tags[u].name = d.tags[v].name /\ e.tags[u].colour = d.tags[v].colour
  BY DEF RowsFrom
<1>2. v = t
  BY <1>1 DEF TagsData, NamesApart
<1> QED BY <1>1, <1>2

\* What counting, pruning and renumbering leave.
Recounted(d, e) ==
    TagsData(e) /\ NamesKept(d, e, DOMAIN d.records) /\ RowsFrom(d, e)

\* Pruned tags, with right uses if they were right.
LEMMA PrunedData ==
    ASSUME TagsAssumption, NEW d, TagsData(d)
    PROVE  Recounted(d, Pruned(d)) /\ (UsedRight(d) => UsesRight(Pruned(d)))
<1> DEFINE e == [d EXCEPT !.tags = Without(d.tags, {t \in DOMAIN d.tags : Users(d, t) = {}})]
           f == Normalized(e)
<1>1. /\ TagsData(e) /\ NamesKept(d, e, DOMAIN d.records) /\ e.records = d.records
      /\ DOMAIN e.tags \in SUBSET DOMAIN d.tags
      /\ \A t \in DOMAIN e.tags : e.tags[t] = d.tags[t] /\ Users(d, t) # {}
  BY UnusedGone
<1> HIDE DEF e
<1>2. /\ TagsData(f) /\ NamesKept(e, f, DOMAIN d.records) /\ RowsFrom(e, f)
      /\ UsesRight(e) => UsesRight(f)
  BY <1>1, NormalizedData
<1> HIDE DEF f
<1>3. RowsFrom(d, e)
  BY <1>1 DEF RowsFrom
<1>4. UsedRight(d) => UsesRight(e)
  <2>1. \A t : Users(e, t) = Users(d, t) /\ DatesOf(e, t) = DatesOf(d, t)
    BY <1>1 DEF Users, DatesOf
  <2> QED BY <1>1, <2>1 DEF UsesRight, UsedRight
<1>5. Recounted(d, f)
  BY <1>1, <1>2, <1>3, KeptOver DEF Recounted
<1>6. f = Pruned(d)
  BY DEF Pruned, f, e
<1> QED BY <1>2, <1>4, <1>5, <1>6

\* What every save ends with: right uses, and the names and colours there were.
LEMMA CountedData ==
    ASSUME TagsAssumption, NEW d, TagsData(d)
    PROVE  Recounted(d, Counted(d)) /\ UsesRight(Counted(d))
<1> DEFINE e == Refreshed(d)
           f == Pruned(e)
<1>1. /\ TagsData(e) /\ UsesRight(e) /\ e.records = d.records /\ DOMAIN e.tags = DOMAIN d.tags
      /\ \A t \in DOMAIN d.tags : e.tags[t].name = d.tags[t].name /\ e.tags[t].colour = d.tags[t].colour
  BY RefreshedData
<1> HIDE DEF e
<1>2. Recounted(e, f) /\ UsesRight(f)
  BY <1>1, PrunedData DEF UsesRight, UsedRight
<1> HIDE DEF f
<1>3. RowsFrom(d, e)
  BY <1>1 DEF RowsFrom
<1>4. NamesKept(d, e, DOMAIN d.records)
  <2>1. \A i \in DOMAIN d.records : NamesOf(e, i) = NamesOf(d, i)
    BY <1>1 DEF NamesOf
  <2> QED BY <1>1, <2>1 DEF NamesKept
<1>5. Recounted(d, f)
  BY <1>1, <1>2, <1>3, <1>4, KeptOver DEF Recounted
<1>6. f = Counted(d)
  BY DEF Counted, f, e
<1> QED BY <1>2, <1>5, <1>6

\* The row of a name that has one.
LEMMA IdOfName ==
    ASSUME NEW tags, NEW n \in NamesIn(tags)
    PROVE  IdOf(tags, n) \in DOMAIN tags /\ tags[IdOf(tags, n)].name = n
  BY DEF NamesIn, IdOf

\* Names that are looked up get rows: those of d stay, and each new one has a name that
\* had none.
LEMMA EnsuredData ==
    ASSUME TagsAssumption, NEW d, TagsData(d), NEW ns \in SUBSET Labels, IsFiniteSet(ns)
    PROVE  LET e == Ensured(d, ns)
           IN  /\ TagsData(e) /\ e.records = d.records /\ ns \in SUBSET NamesIn(e.tags)
               /\ \A t \in DOMAIN d.tags : t \in DOMAIN e.tags /\ e.tags[t] = d.tags[t]
               /\ \A u \in DOMAIN e.tags \ DOMAIN d.tags :
                     e.tags[u].name \notin NamesIn(d.tags) /\ e.tags[u].uses = 0
<1> DEFINE D   == DOMAIN d.tags
           c   == d.counter
           new == ns \ NamesIn(d.tags)
           k   == Cardinality(new)
           nth(u) == Nth(new, u - c)
           tags == [t \in D \cup (c + 1 .. c + k) |-> IF t \in D THEN d.tags[t] ELSE Unused(nth(t))]
           e   == Ensured(d, ns)
<1>1. Ids(new) /\ new \in SUBSET Labels
  BY FS_Subset DEF Ids, TagsAssumption
<1>2. k \in Nat /\ c \in Nat /\ D \in SUBSET (1 .. c)
  BY <1>1, FS_CardinalityType DEF Ids, TagsData, TableOf
<1>3. /\ e = [tags |-> e.tags, counter |-> e.counter, records |-> e.records]
      /\ e.tags = tags /\ e.counter = c + k /\ e.records = d.records
  BY DEF Ensured
<1> HIDE DEF e
<1>4. ASSUME NEW u \in c + 1 .. c + k
      PROVE  /\ u \notin D /\ u \in 1 .. c + k /\ nth(u) \in new /\ tags[u] = Unused(nth(u))
             /\ Rank(new, nth(u)) = u - c
  <2>1. u - c \in 1 .. k /\ u \notin 1 .. c /\ u \in 1 .. c + k
    BY <1>2
  <2>2. nth(u) \in new /\ Rank(new, nth(u)) = u - c
    BY <1>1, <2>1, NthOfRank
  <2> QED BY <1>2, <2>1, <2>2
<1>5. \A t \in D : t \in DOMAIN tags /\ tags[t] = d.tags[t] /\ d.tags[t] \in TagRow
  BY DataRows
<1>6. \A u \in DOMAIN tags : u \in D \/ u \in c + 1 .. c + k
  OBVIOUS
<1>7. \A n \in Labels : Unused(n) \in TagRow /\ Unused(n).name = n /\ Unused(n).uses = 0
  BY DEF TagRow, Unused, TagsAssumption
<1> HIDE DEF k, nth
<1>8. \A u \in DOMAIN tags : tags[u] \in TagRow
  BY <1>1, <1>4, <1>5, <1>6, <1>7
<1>9. TableOf(tags, c + k, TagRow)
  <2>1. c + k \in Nat /\ \A t \in 1 .. c : t \in 1 .. c + k
    BY <1>2
  <2>2. DOMAIN tags \in SUBSET (1 .. c + k)
    BY <1>2, <1>4, <1>6, <2>1
  <2>3. tags \in [DOMAIN tags -> TagRow]
    BY <1>8
  <2> HIDE DEF tags
  <2> QED BY <2>1, <2>2, <2>3 DEF TableOf
<1>10. ASSUME NEW u \in DOMAIN tags, u \notin D
       PROVE  /\ u \in c + 1 .. c + k /\ tags[u].name = nth(u) /\ tags[u].uses = 0
              /\ nth(u) \in new
  BY <1>1, <1>4, <1>6, <1>7, <1>10
<1>11. \A t \in D : tags[t].name \in NamesIn(d.tags)
  BY <1>5 DEF NamesIn
<1> HIDE DEF tags
<1>12. NamesApart(tags)
  <2> SUFFICES ASSUME NEW t \in DOMAIN tags, NEW u \in DOMAIN tags, tags[t].name = tags[u].name
               PROVE  t = u
    BY DEF NamesApart
  <2>1. CASE t \in D /\ u \in D
    BY <2>1, <1>5 DEF TagsData, NamesApart
  <2>2. CASE t \in D /\ u \notin D
    BY <2>2, <1>10, <1>11
  <2>3. CASE t \notin D /\ u \in D
    BY <2>3, <1>10, <1>11
  <2>4. CASE t \notin D /\ u \notin D
    <3>1. nth(t) = nth(u) /\ t \in c + 1 .. c + k /\ u \in c + 1 .. c + k
      BY <2>4, <1>10
    <3>2. t - c = u - c
      BY <1>4, <3>1
    <3> QED BY <1>2, <3>1, <3>2
  <2> QED BY <2>1, <2>2, <2>3, <2>4
<1>13. TagsData(e)
  <2>1. d.records \in Seq(TaggedRecord(tags))
    <3>1. \A i \in DOMAIN d.records : d.records[i] \in TaggedRecord(tags)
      BY <1>5, DataRows DEF TaggedRecord
    <3> QED BY <3>1, RecordsSeq
  <2> QED BY <1>3, <1>9, <1>12, <2>1 DEF TagsData
<1>14. ASSUME NEW n \in ns
       PROVE  n \in NamesIn(e.tags)
  <2>1. CASE n \in NamesIn(d.tags)
    <3>1. PICK t \in D : d.tags[t].name = n
      BY <2>1 DEF NamesIn
    <3> QED BY <1>3, <1>5, <3>1 DEF NamesIn
  <2>2. CASE n \notin NamesIn(d.tags)
    <3>1. n \in new
      BY <2>2
    <3>2. Rank(new, n) \in 1 .. k /\ Nth(new, Rank(new, n)) = n
      BY <1>1, <3>1, RankType, NthOfRank DEF k
    <3>3. PICK u \in c + 1 .. c + k : u - c = Rank(new, n)
      <4>1. c + Rank(new, n) \in c + 1 .. c + k /\ (c + Rank(new, n)) - c = Rank(new, n)
        BY <1>2, <3>2
      <4> QED BY <4>1
    <3>4. u \in DOMAIN tags /\ u \notin D
      BY <1>4, <3>3 DEF tags
    <3>5. tags[u].name = n
      BY <1>10, <3>2, <3>3, <3>4 DEF nth
    <3> QED BY <1>3, <3>4, <3>5 DEF NamesIn
  <2> QED BY <2>1, <2>2
<1>15. \A u \in DOMAIN e.tags \ D : e.tags[u].name \notin NamesIn(d.tags) /\ e.tags[u].uses = 0
  BY <1>3, <1>10
<1> QED BY <1>3, <1>5, <1>13, <1>14, <1>15 DEF e

\* Record i has the names ns, and the other records and the colours are as they were.
LEMMA LabelledData ==
    ASSUME TagsAssumption, NEW d, TagsData(d), NEW ns \in SUBSET Labels, IsFiniteSet(ns),
           NEW i \in DOMAIN d.records
    PROVE  LET f == Labelled(d, i, ns)
           IN  /\ TagsData(f) /\ NamesKept(d, f, DOMAIN d.records \ {i}) /\ NamesOf(f, i) = ns
               /\ ColoursKept(d, f)
<1> DEFINE e == Ensured(d, ns)
           f == Labelled(d, i, ns)
           X == {IdOf(e.tags, n) : n \in ns}
           T == [j \in DOMAIN d.records |-> IF j = i THEN X ELSE d.records[j].tags]
<1>1. /\ TagsData(e) /\ e.records = d.records /\ ns \in SUBSET NamesIn(e.tags)
      /\ \A t \in DOMAIN d.tags : t \in DOMAIN e.tags /\ e.tags[t] = d.tags[t]
      /\ \A u \in DOMAIN e.tags \ DOMAIN d.tags : e.tags[u].name \notin NamesIn(d.tags)
  BY EnsuredData
<1>2. f = [e EXCEPT !.records = [e.records EXCEPT ![i] = [e.records[i] EXCEPT !.tags = X]]]
  BY DEF Labelled
<1> HIDE DEF e
<1>3. X \in SUBSET DOMAIN e.tags /\ {e.tags[t].name : t \in X} = ns
  BY <1>1, IdOfName
<1> HIDE DEF f, X
<1>4. /\ f = [tags |-> f.tags, counter |-> f.counter, records |-> f.records]
      /\ f.tags = e.tags /\ f.counter = e.counter
      /\ f.records = [d.records EXCEPT ![i] = [d.records[i] EXCEPT !.tags = X]]
  <2> DEFINE r == [d.records EXCEPT ![i] = [d.records[i] EXCEPT !.tags = X]]
  <2>1. f = [e EXCEPT !.records = r]
    BY <1>1, <1>2
  <2> HIDE DEF r
  <2>2. f = [tags |-> e.tags, counter |-> e.counter, records |-> r]
    BY <1>1, <2>1, TagsReplaced DEF TagsData
  <2> QED BY <2>2 DEF r
<1>5. Retags(d, f, T)
  <2>1. \A j \in DOMAIN d.records : j # i => f.records[j] = [d.records[j] EXCEPT !.tags = T[j]]
    <3>1. \A j \in DOMAIN d.records : [d.records[j] EXCEPT !.tags = d.records[j].tags] = d.records[j]
      BY DataRows DEF TaggedRecord
    <3>2. \A j \in DOMAIN d.records : j # i => f.records[j] = d.records[j]
      BY <1>4
    <3> QED BY <3>1, <3>2
  <2>2. f.records[i] = [d.records[i] EXCEPT !.tags = T[i]]
    BY <1>4
  <2>3. \A j \in DOMAIN d.records : f.records[j] = [d.records[j] EXCEPT !.tags = T[j]]
    BY <2>1, <2>2
  <2>4. f.records = [j \in DOMAIN d.records |-> f.records[j]]
    BY <1>4
  <2> HIDE DEF T
  <2> QED BY <2>3, <2>4 DEF Retags
<1>6. T \in [DOMAIN d.records -> SUBSET DOMAIN f.tags]
  BY <1>1, <1>3, <1>4, DataRows
<1>7. TableOf(f.tags, f.counter, TagRow) /\ NamesApart(f.tags)
  BY <1>1, <1>4 DEF TagsData
<1>8. /\ TagsData(f) /\ DOMAIN f.records = DOMAIN d.records
      /\ \A j \in DOMAIN d.records : f.records[j].tags = T[j]
  <2>1. f = [tags |-> f.tags, counter |-> f.counter, records |-> f.records]
    BY <1>4
  <2> HIDE DEF T
  <2> QED BY <1>5, <1>6, <1>7, <2>1, RetaggedData
<1>9. NamesOf(f, i) = ns
  <2>1. f.records[i].tags \cap DOMAIN f.tags = X
    BY <1>3, <1>4, <1>8
  <2> QED BY <1>3, <1>4, <2>1 DEF NamesOf
<1>10. NamesKept(d, f, DOMAIN d.records \ {i})
  <2>1. \A j \in DOMAIN d.records \ {i} :
           /\ f.records[j].tags \cap DOMAIN f.tags = d.records[j].tags
           /\ d.records[j].tags \cap DOMAIN d.tags = d.records[j].tags
    BY <1>1, <1>4, <1>8, DataRows
  <2>2. \A j \in DOMAIN d.records \ {i} : NamesOf(f, j) = NamesOf(d, j)
    BY <1>1, <1>4, <2>1 DEF NamesOf
  <2> QED BY <1>8, <2>2 DEF NamesKept
<1>11. ColoursKept(d, f)
  <2> SUFFICES ASSUME NEW t \in DOMAIN d.tags, NEW u \in DOMAIN f.tags,
                      d.tags[t].name = f.tags[u].name
               PROVE  d.tags[t].colour = f.tags[u].colour
    BY DEF ColoursKept
  <2>1. d.tags[t].name \in NamesIn(d.tags)
    BY DEF NamesIn
  <2>2. u \in DOMAIN d.tags /\ f.tags[u] = d.tags[u]
    BY <1>1, <1>4, <2>1
  <2>3. t = u
    BY <2>2 DEF TagsData, NamesApart
  <2> QED BY <2>2, <2>3
<1> QED BY <1>8, <1>9, <1>10, <1>11 DEF f

\* The sizes of a chain of sets, one for each element and with it, are the numbers from 1.
LEMMA ChainPlaces ==
    ASSUME NEW S, IsFiniteSet(S), NEW up \in [S -> SUBSET S], \A n \in S : n \in up[n],
           \A n, p \in S : \/ n = p
                           \/ up[n] \in SUBSET up[p] /\ p \notin up[n]
                           \/ up[p] \in SUBSET up[n] /\ n \notin up[p]
    PROVE  /\ \A n \in S : Cardinality(up[n]) \in 1 .. Cardinality(S)
           /\ \A n, p \in S : Cardinality(up[n]) = Cardinality(up[p]) => n = p
           /\ \A k \in 1 .. Cardinality(S) : \E n \in S : Cardinality(up[n]) = k
           /\ Cardinality(S) \in Nat
<1> DEFINE N == 1 .. Cardinality(S)
           f == [n \in S |-> Cardinality(up[n])]
<1>1. ASSUME NEW n \in S
      PROVE  IsFiniteSet(up[n]) /\ Cardinality(up[n]) \in N
  <2>1. up[n] \in SUBSET S /\ up[n] # {}
    OBVIOUS
  <2>2. IsFiniteSet(up[n]) /\ Cardinality(up[n]) <= Cardinality(S)
    BY <2>1, FS_Subset
  <2>3. Cardinality(up[n]) \in Nat /\ Cardinality(up[n]) # 0 /\ Cardinality(S) \in Nat
    BY <2>1, <2>2, FS_CardinalityType, FS_EmptySet
  <2> QED BY <2>2, <2>3
<1>2. ASSUME NEW n \in S, NEW p \in S, up[n] \in SUBSET up[p], p \notin up[n]
      PROVE  Cardinality(up[n]) # Cardinality(up[p])
  <2>1. up[n] # up[p]
    BY <1>2
  <2>2. IsFiniteSet(up[p])
    BY <1>1
  <2> QED BY <1>2, <2>1, <2>2, FS_Subset
<1>3. \A n, p \in S : f[n] = f[p] => n = p
  BY <1>2
<1>4. f \in Injection(S, N)
  <2>1. f \in [S -> N]
    BY <1>1
  <2> QED BY <1>3, <2>1 DEF Injection, IsInjective
<1>5. Cardinality(S) \in Nat
  BY FS_CardinalityType
<1>6. IsFiniteSet(N) /\ Cardinality(N) = Cardinality(S)
  BY <1>5, FS_Interval
<1> HIDE DEF f, N
<1>7. f \in Surjection(S, N)
  BY <1>4, <1>6, FS_Injection
<1>8. \A k \in N : \E n \in S : f[n] = k
  BY <1>7 DEF Surjection
<1> QED BY <1>1, <1>3, <1>5, <1>8 DEF f, N

\* The names of the tags are finite in number, those of records are among them.
LEMMA NamesFinite ==
    ASSUME TagsAssumption, NEW d, TagsData(d)
    PROVE  /\ IsFiniteSet(NamesIn(d.tags)) /\ NamesIn(d.tags) \in SUBSET Labels
           /\ \A i \in DOMAIN d.records :
                 /\ NamesOf(d, i) \in SUBSET NamesIn(d.tags)
                 /\ NamesOf(d, i) = {d.tags[t].name : t \in d.records[i].tags}
<1> DEFINE f == [t \in DOMAIN d.tags |-> d.tags[t].name]
<1>1. f \in Surjection(DOMAIN d.tags, NamesIn(d.tags))
  BY DEF Surjection, NamesIn
<1>2. IsFiniteSet(DOMAIN d.tags)
  BY DataRows DEF Ids
<1>3. IsFiniteSet(NamesIn(d.tags))
  BY <1>1, <1>2, FS_Surjection
<1>4. NamesIn(d.tags) \in SUBSET Labels
  <2>1. \A t \in DOMAIN d.tags : d.tags[t] \in TagRow
    BY DataRows
  <2>2. \A t \in DOMAIN d.tags : d.tags[t].name \in Labels
    BY <2>1 DEF TagRow
  <2> QED BY <2>2 DEF NamesIn
<1>5. ASSUME NEW i \in DOMAIN d.records
      PROVE  /\ NamesOf(d, i) \in SUBSET NamesIn(d.tags)
             /\ NamesOf(d, i) = {d.tags[t].name : t \in d.records[i].tags}
  <2>1. d.records[i].tags \cap DOMAIN d.tags = d.records[i].tags
    BY DataRows
  <2> QED BY <2>1 DEF NamesOf, NamesIn
<1> QED BY <1>3, <1>4, <1>5

\* The tables made again from the records: each has the names it had.
LEMMA RebuiltData ==
    ASSUME TagsAssumption, NEW d, TagsData(d)
    PROVE  LET e == Rebuilt(d)
           IN  TagsData(e) /\ UsesRight(e) /\ NamesKept(d, e, DOMAIN d.records)
<1> DEFINE names    == UNION {NamesOf(d, i) : i \in DOMAIN d.records}
           first(n) == Min({i \in DOMAIN d.records : n \in NamesOf(d, i)})
           upto(n)  == {m \in names :
                           first(m) < first(n) \/ (first(m) = first(n) /\ m <= n)}
           place(n) == Cardinality(upto(n))
           N        == Cardinality(names)
           name(t)  == CHOOSE n \in names : place(n) = t
           T        == [i \in DOMAIN d.records |-> {place(n) : n \in NamesOf(d, i)}]
           tags     == [t \in 1 .. N |-> Unused(name(t))]
           rows  == [i \in DOMAIN d.records |-> [d.records[i] EXCEPT
                          !.tags = {place(n) : n \in NamesOf(d, i)}]]
           r        == [tags |-> tags, counter |-> N, records |-> rows]
<1>1. Rebuilt(d) = Counted(r)
  BY DEF Rebuilt
<1>2. names \in SUBSET NamesIn(d.tags) /\ names \in SUBSET Labels /\ IsFiniteSet(names)
      /\ names \in SUBSET Nat
  <2>1. names \in SUBSET NamesIn(d.tags)
    BY NamesFinite
  <2>2. IsFiniteSet(names) /\ names \in SUBSET Labels
    BY <2>1, NamesFinite, FS_Subset
  <2> QED BY <2>1, <2>2 DEF TagsAssumption
<1>3. ASSUME NEW n \in names
      PROVE  first(n) \in Nat
  <2> DEFINE I == {i \in DOMAIN d.records : n \in NamesOf(d, i)}
  <2>1. I # {}
    OBVIOUS
  <2>2. I \in SUBSET (1 .. Len(d.records)) /\ Len(d.records) \in Nat
    BY DataRows
  <2>3. Ids(I)
    BY <2>2, IdsOfInterval
  <2>4. Min(I) \in I
    BY <2>1, <2>3, MinIsMember
  <2> QED BY <2>2, <2>4
<1>4. \A i \in DOMAIN d.records : NamesOf(d, i) \in SUBSET names
  OBVIOUS
<1>5. r.tags = tags /\ r.counter = N /\ r.records = rows
  OBVIOUS
<1> HIDE DEF first, names, r
<1>6. /\ \A n \in names : place(n) \in 1 .. N
      /\ \A n, p \in names : place(n) = place(p) => n = p
      /\ \A k \in 1 .. N : \E n \in names : place(n) = k
      /\ N \in Nat
  <2> DEFINE up == [n \in names |-> upto(n)]
  <2>1. up \in [names -> SUBSET names]
    OBVIOUS
  <2>2. \A n \in names : n \in up[n]
    BY <1>2, <1>3
  <2>3. ASSUME NEW n \in names, NEW p \in names
        PROVE  \/ n = p
               \/ up[n] \in SUBSET up[p] /\ p \notin up[n]
               \/ up[p] \in SUBSET up[n] /\ n \notin up[p]
    <3>1. \A m \in names : m \in Nat /\ first(m) \in Nat
      BY <1>2, <1>3
    <3>2. CASE first(n) < first(p) \/ (first(n) = first(p) /\ n < p)
      BY <3>1, <3>2
    <3>3. CASE first(p) < first(n) \/ (first(n) = first(p) /\ p < n)
      BY <3>1, <3>3
    <3> QED BY <3>1, <3>2, <3>3
  <2> HIDE DEF up
  <2>4. /\ \A n \in names : Cardinality(up[n]) \in 1 .. N
        /\ \A n, p \in names : Cardinality(up[n]) = Cardinality(up[p]) => n = p
        /\ \A k \in 1 .. N : \E n \in names : Cardinality(up[n]) = k
        /\ N \in Nat
    BY <1>2, <2>1, <2>2, <2>3, ChainPlaces
  <2>5. \A n \in names : up[n] = upto(n)
    BY DEF up
  <2> HIDE DEF upto
  <2> QED BY <2>4, <2>5
<1> HIDE DEF place, N
<1>7. \A t \in 1 .. N : name(t) \in names /\ place(name(t)) = t
  BY <1>6
<1>8. \A n \in names : name(place(n)) = n
  BY <1>6
<1> HIDE DEF name
<1>9. \A t \in 1 .. N : tags[t] \in TagRow /\ tags[t].name = name(t)
  <2>1. \A n \in Labels : Unused(n) \in TagRow /\ Unused(n).name = n
    BY DEF TagRow, Unused, TagsAssumption
  <2> QED BY <1>2, <1>7, <2>1
<1>10. TableOf(r.tags, r.counter, TagRow)
  BY <1>5, <1>6, <1>9 DEF TableOf
<1>11. NamesApart(r.tags)
  <2>1. \A t, u \in 1 .. N : name(t) = name(u) => t = u
    BY <1>7
  <2> QED BY <1>5, <1>9, <2>1 DEF NamesApart
<1>12. r = [tags |-> r.tags, counter |-> r.counter, records |-> r.records]
  BY DEF r
<1>13. T \in [DOMAIN d.records -> SUBSET DOMAIN r.tags] /\ Retags(d, r, T)
  <2>1. DOMAIN r.tags = 1 .. N
    BY <1>5
  <2>2. \A i \in DOMAIN d.records : {place(n) : n \in NamesOf(d, i)} \in SUBSET DOMAIN r.tags
    BY <1>4, <1>6, <2>1
  <2>3. T \in [DOMAIN d.records -> SUBSET DOMAIN r.tags]
    BY <2>2
  <2>4. \A i \in DOMAIN d.records : T[i] = {place(n) : n \in NamesOf(d, i)}
    OBVIOUS
  <2> HIDE DEF T
  <2>5. r.records = [i \in DOMAIN d.records |-> [d.records[i] EXCEPT !.tags = T[i]]]
    BY <1>5, <2>4
  <2> QED BY <2>3, <2>5 DEF Retags
<1>14. /\ TagsData(r) /\ DOMAIN r.records = DOMAIN d.records
       /\ \A i \in DOMAIN d.records : r.records[i].tags = T[i]
  <2> HIDE DEF T
  <2> QED BY <1>10, <1>11, <1>12, <1>13, RetaggedData
<1>15. ASSUME NEW i \in DOMAIN d.records
       PROVE  NamesOf(r, i) = NamesOf(d, i)
  <2>1. \A n \in NamesOf(d, i) : r.tags[place(n)].name = n
    BY <1>4, <1>5, <1>6, <1>8, <1>9
  <2>2. T[i] = {place(n) : n \in NamesOf(d, i)}
    OBVIOUS
  <2> HIDE DEF T, tags
  <2>3. NamesOf(r, i) = {r.tags[t].name : t \in r.records[i].tags}
    BY <1>14, NamesFinite
  <2>4. r.records[i].tags = {place(n) : n \in NamesOf(d, i)}
    BY <1>14, <2>2
  <2> QED BY <2>1, <2>3, <2>4
<1>16. NamesKept(d, r, DOMAIN d.records)
  BY <1>14, <1>15 DEF NamesKept
<1> HIDE DEF T
<1>17. Recounted(r, Counted(r)) /\ UsesRight(Counted(r))
  BY <1>14, CountedData
<1>18. NamesKept(d, Counted(r), DOMAIN d.records)
  BY <1>14, <1>16, <1>17, KeptOver DEF Recounted
<1> QED BY <1>1, <1>17, <1>18 DEF Recounted

\* Other rows under the same ids.
LEMMA OtherRows ==
    ASSUME TagsAssumption, NEW d, TagsData(d), NEW tags, DOMAIN tags = DOMAIN d.tags,
           tags \in [DOMAIN d.tags -> TagRow], NamesApart(tags)
    PROVE  LET e == [d EXCEPT !.tags = tags]
           IN  TagsData(e) /\ e.tags = tags /\ e.records = d.records /\ e.counter = d.counter
<1> DEFINE e == [d EXCEPT !.tags = tags]
<1>1. e = [tags |-> tags, counter |-> d.counter, records |-> d.records]
  BY TagsReplaced DEF TagsData
<1>2. /\ e.tags = tags /\ e.counter = d.counter /\ e.records = d.records
      /\ e = [tags |-> e.tags, counter |-> e.counter, records |-> e.records]
  BY <1>1
<1> HIDE DEF e
<1>3. TableOf(e.tags, e.counter, TagRow)
  BY <1>2 DEF TagsData, TableOf
<1>4. e.records \in Seq(TaggedRecord(e.tags))
  BY <1>2 DEF TagsData, TaggedRecord
<1>5. TagsData(e)
  BY <1>2, <1>3, <1>4 DEF TagsData
<1> QED BY <1>2, <1>5 DEF e

\* Other records with the same tags to choose from.
LEMMA OtherRecords ==
    ASSUME TagsAssumption, NEW d, TagsData(d), NEW rows \in Seq(TaggedRecord(d.tags))
    PROVE  LET e == [d EXCEPT !.records = rows]
           IN  TagsData(e) /\ e.tags = d.tags /\ e.records = rows /\ ColoursKept(d, e)
<1> DEFINE e == [d EXCEPT !.records = rows]
<1>1. e = [tags |-> d.tags, counter |-> d.counter, records |-> rows]
  BY TagsReplaced DEF TagsData
<1>2. /\ e.tags = d.tags /\ e.counter = d.counter /\ e.records = rows
      /\ e = [tags |-> e.tags, counter |-> e.counter, records |-> e.records]
  BY <1>1
<1> HIDE DEF e
<1>3. TagsData(e)
  BY <1>2 DEF TagsData
<1>4. ColoursKept(d, e)
  BY <1>2 DEF ColoursKept, TagsData, NamesApart
<1> QED BY <1>2, <1>3, <1>4 DEF e

-----------------------------------------------------------------------------
\* The tables hold, and whenever no deletion is under way or was cut off, the uses are right.
TagsInv ==
    /\ TagsData(db)
    /\ pending \in {"no", "gap", "tail"} /\ cut \in BOOLEAN
    /\ pending = "no" /\ ~cut => UsesRight(db)

\* Uses that are right give the audit nothing to find.
LEMMA NothingFound ==
    ASSUME TagsAssumption, TagsData(db), UsesRight(db)
    PROVE  Findings = {}
<1> DEFINE links == {l \in (DOMAIN db.records) \X (DOMAIN db.tags) : l[2] \in db.records[l[1]].tags}
           lost == {l \in links : l[1] \notin DOMAIN db.records \/ l[2] \notin DOMAIN db.tags}
           of(t) == {l \in links \ lost : l[2] = t}
<1>1. lost = {}
  OBVIOUS
<1>2. ASSUME NEW t \in DOMAIN db.tags
      PROVE  db.tags[t].uses = Cardinality(of(t))
  <2> DEFINE f == [i \in Users(db, t) |-> <<i, t>>]
  <2>1. of(t) = {<<i, t>> : i \in Users(db, t)}
    BY <1>1 DEF Users
  <2>2. f \in Bijection(Users(db, t), of(t))
    BY <2>1 DEF Bijection, Injection, IsInjective, Surjection
  <2>3. IsFiniteSet(Users(db, t)) /\ ExistsBijection(Users(db, t), of(t))
    BY <2>2, UsersFinite DEF ExistsBijection
  <2>4. Cardinality(of(t)) = Cardinality(Users(db, t))
    BY <2>3, FS_Bijection
  <2> QED BY <2>4 DEF UsesRight
<1>3. \A t \in DOMAIN db.tags : ~ \E u \in DOMAIN db.tags : u < t /\ db.tags[u].name = db.tags[t].name
  <2>1. \A t \in DOMAIN db.tags : t \in Nat
    BY DataRows DEF Ids
  <2> QED BY <2>1 DEF TagsData, NamesApart
<1>4. Findings =
        {Audit!Finding("tag_integrity", "error", i) :
            i \in {t \in DOMAIN db.tags :
                      \E u \in DOMAIN db.tags : u < t /\ db.tags[u].name = db.tags[t].name}}
        \cup {Audit!Finding("tag_integrity", "error", l[2]) : l \in lost}
        \cup {Audit!Finding("tag_integrity", "warning", i) :
            i \in {t \in DOMAIN db.tags : db.tags[t].uses # Cardinality(of(t))}}
  <2>1. Findings = Audit!TagFindings(db.tags, links, DOMAIN db.records)
    BY DEF Findings
  <2>2. \A S : Audit!Cardinality(S) = Cardinality(S)
    BY DEF Audit!Cardinality, Cardinality
  <2> HIDE DEF links
  <2> QED BY <2>1, <2>2 DEF Audit!TagFindings, Audit!Objections
<1> HIDE DEF lost, of
<1> QED BY <1>1, <1>2, <1>3, <1>4

\* The invariant gives the types and the property of the uses.
LEMMA TagsInvMeans ==
    ASSUME TagsAssumption, TagsInv
    PROVE  TagsTypeOK /\ (pending = "no" /\ ~cut => UsesAreCounted)
<1>1. TagsTypeOK
  BY DataRows DEF TagsInv, TagsData, NamesApart, TagRow, TagsTypeOK
<1>2. pending = "no" /\ ~cut => UsesAreCounted
  <2> SUFFICES ASSUME pending = "no", ~cut
               PROVE  /\ Findings = {}
                      /\ \A t \in DOMAIN db.tags : Users(db, t) # {} =>
                            db.tags[t].last = Max({db.records[i].date : i \in Users(db, t)})
    BY DEF UsesAreCounted
  <2>1. Findings = {} /\ UsesRight(db)
    BY NothingFound DEF TagsInv
  <2> QED BY <2>1 DEF UsesRight, DatesOf
<1> QED BY <1>1, <1>2

\* What every step must do.
StepKeeps == TagsInv' /\ KeepsTags /\ KeepsColours

\* Names and colours kept from one state to the next.
LEMMA KeptInStep ==
    /\ NamesKept(db, db', DOMAIN db.records) => KeepsTags
    /\ ColoursKept(db, db') => KeepsColours
<1>1. ASSUME NamesKept(db, db', DOMAIN db.records)
      PROVE  KeepsTags
  BY <1>1 DEF NamesKept, KeepsTags
<1> QED BY <1>1 DEF ColoursKept, KeepsColours

\* A new record gets its names, beside what there was.
LEMMA SaveRecordKeeps ==
    ASSUME TagsAssumption, TagsInv, NEW ns \in NameSets, NEW date \in TagDates, SaveRecord(ns, date)
    PROVE  StepKeeps
<1> DEFINE new     == [date |-> date, tags |-> {}]
           rows  == Append(db.records, new)
           added   == [db EXCEPT !.records = rows]
           n       == Len(added.records)
           f       == Labelled(added, n, ns)
<1>1. TagsData(db) /\ ns \in SUBSET Labels /\ IsFiniteSet(ns)
  BY DEF TagsInv, NameSets
<1>2. new \in TaggedRecord(db.tags) /\ db.records \in Seq(TaggedRecord(db.tags))
  BY <1>1 DEF TaggedRecord, TagsData
<1> HIDE DEF new
<1>3. /\ rows \in Seq(TaggedRecord(db.tags)) /\ Len(rows) = Len(db.records) + 1
      /\ \A i \in 1 .. Len(db.records) : rows[i] = db.records[i]
  BY <1>2, AppendProperties, LenProperties
<1> HIDE DEF rows
<1>4. TagsData(added) /\ added.tags = db.tags /\ added.records = rows
  BY <1>1, <1>3, OtherRecords
<1>5. db' = Counted(f) /\ pending = "no" /\ pending' = pending /\ cut' = FALSE
  BY DEF SaveRecord, CountsUses, rows, new
<1> HIDE DEF added
<1>6. n \in DOMAIN added.records /\ n = Len(db.records) + 1 /\ DOMAIN db.records = 1 .. Len(db.records)
      /\ Len(db.records) \in Nat
  BY <1>1, <1>3, <1>4, DataRows
<1> HIDE DEF n
<1>7. TagsData(f) /\ NamesKept(added, f, DOMAIN added.records \ {n}) /\ ColoursKept(added, f)
  BY <1>1, <1>4, <1>6, LabelledData
<1> HIDE DEF f
<1>8. Recounted(f, db') /\ UsesRight(db')
  BY <1>5, <1>7, CountedData
<1>9. TagsInv'
  BY <1>5, <1>8 DEF TagsInv, Recounted
<1>10. KeepsTags
  <2>1. NamesKept(added, db', DOMAIN added.records \ {n})
    BY <1>7, <1>8 DEF NamesKept, Recounted
  <2>2. \A i \in DOMAIN db.records : NamesOf(added, i) = NamesOf(db, i)
    BY <1>3, <1>4, <1>6 DEF NamesOf
  <2>3. \A i \in DOMAIN db.records : i \in DOMAIN added.records \ {n}
    BY <1>3, <1>4, <1>6, LenProperties
  <2>4. \A i \in DOMAIN db.records : NamesOf(db', i) = NamesOf(db, i)
    BY <2>1, <2>2, <2>3 DEF NamesKept
  <2> QED BY <2>4 DEF KeepsTags
<1>11. KeepsColours
  <2>1. ColoursKept(db, f)
    BY <1>4, <1>7 DEF ColoursKept
  <2> QED BY <1>8, <2>1, KeptOver, KeptInStep DEF Recounted
<1> QED BY <1>9, <1>10, <1>11 DEF StepKeeps

\* A record saved again gets its names, and no other record changes.
LEMMA ReplaceRecordKeeps ==
    ASSUME TagsAssumption, TagsInv, NEW ns \in NameSets, NEW date \in TagDates,
           NEW i \in DOMAIN db.records, ReplaceRecord(i, ns, date)
    PROVE  StepKeeps
<1> DEFINE new     == [db.records[i] EXCEPT !.date = date]
           rows == [db.records EXCEPT ![i] = new]
           dated   == [db EXCEPT !.records = rows]
           f       == Labelled(dated, i, ns)
<1>1. TagsData(db) /\ ns \in SUBSET Labels /\ IsFiniteSet(ns)
  BY DEF TagsInv, NameSets
<1>2. new \in TaggedRecord(db.tags) /\ new.tags = db.records[i].tags
  <2>1. db.records[i] \in TaggedRecord(db.tags)
    BY <1>1, DataRows
  <2> QED BY <2>1 DEF TaggedRecord
<1>3. db.records \in Seq(TaggedRecord(db.tags)) /\ i \in 1 .. Len(db.records)
  BY <1>1, DataRows DEF TagsData
<1>4. db' = Counted(f) /\ pending = "no" /\ pending' = pending /\ cut' = FALSE
  BY DEF ReplaceRecord, CountsUses
<1> HIDE DEF new
<1>5. rows \in Seq(TaggedRecord(db.tags))
  BY <1>2, <1>3, ExceptSeq
<1>6. DOMAIN rows = DOMAIN db.records
      /\ \A j \in DOMAIN db.records : rows[j].tags = db.records[j].tags
  BY <1>2
<1> HIDE DEF rows
<1>7. TagsData(dated) /\ dated.tags = db.tags /\ dated.records = rows
  BY <1>1, <1>5, OtherRecords
<1> HIDE DEF dated
<1>8. /\ TagsData(f) /\ NamesKept(dated, f, DOMAIN dated.records \ {i}) /\ NamesOf(f, i) = ns
      /\ ColoursKept(dated, f)
  BY <1>1, <1>6, <1>7, LabelledData
<1> HIDE DEF f
<1>9. Recounted(f, db') /\ UsesRight(db')
  BY <1>4, <1>8, CountedData
<1>10. TagsInv'
  BY <1>4, <1>9 DEF TagsInv, Recounted
<1>11. KeepsTags
  <2>1. DOMAIN f.records = DOMAIN db.records /\ DOMAIN db'.records = DOMAIN db.records
    BY <1>6, <1>7, <1>8, <1>9 DEF NamesKept, Recounted
  <2>2. NamesOf(db', i) = ns
    BY <1>8, <1>9, <2>1 DEF NamesKept, Recounted
  <2>3. \A j \in DOMAIN db.records : NamesOf(dated, j) = NamesOf(db, j)
    BY <1>6, <1>7 DEF NamesOf
  <2>4. \A j \in DOMAIN db.records \ {i} :
           NamesOf(f, j) = NamesOf(dated, j) /\ NamesOf(db', j) = NamesOf(f, j)
    BY <1>6, <1>7, <1>8, <1>9, <2>1 DEF NamesKept, Recounted
  <2>5. \A j \in DOMAIN db.records \ {i} : NamesOf(db', j) = NamesOf(db, j)
    BY <2>3, <2>4
  <2>6. ReplaceRecord(i, NamesOf(db', i), date)
    BY <2>2
  <2> HIDE DEF ReplaceRecord
  <2> QED BY <2>5, <2>6 DEF KeepsTags
<1>12. KeepsColours
  <2>1. ColoursKept(db, f)
    BY <1>7, <1>8 DEF ColoursKept
  <2> QED BY <1>9, <2>1, KeptOver, KeptInStep DEF Recounted
<1> QED BY <1>10, <1>11, <1>12 DEF StepKeeps

\* A deletion, up to its commit, leaves the tags and their colours.
LEMMA DeleteRecordKeeps ==
    ASSUME TagsAssumption, TagsInv, NEW i \in DOMAIN db.records, DeleteRecord(i)
    PROVE  StepKeeps
<1> DEFINE n      == Len(db.records)
           before == SubSeq(db.records, 1, i - 1)
           after  == SubSeq(db.records, i + 1, n)
           S      == TaggedRecord(db.tags)
<1>1. TagsData(db) /\ n \in Nat /\ i \in 1 .. n
      /\ \A j \in 1 .. n : db.records[j] \in S
  BY DataRows DEF TagsInv
<1>2. db' = [db EXCEPT !.records = before \o after] /\ pending' \in {"gap", "tail"} /\ cut' = cut
  BY DEF DeleteRecord
<1> HIDE DEF n
<1>3. before \in Seq(S)
  <2>1. 1 \in Int /\ i - 1 \in Int /\ \A j \in 1 .. i - 1 : j \in 1 .. n
    BY <1>1
  <2>2. \A j \in 1 .. i - 1 : db.records[j] \in S
    BY <1>1, <2>1
  <2> HIDE DEF S
  <2> QED BY <2>1, <2>2, SubSeqProperties
<1>4. after \in Seq(S)
  <2>1. i + 1 \in Int /\ n \in Int /\ \A j \in i + 1 .. n : j \in 1 .. n
    BY <1>1
  <2>2. \A j \in i + 1 .. n : db.records[j] \in S
    BY <1>1, <2>1
  <2> HIDE DEF S
  <2> QED BY <2>1, <2>2, SubSeqProperties
<1> HIDE DEF before, after
<1>5. before \o after \in Seq(S)
  BY <1>3, <1>4, ConcatProperties
<1>6. TagsData(db') /\ ColoursKept(db, db')
  BY <1>1, <1>2, <1>5, OtherRecords
<1>7. TagsInv'
  BY <1>2, <1>6 DEF TagsInv
<1>8. KeepsTags
  BY DEF KeepsTags
<1> QED BY <1>6, <1>7, <1>8, KeptInStep DEF StepKeeps

\* The rewrite after a deletion keeps the names of every record, not the colours.
LEMMA RenumberKeeps ==
    ASSUME TagsAssumption, TagsInv, pending # "no", db' = Rebuilt(db), pending' = "no", cut' = FALSE
    PROVE  StepKeeps
<1>1. TagsData(db') /\ UsesRight(db') /\ NamesKept(db, db', DOMAIN db.records)
  BY RebuiltData DEF TagsInv
<1>2. TagsInv'
  BY <1>1 DEF TagsInv
<1> QED BY <1>1, <1>2, KeptInStep DEF StepKeeps, KeepsColours

\* With all records deleted no tag is used, and none is left.
LEMMA DeleteAllKeeps ==
    ASSUME TagsAssumption, TagsInv, DeleteAllRecords
    PROVE  StepKeeps
<1> DEFINE x == [db EXCEPT !.records = <<>>]
<1>1. TagsData(db) /\ <<>> \in Seq(TaggedRecord(db.tags))
  BY EmptySeq DEF TagsInv
<1>2. TagsData(x) /\ x.records = <<>> /\ ColoursKept(db, x)
  BY <1>1, OtherRecords
<1>3. db' = Pruned(x) /\ pending = "no" /\ pending' = pending /\ cut' = FALSE
  BY DEF DeleteAllRecords, CountsUses
<1> HIDE DEF x
<1>4. UsedRight(x)
  BY <1>2 DEF UsedRight, Users
<1>5. Recounted(x, db') /\ UsesRight(db')
  BY <1>2, <1>3, <1>4, PrunedData
<1>6. TagsInv'
  BY <1>3, <1>5 DEF TagsInv, Recounted
<1>7. KeepsTags
  BY <1>2, <1>5 DEF KeepsTags, Recounted, NamesKept
<1> QED BY <1>2, <1>5, <1>6, <1>7, KeptOver, KeptInStep DEF StepKeeps, Recounted

\* A renamed tag whose name is new: its row has the new name.
LEMMA RenamedRow ==
    ASSUME TagsAssumption, NEW d, TagsData(d), NEW o \in DOMAIN d.tags, NEW new \in Labels,
           new \notin NamesIn(d.tags) \/ new = d.tags[o].name
    PROVE  LET x == [d EXCEPT !.tags = [d.tags EXCEPT ![o] = [d.tags[o] EXCEPT !.name = new]]]
           IN  /\ TagsData(x) /\ DOMAIN x.records = DOMAIN d.records /\ ColoursKept(d, x)
               /\ \A i \in DOMAIN d.records : NamesOf(x, i) =
                     {IF m = d.tags[o].name THEN new ELSE m : m \in NamesOf(d, i)}
<1> DEFINE row  == [d.tags[o] EXCEPT !.name = new]
           tags == [d.tags EXCEPT ![o] = row]
           x    == [d EXCEPT !.tags = tags]
           old  == d.tags[o].name
<1>1. /\ row \in TagRow /\ row.name = new /\ row.colour = d.tags[o].colour
      /\ \A t \in DOMAIN d.tags : d.tags[t] \in TagRow
  <2>1. \A t \in DOMAIN d.tags : d.tags[t] \in TagRow
    BY DataRows
  <2> QED BY <2>1 DEF TagRow
<1> HIDE DEF row
<1>2. /\ DOMAIN tags = DOMAIN d.tags /\ tags \in [DOMAIN d.tags -> TagRow]
      /\ tags[o] = row /\ \A t \in DOMAIN d.tags : t # o => tags[t] = d.tags[t]
  BY <1>1
<1> HIDE DEF tags
<1>3. \A t \in DOMAIN d.tags : t # o => d.tags[t].name # new /\ d.tags[t].name # old
  <2>1. \A t \in DOMAIN d.tags : d.tags[t].name = d.tags[o].name => t = o
    BY DEF TagsData, NamesApart
  <2> QED BY <2>1 DEF NamesIn
<1>4. NamesApart(tags)
  <2>1. \A t, u \in DOMAIN d.tags : d.tags[t].name = d.tags[u].name => t = u
    BY DEF TagsData, NamesApart
  <2> QED BY <1>1, <1>2, <1>3, <2>1 DEF NamesApart
<1>5. TagsData(x) /\ x.tags = tags /\ x.records = d.records
  BY <1>2, <1>4, OtherRows
<1> HIDE DEF x
<1>6. ColoursKept(d, x)
  <2> SUFFICES ASSUME NEW t \in DOMAIN d.tags, NEW u \in DOMAIN d.tags, d.tags[t].name = tags[u].name
               PROVE  d.tags[t].colour = tags[u].colour
    BY <1>2, <1>5 DEF ColoursKept
  <2>1. CASE u = o
    <3>1. t = o
      BY <1>1, <1>2, <1>3, <2>1
    <3> QED BY <1>1, <1>2, <2>1, <3>1
  <2>2. CASE u # o
    BY <1>2, <2>2 DEF TagsData, NamesApart
  <2> QED BY <2>1, <2>2
<1>7. ASSUME NEW i \in DOMAIN d.records
      PROVE  NamesOf(x, i) = {IF m = old THEN new ELSE m : m \in NamesOf(d, i)}
  <2>0. NamesOf(x, i) = {x.tags[t].name : t \in x.records[i].tags}
    BY <1>5, NamesFinite
  <2>1. /\ NamesOf(x, i) = {tags[t].name : t \in d.records[i].tags}
        /\ NamesOf(d, i) = {d.tags[t].name : t \in d.records[i].tags}
        /\ d.records[i].tags \in SUBSET DOMAIN d.tags
    BY <1>5, <2>0, NamesFinite, DataRows
  <2>2. \A t \in DOMAIN d.tags : tags[t].name = IF d.tags[t].name = old THEN new ELSE d.tags[t].name
    BY <1>1, <1>2, <1>3
  <2> HIDE DEF old
  <2> QED BY <2>1, <2>2
<1> QED BY <1>5, <1>6, <1>7 DEF x, tags, row

\* The tables without the row of tag o: the records that had it have the tags N for it.
Taken(d, o, N) ==
    [tags |-> Without(d.tags, {o}),
     counter |-> d.counter,
     records |-> [i \in DOMAIN d.records |-> [d.records[i] EXCEPT
        !.tags = IF o \in @ THEN (@ \ {o}) \cup N ELSE @]]]

\* A name is taken from every record that has it, for the names of N.
LEMMA TagTaken ==
    ASSUME TagsAssumption, NEW d, TagsData(d), NEW o \in DOMAIN d.tags, NEW N \in SUBSET DOMAIN d.tags,
           o \notin N
    PROVE  LET x == Taken(d, o, N)
           IN  /\ TagsData(x) /\ DOMAIN x.records = DOMAIN d.records /\ RowsFrom(d, x)
               /\ \A i \in DOMAIN d.records : NamesOf(x, i) =
                     IF d.tags[o].name \in NamesOf(d, i)
                     THEN (NamesOf(d, i) \ {d.tags[o].name}) \cup {d.tags[t].name : t \in N}
                     ELSE NamesOf(d, i)
<1> DEFINE T == [i \in DOMAIN d.records |->
                    IF o \in d.records[i].tags THEN (d.records[i].tags \ {o}) \cup N
                    ELSE d.records[i].tags]
           x == Taken(d, o, N)
           old == d.tags[o].name
<1>1. /\ x = [tags |-> x.tags, counter |-> x.counter, records |-> x.records]
      /\ x.tags = Without(d.tags, {o}) /\ x.counter = d.counter /\ Retags(d, x, T)
  BY DEF Retags, Taken
<1> HIDE DEF x
<1>2. /\ TableOf(x.tags, x.counter, TagRow) /\ DOMAIN x.tags = DOMAIN d.tags \ {o}
      /\ \A t \in DOMAIN x.tags : x.tags[t] = d.tags[t]
  <2>1. TableOf(d.tags, d.counter, TagRow)
    BY DEF TagsData
  <2>2. /\ TableOf(Without(d.tags, {o}), d.counter, TagRow)
        /\ DOMAIN Without(d.tags, {o}) = DOMAIN d.tags \ {o}
        /\ \A t \in DOMAIN Without(d.tags, {o}) : Without(d.tags, {o})[t] = d.tags[t]
    BY <2>1, RowsRemoved
  <2> QED BY <1>1, <2>2
<1>3. NamesApart(x.tags)
  BY <1>2 DEF TagsData, NamesApart
<1>4. T \in [DOMAIN d.records -> SUBSET DOMAIN x.tags]
  <2>1. \A i \in DOMAIN d.records : d.records[i].tags \in SUBSET DOMAIN d.tags
    BY DataRows
  <2> QED BY <1>2, <2>1
<1>5. /\ TagsData(x) /\ DOMAIN x.records = DOMAIN d.records
      /\ \A i \in DOMAIN d.records : x.records[i].tags = T[i]
  <2> HIDE DEF T
  <2> QED BY <1>1, <1>2, <1>3, <1>4, RetaggedData
<1>6. RowsFrom(d, x)
  BY <1>2 DEF RowsFrom
<1>7. ASSUME NEW i \in DOMAIN d.records
      PROVE  NamesOf(x, i) = IF old \in NamesOf(d, i)
                             THEN (NamesOf(d, i) \ {old}) \cup {d.tags[t].name : t \in N}
                             ELSE NamesOf(d, i)
  <2> DEFINE ts == d.records[i].tags
  <2>2. T[i] = IF o \in ts THEN (ts \ {o}) \cup N ELSE ts
    OBVIOUS
  <2>a. T[i] \in SUBSET DOMAIN x.tags
    BY <1>4
  <2>b. ts \in SUBSET DOMAIN d.tags
    BY DataRows
  <2>c. NamesOf(x, i) = {x.tags[t].name : t \in x.records[i].tags}
    BY <1>5, NamesFinite
  <2> HIDE DEF T
  <2>1. /\ NamesOf(x, i) = {x.tags[t].name : t \in T[i]}
        /\ NamesOf(d, i) = {d.tags[t].name : t \in ts}
        /\ ts \in SUBSET DOMAIN d.tags /\ T[i] \in SUBSET DOMAIN x.tags
    BY <1>5, <2>a, <2>b, <2>c, NamesFinite
  <2>3. NamesOf(x, i) = {d.tags[t].name : t \in T[i]}
    BY <1>2, <2>1
  <2>4. \A t \in DOMAIN d.tags : d.tags[t].name = old <=> t = o
    BY DEF TagsData, NamesApart
  <2> HIDE DEF ts, T, old
  <2>5. old \in NamesOf(d, i) <=> o \in ts
    BY <2>1, <2>4
  <2>6. {d.tags[t].name : t \in ts \ {o}} = NamesOf(d, i) \ {old}
    BY <2>1, <2>4
  <2>7. CASE o \in ts
    <3>1. NamesOf(x, i) = {d.tags[t].name : t \in ts \ {o}} \cup {d.tags[t].name : t \in N}
      BY <2>2, <2>3, <2>7
    <3> QED BY <2>5, <2>6, <2>7, <3>1
  <2>8. CASE o \notin ts
    BY <2>1, <2>2, <2>3, <2>5, <2>8
  <2> QED BY <2>7, <2>8
<1> QED BY <1>5, <1>6, <1>7 DEF x

\* A renamed tag has the new name in all its records, joined with the tag that had it or not.
LEMMA RenameTagKeeps ==
    ASSUME TagsAssumption, TagsInv, NEW old \in Labels, NEW new \in Labels, RenameTag(old, new)
    PROVE  StepKeeps
<1> DEFINE o == IdOf(db.tags, old)
           n == IdOf(db.tags, new)
           merged == Taken(db, o, {n})
           moved  == [db EXCEPT !.tags = [db.tags EXCEPT ![o] = [db.tags[o] EXCEPT !.name = new]]]
           Becomes(x) ==
               /\ TagsData(x) /\ DOMAIN x.records = DOMAIN db.records /\ ColoursKept(db, x)
               /\ \A i \in DOMAIN db.records : NamesOf(x, i) =
                     {IF m = old THEN new ELSE m : m \in NamesOf(db, i)}
<1>1. TagsData(db) /\ old \in NamesIn(db.tags) /\ cut' = FALSE /\ pending = "no" /\ pending' = pending
  BY DEF TagsInv, RenameTag, CountsUses
<1>2. o \in DOMAIN db.tags /\ db.tags[o].name = old
  BY <1>1, IdOfName
<1>3. PICK x : db' = Counted(x) /\ Becomes(x)
  <2>1. CASE new \in NamesIn(db.tags) \ {old}
    <3>1. db' = Counted(merged)
      BY <2>1 DEF RenameTag, Taken
    <3>2. n \in DOMAIN db.tags /\ db.tags[n].name = new /\ new # old
      BY <2>1, IdOfName
    <3>3. {n} \in SUBSET DOMAIN db.tags /\ o \notin {n} /\ {db.tags[t].name : t \in {n}} = {new}
      BY <1>2, <3>2
    <3> DEFINE N == {n}
    <3> HIDE DEF n, o, N
    <3>4. /\ TagsData(merged) /\ DOMAIN merged.records = DOMAIN db.records /\ RowsFrom(db, merged)
          /\ \A i \in DOMAIN db.records : NamesOf(merged, i) =
                IF db.tags[o].name \in NamesOf(db, i)
                THEN (NamesOf(db, i) \ {db.tags[o].name}) \cup {new}
                ELSE NamesOf(db, i)
      <4>1. N \in SUBSET DOMAIN db.tags /\ o \notin N /\ {db.tags[t].name : t \in N} = {new}
            /\ merged = Taken(db, o, N)
        BY <3>3 DEF N
      <4> HIDE DEF merged
      <4>2. /\ TagsData(merged) /\ DOMAIN merged.records = DOMAIN db.records /\ RowsFrom(db, merged)
            /\ \A i \in DOMAIN db.records : NamesOf(merged, i) =
                  IF db.tags[o].name \in NamesOf(db, i)
                  THEN (NamesOf(db, i) \ {db.tags[o].name}) \cup {db.tags[t].name : t \in N}
                  ELSE NamesOf(db, i)
        BY <1>1, <1>2, <4>1, TagTaken
      <4> QED BY <4>1, <4>2
    <3> HIDE DEF merged
    <3>5. \A i \in DOMAIN db.records : NamesOf(merged, i) =
              {IF m = old THEN new ELSE m : m \in NamesOf(db, i)}
      <4>1. \A M : {IF m = old THEN new ELSE m : m \in M} =
                      IF old \in M THEN (M \ {old}) \cup {new} ELSE M
        BY <3>2
      <4> QED BY <1>2, <3>3, <3>4, <4>1
    <3>6. ColoursKept(db, merged)
      BY <1>1, <3>4, RowsFromColours
    <3>7. Becomes(merged)
      BY <3>4, <3>5, <3>6
    <3> QED BY <3>1, <3>7
  <2>2. CASE new \notin NamesIn(db.tags) \ {old}
    <3>1. db' = Counted(moved)
      BY <2>2 DEF RenameTag
    <3>2. new \notin NamesIn(db.tags) \/ new = db.tags[o].name
      BY <1>2, <2>2
    <3> HIDE DEF o
    <3>3. Becomes(moved)
      BY <1>1, <1>2, <3>2, RenamedRow
    <3> QED BY <3>1, <3>3
  <2> QED BY <2>1, <2>2
<1>4. Recounted(x, db') /\ UsesRight(db')
  BY <1>3, CountedData
<1>5. TagsInv'
  BY <1>1, <1>4 DEF TagsInv, Recounted
<1>6. KeepsTags
  <2>1. \A i \in DOMAIN db.records : NamesOf(db', i) =
            {IF m = old THEN new ELSE m : m \in NamesOf(db, i)}
    BY <1>3, <1>4 DEF Recounted, NamesKept
  <2> QED BY <2>1 DEF KeepsTags
<1> QED BY <1>3, <1>4, <1>5, <1>6, KeptOver, KeptInStep DEF StepKeeps, Recounted

\* A deleted tag is gone from all records, and the others are counted.
LEMMA DeleteTagKeeps ==
    ASSUME TagsAssumption, TagsInv, NEW n \in Labels, DeleteTag(n)
    PROVE  StepKeeps
<1> DEFINE o == IdOf(db.tags, n)
           x == Taken(db, o, {})
<1>1. TagsData(db) /\ n \in NamesIn(db.tags) /\ cut' = FALSE /\ pending = "no" /\ pending' = pending
  BY DEF TagsInv, DeleteTag, CountsUses
<1>2. o \in DOMAIN db.tags /\ db.tags[o].name = n
  BY <1>1, IdOfName
<1>3. db' = Refreshed(x)
  <2>1. \A S : S \ {o} = IF o \in S THEN (S \ {o}) \cup {} ELSE S
    OBVIOUS
  <2> HIDE DEF o
  <2>2. [i \in DOMAIN db.records |-> [db.records[i] EXCEPT !.tags = @ \ {o}]] =
        [i \in DOMAIN db.records |-> [db.records[i] EXCEPT
            !.tags = IF o \in @ THEN (@ \ {o}) \cup {} ELSE @]]
    BY <2>1
  <2> QED BY <2>2 DEF DeleteTag, Taken, o
<1>4. {} \in SUBSET DOMAIN db.tags /\ o \notin {}
  OBVIOUS
<1> HIDE DEF o
<1>5. /\ TagsData(x) /\ DOMAIN x.records = DOMAIN db.records /\ RowsFrom(db, x)
      /\ \A i \in DOMAIN db.records : NamesOf(x, i) =
            IF db.tags[o].name \in NamesOf(db, i)
            THEN NamesOf(db, i) \ {db.tags[o].name}
            ELSE NamesOf(db, i)
  <2> DEFINE N == {}
  <2>1. N \in SUBSET DOMAIN db.tags /\ o \notin N /\ {db.tags[t].name : t \in N} = {}
        /\ x = Taken(db, o, N)
    BY <1>4
  <2> HIDE DEF N, x
  <2> QED BY <1>1, <1>2, <2>1, TagTaken
<1> HIDE DEF x
<1>6. \A i \in DOMAIN db.records : NamesOf(x, i) = NamesOf(db, i) \ {n}
  BY <1>2, <1>5
<1>7. /\ TagsData(db') /\ UsesRight(db') /\ db'.records = x.records /\ DOMAIN db'.tags = DOMAIN x.tags
      /\ \A t \in DOMAIN x.tags : db'.tags[t].name = x.tags[t].name /\ db'.tags[t].colour = x.tags[t].colour
  BY <1>3, <1>5, RefreshedData
<1>8. TagsInv'
  BY <1>1, <1>7 DEF TagsInv
<1>9. KeepsTags
  <2>1. \A i \in DOMAIN db.records : NamesOf(db', i) = NamesOf(x, i)
    BY <1>5, <1>7 DEF NamesOf
  <2> QED BY <1>6, <2>1 DEF KeepsTags
<1>10. KeepsColours
  <2>1. RowsFrom(db, db')
    BY <1>5, <1>7 DEF RowsFrom
  <2> QED BY <1>1, <2>1, RowsFromColours, KeptInStep
<1> QED BY <1>8, <1>9, <1>10 DEF StepKeeps

\* A colour that is set changes that of no other tag, and no use.
LEMMA SetColourKeeps ==
    ASSUME TagsAssumption, TagsInv, NEW n \in Labels, NEW c \in Colours, SetColour(n, c)
    PROVE  StepKeeps
<1> DEFINE ns   == {n}
           e    == Ensured(db, ns)
           o    == IdOf(e.tags, n)
           row  == [e.tags[o] EXCEPT !.colour = c]
           tags == [e.tags EXCEPT ![o] = row]
<1>1. TagsData(db) /\ {n} \in SUBSET Labels /\ IsFiniteSet({n}) /\ pending = "no"
      /\ pending' = pending /\ cut' = cut
  BY FS_Singleton DEF TagsInv, SetColour
<1>3. db' = [e EXCEPT !.tags = tags]
  BY DEF SetColour
<1>a. ns \in SUBSET Labels /\ IsFiniteSet(ns) /\ n \in ns
  BY <1>1
<1> HIDE DEF ns
<1>2. /\ TagsData(e) /\ e.records = db.records /\ n \in NamesIn(e.tags)
      /\ \A t \in DOMAIN db.tags : t \in DOMAIN e.tags /\ e.tags[t] = db.tags[t]
      /\ \A u \in DOMAIN e.tags \ DOMAIN db.tags :
            e.tags[u].name \notin NamesIn(db.tags) /\ e.tags[u].uses = 0
  BY <1>1, <1>a, EnsuredData
<1> HIDE DEF e
<1>4. o \in DOMAIN e.tags /\ e.tags[o].name = n
  BY <1>2, IdOfName
<1> HIDE DEF o
<1>5. /\ row \in TagRow /\ row.name = e.tags[o].name /\ row.uses = e.tags[o].uses
      /\ row.last = e.tags[o].last /\ \A t \in DOMAIN e.tags : e.tags[t] \in TagRow
  <2>1. \A t \in DOMAIN e.tags : e.tags[t] \in TagRow
    BY <1>2, DataRows
  <2> QED BY <1>4, <2>1 DEF TagRow
<1> HIDE DEF row
<1>6. /\ DOMAIN tags = DOMAIN e.tags /\ tags \in [DOMAIN e.tags -> TagRow]
      /\ \A t \in DOMAIN e.tags : /\ tags[t].name = e.tags[t].name /\ tags[t].uses = e.tags[t].uses
                                  /\ tags[t].last = e.tags[t].last
                                  /\ t # o => tags[t] = e.tags[t]
  BY <1>4, <1>5
<1> HIDE DEF tags
<1>7. NamesApart(tags)
  BY <1>2, <1>6 DEF TagsData, NamesApart
<1>8. TagsData(db') /\ db'.tags = tags /\ db'.records = db.records
  BY <1>2, <1>3, <1>6, <1>7, OtherRows
<1>9. ASSUME UsesRight(db)
      PROVE  UsesRight(db')
  <2>1. \A t : Users(db', t) = Users(db, t) /\ DatesOf(db', t) = DatesOf(db, t)
    BY <1>8 DEF Users, DatesOf
  <2> SUFFICES ASSUME NEW t \in DOMAIN db'.tags
               PROVE  /\ db'.tags[t].uses = Cardinality(Users(db', t))
                      /\ Users(db', t) # {} => db'.tags[t].last = Max(DatesOf(db', t))
    BY DEF UsesRight
  <2>2. CASE t \in DOMAIN db.tags
    <3>1. t \in DOMAIN e.tags /\ e.tags[t] = db.tags[t] /\ db'.tags[t] = tags[t]
      BY <1>2, <1>8, <2>2
    <3>2. db'.tags[t].uses = db.tags[t].uses /\ db'.tags[t].last = db.tags[t].last
      BY <1>6, <3>1
    <3>3. /\ db.tags[t].uses = Cardinality(Users(db, t))
          /\ Users(db, t) # {} => db.tags[t].last = Max(DatesOf(db, t))
      BY <1>9, <2>2 DEF UsesRight
    <3> QED BY <2>1, <3>2, <3>3
  <2>3. CASE t \notin DOMAIN db.tags
    <3>1. Users(db, t) = {}
      BY <1>1, <2>3, DataRows DEF Users
    <3>2. Cardinality(Users(db, t)) = 0
      BY <3>1, FS_EmptySet
    <3>3. db'.tags[t].uses = 0
      BY <1>2, <1>6, <1>8, <2>3
    <3> QED BY <2>1, <3>1, <3>2, <3>3
  <2> QED BY <2>2, <2>3
<1>10. TagsInv'
  BY <1>1, <1>8, <1>9 DEF TagsInv
<1>11. KeepsTags
  <2>1. \A i \in DOMAIN db.records :
           /\ db.records[i].tags \cap DOMAIN db'.tags = db.records[i].tags
           /\ db.records[i].tags \cap DOMAIN db.tags = db.records[i].tags
    BY <1>1, <1>2, <1>6, <1>8, DataRows
  <2>2. \A i \in DOMAIN db.records : NamesOf(db', i) = NamesOf(db, i)
    BY <1>2, <1>6, <1>8, <2>1 DEF NamesOf
  <2> QED BY <1>8, <2>2 DEF KeepsTags
<1>12. KeepsColours
  <2> SUFFICES ASSUME NEW t \in DOMAIN db.tags, NEW u \in DOMAIN db'.tags,
                      db.tags[t].name = db'.tags[u].name, db.tags[t].colour # db'.tags[u].colour
               PROVE  db.tags[t].name = n
    BY DEF KeepsColours
  <2>1. db.tags[t].name \in NamesIn(db.tags)
    BY DEF NamesIn
  <2>2. u \in DOMAIN db.tags /\ e.tags[u] = db.tags[u] /\ tags[u].name = db.tags[u].name
    BY <1>2, <1>6, <1>8, <2>1
  <2>3. t = u
    BY <1>1, <1>8, <2>2 DEF TagsData, NamesApart
  <2>4. u = o
    <3> SUFFICES ASSUME u # o
                 PROVE  FALSE
      OBVIOUS
    <3>1. u \in DOMAIN e.tags /\ db'.tags[u] = tags[u]
      BY <1>2, <1>8, <2>2
    <3>2. tags[u] = e.tags[u]
      BY <1>6, <3>1
    <3> QED BY <2>2, <2>3, <3>1, <3>2
  <2> QED BY <1>4, <2>2, <2>3, <2>4
<1> QED BY <1>10, <1>11, <1>12 DEF StepKeeps

\* A start that finds a gap rewrites the tables, any other leaves them.
LEMMA RestartTagsKeeps ==
    ASSUME TagsAssumption, TagsInv, RestartTags
    PROVE  StepKeeps
<1> DEFINE gap == pending = "gap" \/ DOMAIN db.tags # 1 .. Cardinality(DOMAIN db.tags)
<1>1. CASE gap
  <2>1. db' = Rebuilt(db) /\ pending' = "no" /\ cut' = FALSE
    BY <1>1 DEF RestartTags
  <2>2. TagsData(db') /\ UsesRight(db') /\ NamesKept(db, db', DOMAIN db.records)
    BY <2>1, RebuiltData DEF TagsInv
  <2>3. TagsInv'
    BY <2>1, <2>2 DEF TagsInv
  <2>4. KeepsColours
    BY <1>1 DEF KeepsColours
  <2> QED BY <2>2, <2>3, <2>4, KeptInStep DEF StepKeeps
<1>2. CASE ~gap
  <2>1. db' = db /\ pending' = "no" /\ cut' = (cut \/ pending # "no")
    BY <1>2 DEF RestartTags
  <2>2. TagsInv'
    BY <2>1 DEF TagsInv
  <2>3. NamesKept(db, db', DOMAIN db.records) /\ ColoursKept(db, db')
    BY <2>1 DEF NamesKept, ColoursKept, TagsInv, TagsData, NamesApart
  <2> QED BY <2>2, <2>3, KeptInStep DEF StepKeeps
<1> QED BY <1>1, <1>2

\* Every step keeps the invariant, the names and the colours.
LEMMA TagsStepKeeps ==
    ASSUME TagsAssumption, TagsInv, [TagsNext]_tagsVars
    PROVE  StepKeeps
<1>1. CASE UNCHANGED tagsVars
  <2>1. TagsInv' /\ db' = db
    BY <1>1 DEF TagsInv, tagsVars
  <2>2. NamesKept(db, db', DOMAIN db.records) /\ ColoursKept(db, db')
    BY <2>1 DEF NamesKept, ColoursKept, TagsInv, TagsData, NamesApart
  <2> QED BY <2>1, <2>2, KeptInStep DEF StepKeeps
<1>2. ASSUME NEW ns \in NameSets, NEW date \in TagDates, SaveRecord(ns, date)
      PROVE  StepKeeps
  BY <1>2, SaveRecordKeeps
<1>3. ASSUME NEW ns \in NameSets, NEW date \in TagDates, NEW i \in DOMAIN db.records,
             ReplaceRecord(i, ns, date)
      PROVE  StepKeeps
  BY <1>3, ReplaceRecordKeeps
<1>4. ASSUME NEW i \in DOMAIN db.records, DeleteRecord(i)
      PROVE  StepKeeps
  BY <1>4, DeleteRecordKeeps
<1>5. CASE Renumber
  BY <1>5, RenumberKeeps DEF Renumber, CountsUses
<1>6. CASE DeleteAllRecords
  BY <1>6, DeleteAllKeeps
<1>7. ASSUME NEW n \in Labels, NEW m \in Labels, RenameTag(n, m)
      PROVE  StepKeeps
  BY <1>7, RenameTagKeeps
<1>8. ASSUME NEW n \in Labels, DeleteTag(n)
      PROVE  StepKeeps
  BY <1>8, DeleteTagKeeps
<1>9. ASSUME NEW n \in Labels, NEW c \in Colours, SetColour(n, c)
      PROVE  StepKeeps
  BY <1>9, SetColourKeeps
<1>10. CASE RestartTags
  BY <1>10, RestartTagsKeeps
<1> QED BY <1>1, <1>2, <1>3, <1>4, <1>5, <1>6, <1>7, <1>8, <1>9, <1>10 DEF TagsNext

\* Empty tables.
LEMMA TagsStart ==
    ASSUME TagsAssumption, TagsInit
    PROVE  TagsInv
<1>1. db = [tags |-> <<>>, counter |-> 0, records |-> <<>>] /\ pending = "no" /\ cut = FALSE
  BY DEF TagsInit
<1>2. <<>> \in Seq(TaggedRecord(<<>>)) /\ Len(<<>>) = 0
  BY EmptySeq
<1>3. DOMAIN <<>> = {} /\ <<>> \in [{} -> TagRow]
  <2>1. <<>> \in Seq(TagRow) /\ Len(<<>>) = 0
    BY EmptySeq
  <2>2. <<>> \in [1 .. 0 -> TagRow] /\ DOMAIN <<>> = 1 .. 0
    BY <2>1, LenProperties
  <2>3. 1 .. 0 = {}
    OBVIOUS
  <2> QED BY <2>2, <2>3
<1>4. /\ db.tags = <<>> /\ db.counter = 0 /\ db.records = <<>>
      /\ db = [tags |-> db.tags, counter |-> db.counter, records |-> db.records]
  BY <1>1
<1>5. TableOf(db.tags, db.counter, TagRow) /\ NamesApart(db.tags)
  BY <1>3, <1>4 DEF TableOf, NamesApart
<1>6. TagsData(db)
  BY <1>2, <1>4, <1>5 DEF TagsData
<1>7. UsesRight(db)
  BY <1>3, <1>4 DEF UsesRight
<1> QED BY <1>1, <1>6, <1>7 DEF TagsInv

\* The tables of tags have their types, with one row for a name and no tag of a record missing
\* (TagsTypeOK).
THEOREM TagsTyped ==
    ASSUME TagsAssumption
    PROVE  TagsSpec => []TagsTypeOK
<1>1. TagsInit => TagsInv
  BY TagsStart
<1>2. TagsInv /\ [TagsNext]_tagsVars => TagsInv'
  BY TagsStepKeeps DEF StepKeeps
<1>3. TagsInv => TagsTypeOK
  BY TagsInvMeans
<1> QED BY <1>1, <1>2, <1>3, PTL DEF TagsSpec

\* For any number of names, records and tags: renumbering, pruning, renames, merges and rewrites
\* change the names of no other record, chosen colours stay, and the uses are those of the
\* records unless a deletion was cut off (TagsSurviveRenumbering).
THEOREM LabelsOutlastRenumbering ==
    ASSUME TagsAssumption
    PROVE  TagsSpec => TagsSurviveRenumbering
<1>1. TagsInit => TagsInv
  BY TagsStart
<1>2. TagsInv /\ [TagsNext]_tagsVars => TagsInv' /\ KeepsTags /\ KeepsColours
  BY TagsStepKeeps DEF StepKeeps
<1>3. TagsInv => (pending = "no" /\ ~cut => UsesAreCounted)
  BY TagsInvMeans
<1> QED BY <1>1, <1>2, <1>3, PTL DEF TagsSpec, TagsSurviveRenumbering, RecordsKeepTheirTags, ColoursStay
=============================================================================
