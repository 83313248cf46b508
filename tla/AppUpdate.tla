----------------------------- MODULE AppUpdate -----------------------------
(***************************************************************************)
(* The update of the application: the check for a release, the download,   *)
(* the hand-over to an installer and what the next start does about it     *)
(* (src/services/support/app_update.py, src/gui/tabs/settings/, ...).      *)
(*                                                                         *)
(* Two notes in the database outlive the process: which download waits to  *)
(* be installed, and which one may be removed once its version runs.  The  *)
(* installer is a process of its own, which may succeed, fail or wait long *)
(* after the application has started again.                                *)
(*                                                                         *)
(* A version is a number and a pre-release, 0 for none; the name of a      *)
(* download has its version in it, so downloads are named by versions.     *)
(***************************************************************************)
EXTENDS Integers, Sequences, FiniteSetsExt

CONSTANTS
    Versions,     \* [core, pre]
    FirstVersion, \* the version installed first
    ReleaseLists  \* what GitHub may list: sequences of [version, asset]


VARIABLES
    installed,    \* the version that is installed
    downloads,    \* the versions of whole files in the cache
    parts,        \* the versions of partial files
    notes,        \* [install, cleanup]: the notes in schema_meta
    app,          \* the running application, and its settings tab
    installers    \* the versions whose installers were launched

appUpdateVars == <<installed, downloads, parts, notes, app, installers>>

NoVersion == [core |-> 0, pre |-> 0]

AppUpdateAssumption ==
    /\ Versions \subseteq [core : Nat, pre : Nat] \ {NoVersion}
    /\ FirstVersion \in Versions
    /\ \A list \in ReleaseLists : list \in Seq([version : Versions, asset : BOOLEAN])

-----------------------------------------------------------------------------
(* Versions. *)

\* is_newer_app_version: a release is newer than its pre-releases.
IsNewer(current, latest) ==
    \/ latest.core > current.core
    \/ /\ latest.core = current.core
       /\ current.pre # 0
       /\ latest.pre = 0 \/ latest.pre > current.pre

IsSameOrNewer(current, target) == current = target \/ IsNewer(target, current)

\* Where newer releases stand in the list; pre-releases for pre-releases only.
Candidates(list) ==
    {i \in DOMAIN list : /\ IsNewer(installed, list[i].version)
                         /\ list[i].version.pre = 0 \/ installed.pre # 0}

-----------------------------------------------------------------------------

Off == [flow |-> "off", built |-> FALSE, offer |-> NoVersion, target |-> NoVersion]

AppUpdateInit ==
    /\ installed = FirstVersion
    /\ downloads = {} /\ parts = {}
    /\ notes = [install |-> NoVersion, cleanup |-> NoVersion]
    /\ app = Off
    /\ installers = {}

Flow(step) == app.flow = step

MovesTo(step) == app' = [app EXCEPT !.flow = step]

\* A note is kept while its file is there and newer than what runs.
StillOffered(v) == IF v \in downloads' /\ IsNewer(installed, v) THEN v ELSE NoVersion

\* (Mutant of Reconciled: the cleanup does not wait for the new version.)
ReconciledAtOnce(removed) ==
    /\ downloads' = IF removed THEN downloads \ {notes.cleanup} ELSE downloads
    /\ notes' = [install |-> StillOffered(notes.install), cleanup |-> NoVersion]

\* reconcile_pending_update_state; a file that cannot be removed is forgotten.
Reconciled(removed) ==
    LET done == notes.cleanup # NoVersion /\ IsSameOrNewer(installed, notes.cleanup)
    IN  /\ downloads' = IF done /\ removed THEN downloads \ {notes.cleanup} ELSE downloads
        /\ notes' = [install |-> StillOffered(notes.install),
                     cleanup |-> IF done THEN NoVersion ELSE notes.cleanup]

Start(removed) ==
    /\ Flow("off")
    /\ Reconciled(removed)
    /\ app' = [Off EXCEPT !.flow = "ready"]
    /\ UNCHANGED <<installed, parts, installers>>

\* The settings tab is built when it is first selected, and reads the note.
BuildSettings ==
    /\ Flow("ready") /\ ~app.built
    /\ UNCHANGED <<installed, downloads, parts, installers>>
    /\ notes' = [notes EXCEPT !.install = StillOffered(notes.install)]
    /\ app' = [app EXCEPT !.built = TRUE, !.offer = notes'.install]

\* handle_update_check without an offer that still holds.
CheckForUpdate ==
    /\ Flow("ready") /\ app.built
    /\ UNCHANGED <<installed, downloads, parts, installers>>
    /\ StillOffered(app.offer) = NoVersion
    /\ notes' = [notes EXCEPT !.install = IF app.offer = NoVersion THEN @ ELSE NoVersion]
    /\ app' = [app EXCEPT !.flow = "checking", !.offer = NoVersion]

\* The answer, of which the first newer release counts, and the user's: download it or not.  A release without a file for
\* this system is an error, as is no answer.
CheckAnswered(list, agrees) ==
    LET newer == Candidates(list)
        first == list[Min(newer)]
    IN  /\ Flow("checking")
        /\ app' = IF newer # {} /\ first.asset /\ agrees
                  THEN [app EXCEPT !.flow = "downloading", !.target = first.version]
                  ELSE [app EXCEPT !.flow = "ready"]
        /\ UNCHANGED <<installed, downloads, parts, notes, installers>>

DownloadChunk ==
    /\ Flow("downloading")
    /\ parts' = parts \cup {app.target}
    /\ UNCHANGED <<installed, downloads, notes, app, installers>>

\* The worker moves the whole file into its place.
DownloadEnds ==
    /\ Flow("downloading") /\ app.target \in parts
    /\ parts' = parts \ {app.target}
    /\ downloads' = downloads \cup {app.target}
    /\ MovesTo("downloaded")
    /\ UNCHANGED <<installed, notes, installers>>

DownloadFails(removed) ==
    /\ Flow("downloading")
    /\ parts' = IF removed THEN parts \ {app.target} ELSE parts
    /\ MovesTo("ready")
    /\ UNCHANGED <<installed, downloads, notes, installers>>

\* launch_downloaded_update_and_exit: the note for the cleanup, the installer, the end;
\* an installer that cannot be started leaves the note.
Launch(v, starts) ==
    /\ v \in downloads
    /\ notes' = [install |-> notes.install, cleanup |-> v]
    /\ IF starts
       THEN /\ app' = Off
            /\ installers' = installers \cup {v}
       ELSE /\ MovesTo("ready")
            /\ UNCHANGED installers

\* Back in the window: the note is written and the user asked.
OfferDownloaded ==
    /\ Flow("downloaded")
    /\ notes' = [notes EXCEPT !.install = app.target]
    /\ app' = [app EXCEPT !.flow = "asking", !.offer = app.target]
    /\ UNCHANGED <<installed, downloads, parts, installers>>

InstallLater ==
    /\ Flow("asking")
    /\ MovesTo("ready")
    /\ UNCHANGED <<installed, downloads, parts, notes, installers>>

InstallNow(starts) ==
    /\ Flow("asking")
    /\ UNCHANGED <<installed, downloads, parts>>
    /\ IF app.target \in downloads THEN Launch(app.target, starts)
       ELSE MovesTo("ready") /\ UNCHANGED <<notes, installers>>

\* "Install update" of the settings tab.
InstallOffered(starts) ==
    /\ Flow("ready") /\ app.offer # NoVersion
    /\ UNCHANGED <<installed, downloads, parts>>
    /\ StillOffered(app.offer) = app.offer
    /\ Launch(app.offer, starts)

\* The window is closed or the process ends, in the middle of anything.
Stop ==
    /\ ~Flow("off")
    /\ app' = Off
    /\ UNCHANGED <<installed, downloads, parts, notes, installers>>

\* The installer, which the user may also leave or cancel; files are replaced while
\* the application is not running.
InstallerEnds(v, installs) ==
    /\ v \in installers /\ Flow("off")
    /\ installers' = installers \ {v}
    /\ installed' = IF installs THEN v ELSE installed
    /\ UNCHANGED <<downloads, parts, notes, app>>

\* The user installs a newer version by hand.
InstallByHand(v) ==
    /\ Flow("off") /\ installers = {} /\ IsNewer(installed, v)
    /\ installed' = v
    /\ UNCHANGED <<downloads, parts, notes, app, installers>>

\* The cache is emptied from outside.
CacheEmptied ==
    /\ downloads \cup parts # {}
    /\ downloads' = {} /\ parts' = {}
    /\ UNCHANGED <<installed, notes, app, installers>>

AppUpdateNext ==
    \/ \E done \in BOOLEAN :
          \/ Start(done) \/ DownloadFails(done)
          \/ InstallNow(done) \/ InstallOffered(done)
          \/ \E list \in ReleaseLists : CheckAnswered(list, done)
          \/ \E v \in Versions : InstallerEnds(v, done)
    \/ BuildSettings \/ CheckForUpdate
    \/ DownloadChunk \/ DownloadEnds \/ OfferDownloaded \/ InstallLater
    \/ \E v \in Versions : InstallByHand(v)
    \/ Stop \/ CacheEmptied

AppUpdateSpec == AppUpdateInit /\ [][AppUpdateNext]_appUpdateVars

-----------------------------------------------------------------------------
(* Properties. *)

AppUpdateTypeOK ==
    /\ installed \in Versions
    /\ downloads \subseteq Versions /\ parts \subseteq Versions
    /\ notes \in [install : Versions \cup {NoVersion}, cleanup : Versions \cup {NoVersion}]
    /\ app.offer \in Versions \cup {NoVersion}
    /\ installers \subseteq Versions

\* A start removes a download only once its version, or a newer one, runs; not when
\* its installer was launched (README.md:21).
DownloadsWaitForTheirVersion ==
    [][Flow("off") /\ app'.flow = "ready" =>
          \A v \in downloads \ downloads' : IsSameOrNewer(installed, v)]_appUpdateVars

\* The order of versions by which the application is updated.
Precedence(v) == <<v.core, IF v.pre = 0 THEN 1 ELSE 0, v.pre>>

Above(a, b) == \E i \in 1 .. 3 : a[i] > b[i] /\ \A j \in 1 .. i - 1 : a[j] = b[j]

\* Whatever was downloaded when, installed by hand or left half done: only a file
\* that is there whole, of a version above the installed one, reaches an installer.
OnlyNewerIsHandedOver ==
    [][\A v \in installers' \ installers :
          v \in downloads /\ Above(Precedence(v), Precedence(installed))]_appUpdateVars

\* A download that was noted is offered again after every restart, until it is gone
\* or its version no longer newer (README.md:20).
OfferSurvives ==
    [][notes'.install # notes.install /\ notes.install # NoVersion =>
          notes.install \notin downloads' \/ ~IsNewer(installed, notes.install)]_appUpdateVars

\* Only a whole file of a newer version reaches an installer; a download waits until
\* its version runs, and is offered until it is installed or gone.
UpdatesGoForward == OnlyNewerIsHandedOver /\ DownloadsWaitForTheirVersion /\ OfferSurvives
=============================================================================
