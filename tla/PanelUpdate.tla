------------------------------ MODULE PanelUpdate ------------------------------
(***************************************************************************)
(* The update of the panel itself.  The panel starts an installer in a     *)
(* unit of its own (internal/service/update/update.go) and waits five      *)
(* minutes for it; the installer, one at a time, stops, replaces and       *)
(* restarts the panel, and rolls back when the new one is not healthy      *)
(* (packaging/install.sh).  The panel knows of the update only while it is *)
(* the process that started it and waits for it, and otherwise by the file *)
(* the installer leaves.  The console of the settings page                 *)
(* (src/web/src/routes/SettingsPage.tsx) follows it through polls that     *)
(* fail while the panel is away.                                           *)
(***************************************************************************)
EXTENDS Naturals

CONSTANTS
    MaxUpdates,   \* updates that are accepted
    MaxMishaps     \* reboots, restarts of the panel, units killed, checks that fail

ASSUME PanelUpdateBounds == {MaxUpdates, MaxMishaps} \subseteq Nat

VARIABLES
    panelUp,      \* the panel answers requests
    runtime,      \* RuntimeState.status, of the panel's process
    statusFile,   \* update-status.json: [status, stale], stale after 15 minutes
    mine,         \* the unit that this process waits for: see Ends
    installer,    \* where the installer that has the lock is, or how the last one ended
    release,      \* the installed version, "old" or "new"; "new" is the latest
    console,      \* the page: see ConsoleClosed
    updateAsked,        \* the update mutation: "idle", "sent", "accepted"
    updates, mishaps

updateVars == <<panelUp, runtime, statusFile, mine, installer, release, console, updateAsked,
                updates, mishaps>>
hostVars == <<panelUp, runtime, statusFile, mine, installer, release>>

isUpdateInProgress(s) ==
    s \in {"pending", "running", "updating", "downloading", "installing", "restarting"}
isUpdateTerminal(s) == s \in {"started", "failed", "completed", "idle"}
\* The server's own list has no "idle".
isRuntimeStatusTerminal(s) == isUpdateTerminal(s) /\ s # "idle"

\* An installer that is past its guard has put this update in the file.
PastGuard == installer \in {"download", "install", "stopped", "health", "rollback"}
AtWork == PastGuard \/ installer = "guard"

-----------------------------------------------------------------------------
(* The panel's process and the installer *)

\* Service.Status: the running process's word while it started the update, the
\* file's otherwise, unless the process knows that the update behind it ended.
UpdateStatus ==
    IF isUpdateInProgress(runtime) \/ statusFile.status = "none" THEN runtime
    ELSE IF isRuntimeStatusTerminal(runtime) /\ isUpdateInProgress(statusFile.status) THEN runtime
    ELSE IF statusFile.stale THEN "failed"
    ELSE statusFile.status

Writes(s) == statusFile' = [status |-> s, stale |-> FALSE]

\* mine: "none", "asked", "works", or how that unit ended.
Ends(end) == installer' = end /\ mine' = IF mine = "works" THEN end ELSE mine

\* updateHandler: a release newer than the panel, and no update running in this
\* process; an installer that an earlier process has started does not matter.
UpdateIsServed ==
    /\ updateAsked = "sent"
    /\ \/ /\ panelUp /\ release = "old" /\ runtime # "updating" /\ updates < MaxUpdates
          /\ runtime' = "updating" /\ mine' = "asked"
          /\ updateAsked' = "accepted" /\ updates' = updates + 1
          /\ UNCHANGED mishaps
       \/ /\ ~panelUp \/ release = "new" \/ runtime = "updating"
          /\ updateAsked' = "idle"
          /\ UNCHANGED <<runtime, mine, updates, mishaps>>
       \/ \* the releases cannot be read, or the updater is not available
          /\ mishaps < MaxMishaps
          /\ mishaps' = mishaps + 1 /\ updateAsked' = "idle"
          /\ UNCHANGED <<runtime, mine, updates>>
    /\ UNCHANGED <<panelUp, statusFile, installer, release, console>>

\* runUpdateCommand waits, then starts the unit, which fails when an installer is
\* at work: with_install_lock does not wait.
InstallerStarts ==
    /\ mine = "asked"
    /\ \/ ~AtWork /\ installer' = "guard" /\ mine' = "works"
       \/ mine' = "errored" /\ UNCHANGED installer
    /\ UNCHANGED <<panelUp, runtime, statusFile, release, console, updateAsked, updates, mishaps>>

\* guard_default_latest_upgrade, before anything of this update is in the file; it
\* asks for the latest release anew, and may find that there is nothing to do.
Guarded ==
    /\ installer = "guard"
    /\ \/ Writes("downloading") /\ installer' = "download" /\ UNCHANGED mine
       \/ Writes("completed") /\ Ends("succeeded")
       \/ Writes("failed") /\ Ends("errored")
    /\ UNCHANGED <<panelUp, runtime, release, console, updateAsked, updates, mishaps>>

\* A download that fails ends the script and leaves "downloading" in the file.
Downloaded ==
    /\ installer = "download"
    /\ \/ Writes("installing") /\ installer' = "install" /\ UNCHANGED mine
       \/ Ends("errored") /\ UNCHANGED statusFile
    /\ UNCHANGED <<panelUp, runtime, release, console, updateAsked, updates, mishaps>>

\* The panel is stopped, and with it goes what it knew.
PanelIsStopped ==
    /\ installer = "install"
    /\ installer' = "stopped" /\ panelUp' = FALSE /\ runtime' = "idle" /\ mine' = "none"
    /\ UNCHANGED <<statusFile, release, console, updateAsked, updates, mishaps>>

\* apply_upgrade_release_from_backup: the new panel is in place and restarted.
PanelIsReplaced ==
    /\ installer = "stopped"
    /\ release' = "new" /\ Writes("restarting")
    /\ installer' = "health" /\ panelUp' = TRUE
    /\ UNCHANGED <<runtime, mine, console, updateAsked, updates, mishaps>>

UpgradeIsHealthy ==
    /\ installer = "health"
    /\ Writes("completed") /\ Ends("succeeded")
    /\ UNCHANGED <<panelUp, runtime, release, console, updateAsked, updates, mishaps>>

\* restore_upgrade_state puts back the old panel and the file as it was before
\* the upgrade, and restarts; or it cannot, and leaves that to the operator.
RollsBack ==
    /\ installer \in {"stopped", "health"}
    /\ runtime' = "idle" /\ mine' = "none"
    /\ \/ release' = "old" /\ panelUp' = TRUE /\ installer' = "rollback" /\ Writes("downloading")
       \/ release' \in {"old", "new"} /\ panelUp' = FALSE /\ installer' = "errored" /\ Writes("failed")
    /\ UNCHANGED <<console, updateAsked, updates, mishaps>>

RolledBack ==
    /\ installer = "rollback"
    /\ Writes("failed") /\ Ends("errored")
    /\ UNCHANGED <<panelUp, runtime, release, console, updateAsked, updates, mishaps>>

Finish(status) == runtime' = status /\ mine' = "none"

\* The process that started the unit hears how it ended.
RunFinishes ==
    /\ runtime = "updating" /\ mine \in {"succeeded", "errored"}
    /\ Finish(IF mine = "succeeded" THEN "completed" ELSE "failed")
    /\ UNCHANGED <<panelUp, statusFile, installer, release, console, updateAsked, updates, mishaps>>

\* Or its five minutes are over, which began before those of the unit: the deadline
\* ends the waiting, and the unit goes on.
DeadlinePasses ==
    /\ runtime = "updating" /\ mine = "works"
    /\ Finish("failed")
    /\ UNCHANGED <<panelUp, statusFile, installer, release, console, updateAsked, updates, mishaps>>

\* systemd kills the unit after five minutes, wherever it is.
UnitIsKilled ==
    /\ AtWork /\ mishaps < MaxMishaps
    /\ Ends("errored") /\ mishaps' = mishaps + 1
    /\ UNCHANGED <<panelUp, runtime, statusFile, release, console, updateAsked, updates>>

\* A panel that comes up knows of no update; requests to the one before are lost.
PanelIsAnew ==
    /\ mishaps < MaxMishaps /\ mishaps' = mishaps + 1
    /\ panelUp' = TRUE /\ runtime' = "idle" /\ mine' = "none"
    /\ updateAsked' = IF updateAsked = "sent" THEN "idle" ELSE updateAsked
    /\ console' = [console EXCEPT !.flight = [q \in DOMAIN @ |-> IF @[q] = "sent" THEN "lost" ELSE @[q]]]
    /\ UNCHANGED <<statusFile, release, updates>>

\* The page's restart button, or systemd after a crash; the installer goes on.
PanelRestarts == panelUp /\ PanelIsAnew /\ UNCHANGED installer

HostReboots == PanelIsAnew /\ installer' = IF AtWork THEN "errored" ELSE installer

\* A quarter of an hour since the file was written: longer than an installer lives,
\* but one that is at its guard has not written yet.
FileGoesStale ==
    /\ isUpdateInProgress(statusFile.status) /\ ~statusFile.stale /\ ~PastGuard
    /\ statusFile' = [statusFile EXCEPT !.stale = TRUE]
    /\ UNCHANGED <<panelUp, runtime, mine, installer, release, console, updateAsked, updates, mishaps>>

-----------------------------------------------------------------------------
(* The console *)

\* The check for a newer release is fetched in the same places as the version; its
\* answer only decides what the primary button does, which is left open here: the
\* button may check and it may update, as it may with a cached answer.
Followed == {"status", "version"}

\* data: what the query holds, "none" before its first answer.  flight: "none",
\* "sent", "lost", or the answer on its way.
ConsoleClosed ==
    [open |-> FALSE, watch |-> FALSE,
     data |-> [q \in Followed |-> "none"], flight |-> [q \in Followed |-> "none"]]

\* A refetch gives up the request in flight, unless it is the query's first.
Refetched(c, queries) ==
    [c EXCEPT !.flight = [q \in Followed |->
        IF q \in queries /\ (c.flight[q] = "none" \/ c.data[q] # "none")
        THEN "sent" ELSE c.flight[q]]]

\* The effects on the status, the version and the watch: at an end the page
\* fetches everything once more and stops watching.
WatchEffect(before, c) ==
    LET seen == <<c.watch, c.data["status"], c.data["version"]>>
    IN  IF /\ seen # <<before.watch, before.data["status"], before.data["version"]>>
           /\ c.watch /\ isUpdateTerminal(c.data["status"])
        THEN [Refetched(c, Followed) EXCEPT
                 !.watch = c.data["status"] = "completed" /\ c.data["version"] = "none"]
        ELSE c

\* Watching enables the query of the version: it is fetched when it holds nothing,
\* or nothing fresh.
Watching(c) ==
    LET watched == [c EXCEPT !.watch = TRUE]
        fetched == Refetched(watched, {"version"})
    IN  IF c.data["version"] = "none" THEN {fetched} ELSE {watched, fetched}

updateStatusRefetchIntervalWhileWatching(status, watching) == watching
updateStatusRefetchInterval(status, watching) == watching \/ isUpdateInProgress(status)
updateDependencyRefetchInterval(watching) == watching

\* The console's button: it spins while the version or the start of an update is
\* on its way, and is off while an update is in progress.
PrimaryIsOn ==
    /\ console.open
    /\ ~isUpdateInProgress(console.data["status"])
    /\ updateAsked = "idle"
    /\ console.flight["version"] = "none"

ConsoleOpens ==
    /\ ~console.open
    /\ console' = [console EXCEPT !.open = TRUE, !.flight["status"] = "sent"]
    /\ UNCHANGED <<hostVars, updateAsked, updates, mishaps>>

RunUpdateCheck ==
    /\ PrimaryIsOn
    /\ console' = WatchEffect(console, Refetched([console EXCEPT !.watch = TRUE], Followed))
    /\ UNCHANGED <<hostVars, updateAsked, updates, mishaps>>

UpdateIsSent ==
    /\ PrimaryIsOn /\ updates < MaxUpdates
    /\ updateAsked' = "sent"
    /\ UNCHANGED <<hostVars, console, updates, mishaps>>

\* onSuccess: watch, and fetch the status anew.
UpdateIsAccepted ==
    /\ updateAsked = "accepted" /\ updateAsked' = "idle"
    /\ \E c \in Watching(console) :
          console' = WatchEffect(console, Refetched(c, {"status"}))
    /\ UNCHANGED <<hostVars, updates, mishaps>>

FollowPolls(q) ==
    /\ console.open /\ console.flight[q] = "none"
    /\ IF q = "status"
       THEN updateStatusRefetchInterval(console.data["status"], console.watch)
       ELSE updateDependencyRefetchInterval(console.watch)
    /\ console' = Refetched(console, {q})
    /\ UNCHANGED <<hostVars, updateAsked, updates, mishaps>>

\* Every request finds the panel as it is, or away.
FollowIsServed(q) ==
    /\ console.flight[q] = "sent"
    /\ console' = [console EXCEPT !.flight[q] =
           CASE ~panelUp -> "lost"
             [] panelUp /\ q = "status" -> UpdateStatus
             [] panelUp /\ q = "version" -> release]
    /\ UNCHANGED <<hostVars, updateAsked, updates, mishaps>>

\* A query that fails keeps what it holds.
FollowLands(q) ==
    LET answer == console.flight[q]
        landed == [console EXCEPT !.flight[q] = "none",
                                  !.data[q] = IF answer = "lost" THEN @ ELSE answer]
    IN  /\ answer \notin {"none", "sent"}
        /\ console' = WatchEffect(console, landed)
        /\ UNCHANGED <<hostVars, updateAsked, updates, mishaps>>

-----------------------------------------------------------------------------

PanelUpdateInit ==
    /\ panelUp = TRUE /\ runtime = "idle"
    /\ statusFile \in [status : {"none", "completed"}, stale : {FALSE}]
    /\ mine = "none" /\ installer = "none" /\ release = "old"
    /\ console = ConsoleClosed /\ updateAsked = "idle"
    /\ updates = 0 /\ mishaps = 0

InstallerWorks ==
    \/ InstallerStarts \/ Guarded \/ Downloaded \/ PanelIsStopped \/ PanelIsReplaced
    \/ UpgradeIsHealthy \/ RollsBack \/ RolledBack

PanelUpdateNext ==
    \/ UpdateIsServed \/ InstallerWorks \/ RunFinishes \/ DeadlinePasses
    \/ UnitIsKilled \/ PanelRestarts \/ HostReboots \/ FileGoesStale
    \/ ConsoleOpens \/ RunUpdateCheck \/ UpdateIsSent \/ UpdateIsAccepted
    \/ \E q \in Followed : FollowPolls(q) \/ FollowIsServed(q) \/ FollowLands(q)

\* The installer's steps end, the clock runs, requests come back, and the
\* status is polled while its interval is set.
PanelUpdateFairness ==
    /\ WF_updateVars(InstallerWorks \/ RunFinishes)
    /\ WF_updateVars(FileGoesStale)
    /\ WF_updateVars(FollowPolls("status") \/ FollowIsServed("status") \/ FollowLands("status"))

PanelUpdateSpec == PanelUpdateInit /\ [][PanelUpdateNext]_updateVars /\ PanelUpdateFairness

-----------------------------------------------------------------------------
(* Properties *)

\* The host, the file and the page keep to their states.
UpdateTypeOK ==
    /\ panelUp \in BOOLEAN /\ release \in {"old", "new"}
    /\ runtime \in {"idle", "updating", "failed", "completed"}
    /\ statusFile.status = "none" \/ isUpdateInProgress(statusFile.status)
          \/ isUpdateTerminal(statusFile.status)
    /\ mine \in {"none", "asked", "works", "succeeded", "errored"}
    /\ installer \in {"none", "succeeded", "errored"} \/ AtWork
    /\ updateAsked \in {"idle", "sent", "accepted"}
    /\ console.data["version"] \in {"none", "old", "new"}
    /\ console.data["status"] = "none" \/ isUpdateInProgress(console.data["status"])
          \/ isUpdateTerminal(console.data["status"])

\* While an installer that has put its update in the file is at work, a panel that
\* answers says that an update is in progress, across its stop, its replacement, a
\* rollback and restarts of its own: it does not repeat the end of an earlier one.
\* A process that has given up waiting, or whose own unit found the lock taken,
\* says "failed" instead, for as long as it lives.  (Part of UpdateIsFollowed.)
WorkIsReported ==
    PastGuard /\ panelUp =>
        IF runtime = "failed" THEN UpdateStatus = "failed" ELSE isUpdateInProgress(UpdateStatus)

\* An installer that has succeeded is reported as that by every panel that does not
\* wait for a further unit, the one included that had given the update up as failed:
\* Status prefers an end in the file to its own.  (Part of UpdateIsFollowed.)
SuccessIsReported ==
    installer = "succeeded" /\ panelUp /\ runtime # "updating" => UpdateStatus = "completed"

\* A page that has seen an update in progress comes to its end, by a poll that
\* survives the restart of the panel; also when the host went down half way
\* and nobody will write that end.
UpdateIsFollowed ==
    /\ []WorkIsReported /\ []SuccessIsReported
    /\ []<>panelUp => []<>~isUpdateInProgress(console.data["status"])

=============================================================================
