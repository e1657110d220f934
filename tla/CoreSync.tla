------------------------------ MODULE CoreSync ------------------------------
(***************************************************************************)
(* From a saved change to a running core.  ApplyJobs composed with         *)
(*   - the saves of the panel and of the subscription refresher, which     *)
(*     compare the generated configuration before and after their write    *)
(*     (internal/web/xray_handlers.go, outbound_subscription_refresher.go),*)
(*   - the work of an attempt: build, validate, install, restart, roll back,*)
(*     record (xray_controller.go, singbox/manager.go, db/core.go),        *)
(*   - certificate renewals, which mark cores pending (web/cert.go),       *)
(*   - and a crash of the panel at any point.                              *)
(* A configuration stands for its hash.  Every step is a step of ApplyJobs *)
(* or leaves the job manager alone.                                        *)
(***************************************************************************)
EXTENDS ApplyJobs

CONSTANTS
    Configs,      \* what the store's rows can generate for a core
    Invalid,      \* those that `xray run -test` / `sing-box check` refuses
    Unbuildable,  \* those whose generation fails
    NoConfig,     \* no file, nothing recorded
    Dead,         \* the service is not running
    Savers,       \* concurrent save requests
    AutoApply,    \* WithAutoCoreApply of the router
    Manual,       \* the administrator uses manual apply too
    Timeouts,     \* attempts may exceed coreApplyTimeout
    Faults,       \* files, database and systemctl may fail
    MaxSaves, MaxRenewals, MaxCrashes  \* bounds

ASSUME ConfigsAssumption ==
    /\ Invalid \subseteq Configs /\ Unbuildable \subseteq Configs
    /\ NoConfig \notin Configs /\ Dead \notin Configs \cup {NoConfig}
ASSUME SwitchesAssumption ==
    /\ AutoApply \in BOOLEAN /\ Manual \in BOOLEAN
    /\ Timeouts \in BOOLEAN /\ Faults \in BOOLEAN
ASSUME BoundsAssumption == MaxSaves \in Nat /\ MaxRenewals \in Nat /\ MaxCrashes \in Nat

VARIABLES
    gen,       \* configuration the store generates, per core
    disk,      \* the core's config file
    live,      \* the configuration its service runs
    row,       \* core_apply_state
    inst,      \* the local variables of an attempt at work
    save,      \* save requests in progress
    sched,     \* scheduleCoreAutoApplyIfStillDirty of a finished job
    cert,      \* version of the certificate files
    liveCert,  \* version the service loaded
    renewal,   \* the certificate renewal in progress
    torn,      \* history: cores left without the restart their file needs
    unmarked,  \* history: cores whose row a failed attempt could not mark
    count      \* saves, renewals and crashes so far, for the bounds

storeVars == <<gen, row, unmarked>>
coreVars == <<disk, live, liveCert, torn>>
requestVars == <<save, sched, cert, renewal>>
syncVars == <<storeVars, coreVars, requestVars, inst, count>>
allVars == <<vars, syncVars>>

Idle == [step |-> "build", nested |-> FALSE, cfg |-> NoConfig, bak |-> NoConfig]
NoSave == [at |-> "idle", core |-> NoCore, mgr |-> "router", before |-> NoConfig]

\* The installation starts with both cores stopped, or running what the store
\* generates (an upgrade in place, possibly with no row recorded yet).
SyncInit ==
    /\ Init
    /\ gen \in [Cores -> Configs \ (Invalid \cup Unbuildable)]
    /\ disk \in {gen, [c \in Cores |-> NoConfig]}
    /\ live = [c \in Cores |-> IF disk[c] = NoConfig THEN Dead ELSE disk[c]]
    /\ row = [c \in Cores |-> [found |-> FALSE, applied |-> NoConfig, dirty |-> FALSE]]
    /\ inst = [a \in Attempts |-> Idle]
    /\ save = [s \in Savers |-> NoSave]
    /\ sched = [j \in Jobs |-> "no"]
    /\ cert = 0
    /\ liveCert = [c \in Cores |-> 0]
    /\ renewal = "idle"
    /\ torn = {}
    /\ unmarked = {}
    /\ count = [saves |-> 0, renewals |-> 0, crashes |-> 0]

autoCoreApply(m) == m = "refresher" \/ AutoApply

\* Mutant: the pending mark forgets what was applied.
MarkCorePendingAnew(r, c) == [r EXCEPT ![c] = [found |-> TRUE, dirty |-> TRUE]]

MarkCorePending(r, c) == [r EXCEPT ![c].found = TRUE, ![c].dirty = TRUE]
MarkCoreApplied(r, c, h) == [r EXCEPT ![c] = [found |-> TRUE, applied |-> h, dirty |-> FALSE]]

\* Mutant: only the recorded state is looked at, not the file on disk.
PendingByRow(c) ==
    \/ gen[c] \in Unbuildable
    \/ row[c].dirty
    \/ row[c].applied \notin {NoConfig, gen[c]}

\* corePendingApplyFromDiskHash, with the error of a generation that fails: what
\* the panel shows whenever it can read the row (if not, it shows that error).
PendingApply(c) ==
    \/ gen[c] \in Unbuildable
    \/ row[c].dirty
    \/ disk[c] # gen[c]
    \/ row[c].applied \notin {NoConfig, gen[c]}

\* corePendingApplyFromHash, as scheduleCoreAutoApplyIfStillDirty uses it.
StillDirty(c) ==
    /\ gen[c] \notin Unbuildable
    /\ row[c].found
    /\ row[c].dirty \/ row[c].applied # gen[c]

-----------------------------------------------------------------------------
(* Saves *)

SaveBegin(s, m, c) ==
    /\ save[s].at = "idle"
    /\ count.saves < MaxSaves
    /\ count' = [count EXCEPT !.saves = @ + 1]
    /\ save' = [save EXCEPT ![s] = [at |-> "captured", core |-> c, mgr |-> m, before |-> gen[c]]]
    /\ UNCHANGED <<vars, storeVars, coreVars, sched, cert, renewal, inst>>

SaveWrite(s, g) ==
    /\ save[s].at = "captured"
    /\ gen' = [gen EXCEPT ![save[s].core] = g]
    /\ save' = [save EXCEPT ![s].at = "written"]
    /\ UNCHANGED <<vars, row, unmarked, coreVars, sched, cert, renewal, inst, count>>

\* populateCoreWriteResultForHashes up to the enqueueing.
SaveCompare(s) ==
    LET c == save[s].core
        failed == Unbuildable \cap {gen[c], save[s].before} # {}
        changed == ~failed /\ gen[c] # save[s].before
    IN  /\ save[s].at = "written"
        /\ IF changed /\ autoCoreApply(save[s].mgr)
           THEN save' = [save EXCEPT ![s].at = "enqueue"] /\ UNCHANGED row
           ELSE /\ save' = [save EXCEPT ![s] = NoSave]
                /\ row' = IF changed \/ failed THEN MarkCorePending(row, c) ELSE row
        /\ UNCHANGED <<vars, gen, unmarked, coreVars, sched, cert, renewal, inst, count>>

\* The client has gone: with the request's context neither the capture nor the
\* pending mark can be made.  A mark that the database refuses ends the same way.
SaveAbandoned(s) ==
    /\ Faults
    /\ save[s].at = "written"
    /\ save' = [save EXCEPT ![s] = NoSave]
    /\ UNCHANGED <<vars, storeVars, coreVars, sched, cert, renewal, inst, count>>

\* enqueueCoreAutoApply: start a job, or join the one that is active.
EnqueueOrJoin(m, c) ==
    \/ running(m, c) /\ UNCHANGED vars
    \/ \E j \in Jobs : IdLeftBeside(j) /\ EnqueueAuto(m, c, j)

SaveEnqueue(s) ==
    /\ save[s].at = "enqueue"
    /\ EnqueueOrJoin(save[s].mgr, save[s].core)
    /\ save' = [save EXCEPT ![s] = NoSave]
    /\ UNCHANGED <<storeVars, coreVars, sched, cert, renewal, inst, count>>

\* scheduleCoreAutoApplyIfStillDirty, after a job that succeeded; it gives up
\* when the hash or the row cannot be read.
ScheduleCheck(j) ==
    LET m == slot[j].mgr
        c == slot[j].core
        again == autoCoreApply(m) /\ ~running(m, c) /\ StillDirty(c)
    IN  /\ sched[j] = "check"
        /\ \/ again /\ sched' = [sched EXCEPT ![j] = "enqueue"]
           \/ (~again \/ Faults) /\ sched' = [sched EXCEPT ![j] = "no"]
        /\ UNCHANGED <<vars, storeVars, coreVars, save, cert, renewal, inst, count>>

ScheduleEnqueue(j) ==
    /\ sched[j] = "enqueue"
    /\ EnqueueOrJoin(slot[j].mgr, slot[j].core)
    /\ sched' = [sched EXCEPT ![j] = "no"]
    /\ UNCHANGED <<storeVars, coreVars, save, cert, renewal, inst, count>>

-----------------------------------------------------------------------------
(* Certificate renewals: new files, then ApplyRenewedCertificateCores *)

RenewCert ==
    /\ renewal = "idle"
    /\ count.renewals < MaxRenewals
    /\ count' = [count EXCEPT !.renewals = @ + 1]
    /\ cert' = cert + 1
    /\ renewal' = "mark"
    /\ UNCHANGED <<vars, storeVars, coreVars, save, sched, inst>>

\* markCoresPending, core by core; a mark that fails is only reported.  Every
\* core in play is taken to use the renewed certificate.
RenewMark ==
    /\ renewal = "mark"
    /\ \E marked \in SUBSET Cores :
          /\ marked = Cores \/ Faults
          /\ row' = [c \in Cores |-> IF c \in marked
                        THEN [row[c] EXCEPT !.found = TRUE, !.dirty = TRUE] ELSE row[c]]
    /\ renewal' = "idle"
    /\ UNCHANGED <<vars, gen, unmarked, coreVars, save, sched, cert, inst, count>>

-----------------------------------------------------------------------------
(* The work of an attempt that holds apply.lock *)

Core(a) == IF inst[a].nested THEN "singbox" ELSE slot[a[1]].core

At(a, step) == phase[a] = "work" /\ inst[a].step = step

Go(a, step) == inst' = [inst EXCEPT ![a].step = step] /\ UNCHANGED vars

\* The work returns.  The sing-box part of a manual Xray apply cannot fail it.
End(a, code) ==
    /\ FinishWork(a, IF inst[a].nested THEN "ok" ELSE code)
    /\ inst' = [inst EXCEPT ![a] = Idle]

Failures == {"transient", "fatal"}

\* Lists the store with the attempt's context and builds the configuration.
Build(a) ==
    /\ At(a, "build")
    /\ IF a \in expired \/ gen[Core(a)] \in Unbuildable
       THEN End(a, "fatal")
       ELSE /\ inst' = [inst EXCEPT ![a].step = "install", ![a].cfg = gen[Core(a)]]
            /\ UNCHANGED vars
    /\ UNCHANGED <<storeVars, coreVars, requestVars, count>>

\* Mutant: the file is renamed without the core's own check of it.
InstallUnchecked(a) ==
    LET c == Core(a)
    IN  /\ At(a, "install")
        /\ disk' = [disk EXCEPT ![c] = inst[a].cfg]
        /\ inst' = [inst EXCEPT ![a].step = "restart", ![a].bak = disk[c]]
        /\ UNCHANGED vars
        /\ UNCHANGED <<storeVars, live, liveCert, torn, requestVars, count>>

\* Validates a temporary file, copies the current one aside and renames.
Install(a) ==
    LET c == Core(a)
    IN  /\ At(a, "install")
        /\ IF inst[a].cfg \in Invalid
           THEN End(a, "fatal") /\ UNCHANGED disk
           ELSE /\ disk' = [disk EXCEPT ![c] = inst[a].cfg]
                /\ inst' = [inst EXCEPT ![a].step = "restart", ![a].bak = disk[c]]
                /\ UNCHANGED vars
        /\ UNCHANGED <<storeVars, live, liveCert, torn, requestVars, count>>

\* A listing, a file or a command before the rename fails.
PrepareFails(a, code) ==
    /\ Faults
    /\ At(a, "build") \/ At(a, "install")
    /\ End(a, code)
    /\ UNCHANGED <<storeVars, coreVars, requestVars, count>>

\* The service comes up with the files as they are.
Serve(c) ==
    /\ live' = [live EXCEPT ![c] = disk[c]]
    /\ liveCert' = [liveCert EXCEPT ![c] = cert]
    /\ torn' = torn \ {c}

\* Mutant: the service goes on with the configuration it had.
RestartedWithoutReload(a) ==
    /\ At(a, "restart")
    /\ Go(a, "record")
    /\ UNCHANGED <<storeVars, coreVars, requestVars, count>>

Restarted(a) ==
    /\ At(a, "restart")
    /\ Serve(Core(a))
    /\ Go(a, "record")
    /\ UNCHANGED <<storeVars, disk, requestVars, count>>

\* The attempt leaves a service that may run another file than it has now.
Forsake(c) == torn' = IF live'[c] \in {disk[c], Dead} THEN torn ELSE torn \cup {c}

\* systemctl restart fails, with the service stopped or untouched: the previous
\* file is put back if there was one and the rename succeeds.
RestartFails(a) ==
    LET c == Core(a)
    IN  /\ Faults
        /\ At(a, "restart")
        /\ \E left \in {Dead, live[c]} : live' = [live EXCEPT ![c] = left]
        /\ \/ /\ inst[a].bak # NoConfig
              /\ disk' = [disk EXCEPT ![c] = inst[a].bak]
              /\ Go(a, "rollback")
              /\ UNCHANGED torn
           \/ /\ \E code \in Failures : End(a, code)
              /\ UNCHANGED disk
              /\ Forsake(c)
        /\ UNCHANGED <<storeVars, liveCert, requestVars, count>>

RolledBack(a) ==
    LET c == Core(a)
    IN  /\ At(a, "rollback")
        /\ \/ Serve(c)
           \/ /\ \E left \in {Dead, live[c]} : live' = [live EXCEPT ![c] = left]
              /\ Forsake(c)
              /\ UNCHANGED liveCert
        /\ \E code \in Failures : End(a, code)
        /\ UNCHANGED <<storeVars, disk, requestVars, count>>

\* A manual Xray apply goes on with sing-box if an enabled inbound wants it.
GoesOn(a) ==
    /\ slot[a[1]].kind = "manual" /\ slot[a[1]].core = "xray" /\ ~inst[a].nested
    /\ "singbox" \in Cores
    /\ a \notin expired

\* Mutant: the sing-box part of a manual Xray apply records for Xray.
RecordForJob(a) ==
    LET c == slot[a[1]].core
    IN  /\ At(a, "record")
        /\ \/ /\ a \notin expired
              /\ row' = MarkCoreApplied(row, c, inst[a].cfg)
              /\ unmarked' = unmarked \ {c}
           \/ (a \in expired \/ Faults) /\ UNCHANGED <<row, unmarked>>
        /\ \/ End(a, "ok")
           \/ /\ GoesOn(a)
              /\ inst' = [inst EXCEPT ![a] = [Idle EXCEPT !.nested = TRUE]]
              /\ UNCHANGED vars
        /\ UNCHANGED <<gen, coreVars, requestVars, count>>

\* After the listener diagnostics: MarkCoreApplied with the hash of what was
\* built, in the attempt's context; an error is only reported.
Record(a) ==
    LET c == Core(a)
    IN  /\ At(a, "record")
        /\ \/ /\ a \notin expired
              /\ row' = MarkCoreApplied(row, c, inst[a].cfg)
              /\ unmarked' = unmarked \ {c}
           \/ (a \in expired \/ Faults) /\ UNCHANGED <<row, unmarked>>
        /\ \/ End(a, "ok")
           \/ /\ GoesOn(a)
              /\ inst' = [inst EXCEPT ![a] = [Idle EXCEPT !.nested = TRUE]]
              /\ UNCHANGED vars
        /\ UNCHANGED <<gen, coreVars, requestVars, count>>

\* Mutant: a failed attempt leaves no mark.
ReportOnly(a) ==
    /\ Deliver(a)
    /\ UNCHANGED syncVars

Failing(a) == slot[a[1]].kind = "auto" /\ outcome[a] # "ok"

\* An automatic attempt that failed marks its core pending before it reports,
\* with a context that nothing cancels; a mark that fails is only logged.
Report(a) ==
    LET c == slot[a[1]].core
    IN  /\ Deliver(a)
        /\ \/ Failing(a) /\ row' = MarkCorePending(row, c) /\ UNCHANGED unmarked
           \/ Failing(a) /\ Faults /\ unmarked' = unmarked \cup {c} /\ UNCHANGED row
           \/ ~Failing(a) /\ UNCHANGED <<row, unmarked>>
        /\ UNCHANGED <<gen, coreVars, requestVars, inst, count>>

-----------------------------------------------------------------------------
(* The job manager's own steps *)

\* Mutant: no second look after a job that succeeded.
FinishForGood(j) ==
    /\ TakeResult(j)
    /\ UNCHANGED syncVars

Finish(j) ==
    /\ TakeResult(j)
    /\ sched' = [sched EXCEPT ![j] = IF status'[j] = "succeeded" THEN "check" ELSE @]
    /\ UNCHANGED <<storeVars, coreVars, save, cert, renewal, inst, count>>

RunStep(j) ==
    /\ \/ Run(j) \/ TakeTimeout(j) \/ Cleaned(j) \/ CleanupTimeout(j) \/ RetryTimer(j)
       \/ Timeouts /\ Deadline(j)
    /\ UNCHANGED syncVars

LockingStep(a) ==
    /\ \/ AcquireSem(a) \/ SemCancelled(a) \/ TryAcquire(a)
       \/ (flock # Free \/ Faults) /\ AcquireFails(a)
    /\ UNCHANGED syncVars

ManualStep ==
    /\ \/ Manual /\ "router" \in Managers /\ IdLeft /\ \E c \in Cores : ManualLock(c)
       \/ HandlerStep
    /\ UNCHANGED syncVars

-----------------------------------------------------------------------------
(* The environment *)

\* The panel dies with everything in memory; files, database and services stay.
Crash ==
    /\ count.crashes < MaxCrashes
    /\ Restart
    /\ torn' = torn \cup {Core(a) : a \in {b \in Attempts : At(b, "restart") \/ At(b, "rollback")}}
    /\ inst' = [a \in Attempts |-> Idle]
    /\ save' = [s \in Savers |-> NoSave]
    /\ sched' = [j \in Jobs |-> "no"]
    /\ renewal' = "idle"
    /\ count' = [count EXCEPT !.crashes = @ + 1]
    /\ UNCHANGED <<storeVars, disk, live, liveCert, cert>>

\* systemd or the administrator starts the service again.
ServiceComesUp(c) ==
    /\ Faults
    /\ disk[c] # NoConfig
    /\ Serve(c)
    /\ UNCHANGED <<vars, storeVars, disk, requestVars, inst, count>>

Work(a) ==
    \/ Build(a) \/ Install(a) \/ Restarted(a) \/ RestartFails(a) \/ RolledBack(a) \/ Record(a)
    \/ \E code \in Failures : PrepareFails(a, code)

Requesting(s) ==
    \/ \E g \in Configs : SaveWrite(s, g)
    \/ SaveCompare(s)
    \/ SaveEnqueue(s)

SyncNext ==
    \/ \E s \in Savers :
          \/ \E m \in Managers, c \in Cores : SaveBegin(s, m, c)
          \/ Requesting(s)
          \/ SaveAbandoned(s)
    \/ RenewCert \/ RenewMark
    \/ \E j \in Jobs : Finish(j) \/ RunStep(j) \/ ScheduleCheck(j) \/ ScheduleEnqueue(j)
    \/ \E a \in Attempts : LockingStep(a) \/ Work(a) \/ Report(a)
    \/ ManualStep
    \/ Crash
    \/ \E c \in Cores : ServiceComesUp(c)

SyncSpec == SyncInit /\ [][SyncNext]_allVars


\* Handlers, goroutines and timers go on once started, commands end.  Nobody
\* has to save, renew or apply by hand, and nothing has to fail.
SyncFairness ==
    /\ \A s \in Savers : WF_allVars(Requesting(s))
    /\ \A j \in Jobs : WF_allVars(Finish(j) \/ RunStep(j) \/ ScheduleCheck(j) \/ ScheduleEnqueue(j))
    /\ \A a \in Attempts : WF_allVars(LockingStep(a) \/ Work(a) \/ Report(a))
    /\ WF_allVars(HandlerStep /\ UNCHANGED syncVars)
    /\ WF_allVars(RenewMark)

SyncFairSpec == SyncSpec /\ SyncFairness

-----------------------------------------------------------------------------
(* Properties *)

Steps == {"build", "install", "restart", "rollback", "record"}

\* The values of the store, the files, the services and the requests.
SyncTypeOK ==
    /\ TypeOK
    /\ gen \in [Cores -> Configs]
    /\ disk \in [Cores -> Configs \cup {NoConfig}]
    /\ live \in [Cores -> Configs \cup {Dead, NoConfig}]
    /\ row \in [Cores -> [found : BOOLEAN, applied : Configs \cup {NoConfig}, dirty : BOOLEAN]]
    /\ inst \in [Attempts -> [step : Steps, nested : BOOLEAN, cfg : Configs \cup {NoConfig},
                              bak : Configs \cup {NoConfig}]]
    /\ save \in [Savers -> [at : {"idle", "captured", "written", "enqueue"},
                            core : Cores \cup {NoCore}, mgr : Managers \cup {"router"},
                            before : Configs \cup {NoConfig}]]
    /\ sched \in [Jobs -> {"no", "check", "enqueue"}]
    /\ cert \in Nat
    /\ liveCert \in [Cores -> Nat]
    /\ renewal \in {"idle", "mark"}
    /\ torn \subseteq Cores /\ unmarked \subseteq Cores
    /\ count \in [saves : Nat, renewals : Nat, crashes : Nat]

\* Nobody replaces the file between an attempt's rename and its restart, its
\* record or its rollback: the service is restarted with the configuration this
\* attempt validated, and a rollback undoes no one else's apply.
InstallUndisturbed ==
    \A a \in Attempts :
        /\ At(a, "restart") \/ At(a, "record") => disk[Core(a)] = inst[a].cfg
        /\ At(a, "rollback") => disk[Core(a)] = inst[a].bak

\* No service ever loads a configuration that its core refuses or that came
\* from a failed build, rollbacks and crashes included.
OnlyValidRuns ==
    \A c \in Cores : {disk[c], live[c]} \cap (Invalid \cup Unbuildable) = {}

Installing(c) ==
    \E a \in Attempts : Core(a) = c /\ (At(a, "restart") \/ At(a, "rollback"))

\* The panel never shows "in_sync" for a core whose service runs another
\* configuration than the store's: not after lost or failed jobs, late
\* attempts, rollbacks or concurrent saves.  (A stopped service is shown by its
\* own status.)  The exceptions: a crash between rename and restart, and a
\* systemctl that fails without touching the service.
NoSilentDrift ==
    \A c \in Cores : ~PendingApply(c) /\ ~Installing(c) =>
        live[c] \in {gen[c], Dead} \/ c \in torn

\* Job j works on core c: a manual apply of Xray goes on with sing-box.
Concerns(j, c) ==
    \/ slot[j].core = c
    \/ slot[j].core = "xray" /\ c = "singbox" /\ slot[j].kind = "manual"

\* An automatic apply that failed is not forgotten: until another job takes its
\* core over, the core shows pending or runs what the store generates, although
\* attempts of older jobs may have worked on it since.  Only where the pending
\* mark itself could not be written may the core look in sync while it is not.
FailureShows ==
    \A j \in Jobs :
        LET c == slot[j].core
        IN  /\ status[j] = "failed" /\ slot[j].kind = "auto"
            /\ \A k \in Jobs : status[k] # "none" /\ Concerns(k, c) => k <= j
            /\ \A a \in Attempts : Concerns(a[1], c) => ~Live(a)
            => PendingApply(c) \/ live[c] = gen[c] \/ c \in unmarked

\* When MarkCoreApplied records another hash, the service runs just that
\* configuration: no late attempt records what has been replaced since.
RecordedIsLive ==
    [][\A c \in Cores : row'[c].applied # row[c].applied =>
          live[c] = row'[c].applied /\ disk[c] = row'[c].applied]_allVars

\* Automatic apply catches up: cores that start in sync are in sync again when
\* the saves stop, whichever of them joined a running job or came too late for
\* its build.
Converges == live = gen => <>[](live = gen)

\* A renewed certificate leaves its cores pending until their services have
\* loaded it ("certificate renewed; apply core configuration to make it
\* effective", ApplyRenewedCertificateCores).
RenewalStaysPending ==
    \A c \in Cores : renewal = "idle" /\ live[c] \in Configs /\ liveCert[c] # cert =>
        PendingApply(c)

=============================================================================
