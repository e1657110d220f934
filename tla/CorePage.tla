------------------------------- MODULE CorePage --------------------------------
(***************************************************************************)
(* The page of one core (src/web/src/routes/CorePage.tsx): what it says    *)
(* of the core is put together from three answers of the server, each of   *)
(* its own moment.  The status is polled while the page is visible, and    *)
(* served through a cache; the diagnostics and the comparison of the       *)
(* configurations are fetched when the page is opened, refreshed or has    *)
(* acted, and go stale in between.                                         *)
(***************************************************************************)
EXTENDS Integers, FiniteSets

CONSTANTS
    MaxChanges,   \* changes of the core, by anyone, actions and refreshes of the page
    MaxMisses     \* failed requests, and times the page is hidden

ASSUME CorePageBounds == {MaxChanges, MaxMisses} \subseteq Nat

VARIABLES
    core,        \* the core as it is, a World
    kept,        \* coreStatusCache: the set of the status answer that it keeps
    shows,       \* the page is visible
    query,       \* [Queries -> Query]
    action,      \* the page's mutation in flight: "none", or its kind
    changes, misses

corePageVars == <<core, kept, shows, query, action, changes, misses>>

Queries == {"status", "diagnostics", "preview"}

\* data, answer: sets of one answer at most.  flight: "idle"; "sent"; "built",
\* the handler has looked at the core but not stored or sent its answer;
\* "found", the answer comes out of the cache.
Unasked == [data |-> {}, error |-> FALSE, flight |-> "idle", answer |-> {}]

-----------------------------------------------------------------------------
(* The core and the server's answers *)

\* sync compares the generated configuration, the file and what was recorded
\* as applied: all agree; marked pending all the same; the file differs; there
\* is no file; the configuration cannot be generated.
Syncs == {"synced", "marked", "differs", "missing", "unbuildable"}

Consistent(w) ==
    /\ w.service = "stopped" => ~w.listening
    /\ w.service = "not_installed" => ~w.listening /\ ~w.valid
    /\ w.sync = "missing" => ~w.valid

Worlds == {w \in [service : {"running", "stopped", "not_managed", "not_installed"},
                  sync : Syncs, valid : BOOLEAN, listening : BOOLEAN,
                  job : {"none", "active", "succeeded", "failed"}] : Consistent(w)}

Installed(w) == w.service # "not_installed"

\* xrayStatusHandler, singboxStatusHandler; pending as xrayPendingApplyState has it.
Status(w) ==
    [service |-> w.service, installed |-> Installed(w), job |-> w.job,
     pending |-> w.sync # "synced", error |-> w.sync = "unbuildable",
     listening |-> w.listening]

\* buildXrayDiagnostics; it warns of everything that is not as it should be.
Diagnostics(w) ==
    [service |-> w.service, installed |-> Installed(w), listening |-> w.listening,
     exists |-> w.sync # "missing", valid |-> w.valid,
     in_sync |-> w.sync \in {"synced", "marked"}]

Warned(d) == d.service # "running" \/ ~d.exists \/ ~d.valid \/ ~d.in_sync \/ ~d.listening

\* buildXrayConfigSyncPreview.
Preview(w) ==
    [in_sync |-> w.sync \in {"synced", "marked"}, pending |-> w.sync # "synced",
     error |-> w.sync = "unbuildable"]

Answers(q) == CASE q = "status" -> Status(core)
                [] q = "diagnostics" -> Diagnostics(core)
                [] q = "preview" -> Preview(core)

-----------------------------------------------------------------------------
(* The queries *)

\* refetch of every query of asked; one in flight is cancelled.
Refreshed(asked) ==
    [q \in Queries |-> IF q \in asked
                       THEN [query[q] EXCEPT !.flight = "sent", !.answer = {}]
                       ELSE query[q]]

\* Mutant of StatusPolled: polled only while a job is in progress.
StatusPolledForJobs ==
    /\ shows
    /\ query["status"].flight = "idle"
    /\ \A s \in query["status"].data : s.job = "active"
    /\ query' = Refreshed({"status"})
    /\ UNCHANGED <<core, kept, shows, action, changes, misses>>

\* The status query's refetchInterval.
StatusPolled ==
    /\ shows
    /\ query["status"].flight = "idle"
    /\ query' = Refreshed({"status"})
    /\ UNCHANGED <<core, kept, shows, action, changes, misses>>

\* The status request arrives: the answer comes out of the cache, or is built
\* from the core as it is now.
StatusIsBuilt ==
    /\ query["status"].flight = "sent"
    /\ query' = IF kept # {}
                THEN [query EXCEPT !["status"].flight = "found", !["status"].answer = kept]
                ELSE [query EXCEPT !["status"].flight = "built", !["status"].answer = {Status(core)}]
    /\ UNCHANGED <<core, kept, shows, action, changes, misses>>

Answered(q, answer) == [query EXCEPT ![q] = [Unasked EXCEPT !.data = answer]]

\* wrap stores what the handler has built, even if the cache was invalidated
\* meanwhile, and the answer replaces the query's data.
StatusLands ==
    LET s == query["status"] IN
    /\ s.flight \in {"built", "found"}
    /\ query' = Answered("status", s.answer)
    /\ kept' = IF s.flight = "built" THEN s.answer ELSE kept
    /\ UNCHANGED <<core, shows, action, changes, misses>>

\* The other two are built and land; an older answer is no different from one
\* that landed before the change it misses.
Lands(q) ==
    /\ q # "status"
    /\ query[q].flight = "sent"
    /\ query' = Answered(q, {Answers(q)})
    /\ UNCHANGED <<core, kept, shows, action, changes, misses>>

\* The data that are there stay beside the error.
Fails(q) ==
    /\ query[q].flight # "idle"
    /\ misses < MaxMisses /\ misses' = misses + 1
    /\ query' = [query EXCEPT ![q] = [@ EXCEPT !.error = TRUE, !.flight = "idle", !.answer = {}]]
    /\ UNCHANGED <<core, kept, shows, action, changes>>

\* Three seconds have passed.
KeptExpires ==
    /\ kept # {}
    /\ kept' = {}
    /\ UNCHANGED <<core, shows, query, action, changes, misses>>

\* The button "refresh" of the page.
RefreshAll ==
    /\ shows
    /\ changes < MaxChanges /\ changes' = changes + 1
    /\ query' = Refreshed(Queries)
    /\ UNCHANGED <<core, kept, shows, action, misses>>

CorePageOpens ==
    /\ ~shows
    /\ shows' = TRUE
    /\ query' = IF query["status"] = Unasked THEN Refreshed(Queries) ELSE query
    /\ UNCHANGED <<core, kept, action, changes, misses>>

CorePageHides ==
    /\ shows
    /\ misses < MaxMisses /\ misses' = misses + 1
    /\ shows' = FALSE
    /\ UNCHANGED <<core, kept, query, action, changes>>

-----------------------------------------------------------------------------
(* What changes the core, and the actions of the page *)

\* A save, a job that starts or ends, a crash, somebody at the server's shell:
\* one aspect of the core changes, and what cannot be then goes with it.
Changes ==
    /\ shows
    /\ changes < MaxChanges /\ changes' = changes + 1
    /\ core' \in {w \in Worlds : Cardinality({k \in DOMAIN w : w[k] # core[k]}) = 1}
    /\ UNCHANGED <<kept, shows, query, action, misses>>

\* The job writes what was generated, has it loaded, and records it; its end
\* invalidates the cache.
JobIsDone ==
    /\ core.job = "active"
    /\ core' = [core EXCEPT !.job = "succeeded", !.sync = "synced"]
    /\ core' \in Worlds
    /\ kept' = {}
    /\ UNCHANGED <<shows, query, action, changes, misses>>

\* coreInstalledWithDiagnostics: the status says, or else the diagnostics.
coreInstalledWithDiagnostics(status, diagnostics) ==
    IF status # {} THEN \A s \in status : s.installed
    ELSE \E d \in diagnostics : d.installed

PageInstalled == coreInstalledWithDiagnostics(query["status"].data, query["diagnostics"].data)

\* A button, confirmed: apply and install are always there, the others only
\* when the page takes the core for installed.
ActionBegins(kind) ==
    /\ shows /\ action = "none"
    /\ query["status"].data # {} \/ query["status"].error
    /\ kind \in {"restart", "stop"} => PageInstalled
    /\ changes < MaxChanges /\ changes' = changes + 1
    /\ action' = kind
    /\ UNCHANGED <<core, kept, shows, query, misses>>

AfterAction(kind) ==
    CASE kind = "apply" -> [core EXCEPT !.job = "active"]
      [] kind = "restart" -> [core EXCEPT !.service = "running", !.listening = TRUE]
      [] kind = "stop" -> [core EXCEPT !.service = "stopped", !.listening = FALSE]

\* The handler does it or not, and invalidates the cache; the page refreshes
\* the status and the diagnostics, and the comparison only if it has applied.
ActionEnds ==
    /\ action # "none"
    /\ \E done \in BOOLEAN :
          /\ done => AfterAction(action) \in Worlds
          /\ core' = IF done THEN AfterAction(action) ELSE core
          /\ query' = Refreshed({"status", "diagnostics"}
                                \cup (IF action = "apply" /\ done THEN {"preview"} ELSE {}))
    /\ kept' = {}
    /\ action' = "none"
    /\ UNCHANGED <<shows, changes, misses>>

-----------------------------------------------------------------------------
(* What the page says *)

Loading(q) == query[q].data = {} /\ query[q].flight # "idle"

coreApplyJobInProgress(s) == s.job = "active"

\* The first case that applies.
coreUserSyncState(status, diagnostics, preview, loading, error) ==
    IF \E s \in status : coreApplyJobInProgress(s) THEN "syncing"
    ELSE IF \E s \in status : s.job = "failed" THEN "failed"
    ELSE IF loading \/ error THEN "unknown"
    ELSE IF \/ \E s \in status : s.error
            \/ \E p \in preview : p.error
            \/ \E d \in diagnostics : ~d.valid THEN "needs_check"
    ELSE IF (\E s \in status : s.pending) \/ (\E p \in preview : p.pending) THEN "waiting"
    ELSE IF (\E p \in preview : p.in_sync) \/ (\E d \in diagnostics : d.in_sync) THEN "in_sync"
    ELSE IF preview # {} \/ diagnostics # {} THEN "needs_check"
    ELSE "unknown"

\* configSyncState's ok: "yes", "no", or "" while it is not known.
configSyncState(preview, loading, error) ==
    CASE loading -> ""
      [] ~loading /\ error -> "no"
      [] ~loading /\ ~error /\ preview = {} -> ""
      [] OTHER -> IF \E p \in preview : p.in_sync /\ ~p.pending THEN "yes" ELSE "no"

\* coreListeningDiagnostics: the ports of the status, or else the expected ones.
PortsMissing(status, diagnostics) ==
    IF status # {} THEN \E s \in status : ~s.listening
    ELSE \E d \in diagnostics : ~d.listening

\* Mutant of coreDiagnosticsSummary: the data that are there count, beside an error too.
coreDiagnosticsSummaryOfData(diagnostics, loading, error) ==
    CASE diagnostics = {} -> (IF error THEN "error" ELSE "warning")
      [] OTHER ->
          CASE \E d \in diagnostics : ~d.installed \/ ~d.exists \/ ~d.valid
                                      \/ d.service = "stopped" -> "error"
            [] OTHER -> IF \E d \in diagnostics : Warned(d) THEN "warning" ELSE "ok"

coreDiagnosticsSummary(diagnostics, loading, error) ==
    CASE loading -> "warning"
      [] ~loading /\ error -> "error"
      [] ~loading /\ ~error /\ diagnostics = {} -> "warning"
      [] OTHER ->
          CASE \E d \in diagnostics : ~d.installed \/ ~d.exists \/ ~d.valid
                                      \/ d.service = "stopped" -> "error"
            [] OTHER -> IF \E d \in diagnostics : Warned(d) THEN "warning" ELSE "ok"

\* The label of coreHealthSummary, or that the page is loading; its tone is "ok" for "running" only.
coreHealthSummary ==
    LET status == query["status"].data
        diagnostics == query["diagnostics"].data
        preview == query["preview"].data
        service == IF status # {} THEN {s.service : s \in status}
                   ELSE {d.service : d \in diagnostics}
        sync == configSyncState(preview, Loading("preview"), query["preview"].error)
        summary == coreDiagnosticsSummary(diagnostics, Loading("diagnostics"),
                                          query["diagnostics"].error)
        user == coreUserSyncState(status, diagnostics, preview,
                                  Loading("preview"), query["preview"].error)
    IN  IF Loading("status") THEN "loading"
        ELSE IF \/ ~coreInstalledWithDiagnostics(status, diagnostics)
                \/ \E d \in diagnostics : d.service = "not_installed" THEN "install"
        ELSE IF "stopped" \in service THEN "service"
        ELSE IF \E d \in diagnostics : ~d.exists THEN "missing"
        ELSE IF \E d \in diagnostics : ~d.valid THEN "invalid"
        ELSE IF "not_managed" \in service THEN "unmanaged"
        ELSE IF user \in {"syncing", "failed", "needs_check"} THEN user
        ELSE IF (\E s \in status : s.pending) \/ (\E p \in preview : p.pending) THEN "waiting"
        ELSE IF sync = "no" \/ (\E d \in diagnostics : ~d.in_sync) THEN "apply"
        ELSE IF \/ PortsMissing(status, diagnostics)
                \/ \E d \in diagnostics : ~d.listening THEN "ports"
        ELSE IF summary # "ok" THEN summary
        ELSE "running"

-----------------------------------------------------------------------------

CorePageInit ==
    /\ core \in {[service |-> "running", sync |-> "synced", valid |-> TRUE, listening |-> TRUE,
                  job |-> "none"],
                 [service |-> "running", sync |-> "differs", valid |-> TRUE, listening |-> TRUE,
                  job |-> "active"]}
    /\ kept = {}
    /\ shows = FALSE
    /\ query = [q \in Queries |-> Unasked]
    /\ action = "none"
    /\ changes = 0 /\ misses = 0

CorePageNext ==
    \/ CorePageOpens \/ CorePageHides \/ RefreshAll \/ StatusPolled
    \/ StatusIsBuilt \/ StatusLands
    \/ \E q \in Queries : Lands(q) \/ Fails(q)
    \/ KeptExpires
    \/ Changes \/ JobIsDone
    \/ \E kind \in {"apply", "restart", "stop"} : ActionBegins(kind)
    \/ ActionEnds

\* The poll, its answers and the cache's expiry; jobs and actions may hang.
CorePageFairness ==
    /\ WF_corePageVars(StatusPolled \/ StatusIsBuilt \/ StatusLands)
    /\ WF_corePageVars(KeptExpires)

CorePageSpec == CorePageInit /\ [][CorePageNext]_corePageVars /\ CorePageFairness

-----------------------------------------------------------------------------
(* Properties *)

\* The core, the queries and the page's headline keep to their types.
CorePageTypeOK ==
    /\ core \in Worlds
    /\ \A q \in Queries : Cardinality(query[q].data) <= 1 /\ Cardinality(query[q].answer) <= 1
    /\ changes \in 0..MaxChanges /\ misses \in 0..MaxMisses

\* The page has no news to wait for: every answer is what the server would say.
UpToDate == \A q \in Queries : query[q].data = {Answers(q)} /\ ~query[q].error

Healthy == core = [service |-> "running", sync |-> "synced", valid |-> TRUE,
                   listening |-> TRUE, job |-> core.job]
           /\ core.job \in {"none", "succeeded"}

Complains(s) == s.service # "running" \/ s.pending \/ ~s.listening \/ s.job \in {"active", "failed"}

\* The headline put together from three answers, each of its own moment, says
\* that the core runs normally only if none of them complains; and it does say
\* so when they are up to date and the core is well in every respect.  Without
\* a status the diagnostics alone decide (the page does not show that error),
\* and the comparison is not waited for.
HeadlineIsRight ==
    /\ coreHealthSummary = "running" =>
           /\ \A s \in query["status"].data : ~Complains(s)
           /\ query["status"].data = {} => query["status"].error
           /\ \E d \in query["diagnostics"].data : ~Warned(d) /\ ~query["diagnostics"].error
           /\ \A p \in query["preview"].data : p.in_sync /\ ~p.pending /\ ~query["preview"].error
    /\ UpToDate /\ Healthy => coreHealthSummary = "running"

\* While the page is visible its status follows the core, although an answer
\* built before a change may be kept after the change has emptied the cache.
StatusIsFollowed == <>[]shows => <>[](query["status"].data = {Status(core)})

=============================================================================
