------------------------------ MODULE Traffic ------------------------------
(***************************************************************************)
(* Traffic accounting: the scheduler's sync (internal/scheduler/traffic.go *)
(* over internal/db/traffic.go), which turns the counters of Xray and      *)
(* sing-box into totals per scope, beside the requests that reset a        *)
(* client's traffic (internal/web/inbounds.go).                            *)
(*                                                                         *)
(* The cores count in memory, from zero after every restart; the totals in *)
(* traffic_states have to survive that, and failed queries, and resets.    *)
(***************************************************************************)
EXTENDS Integers

CONSTANTS
    Clients, Inbounds,  \* the scopes whose counters are followed
    InboundOf,          \* a client's inbound; it need not be followed
    Singbox,            \* the scopes sing-box serves; Xray serves the others
    Directions,         \* up and down
    Admins,             \* reset requests in progress at once
    Capabilities,       \* what a check of the sing-box binary may come to
    Endpoints,          \* how the stats service of a core may behave
    MaxBytes, MaxResets, MaxFaults  \* bounds

Scopes == Clients \cup Inbounds

ASSUME ScopesAssumption == Singbox \subseteq Scopes /\ Clients \cap Inbounds = {}
ASSUME CapabilityAssumption ==
    Capabilities \subseteq {"grpc", "unsupported", "unavailable"} /\ Capabilities # {}
ASSUME EndpointsAssumption ==
    Endpoints \subseteq {"answers", "refuses", "hangs"} /\ Endpoints # {}
ASSUME BoundsAssumption == MaxBytes \in Nat /\ MaxResets \in Nat /\ MaxFaults \in Nat

VARIABLES
    counter,   \* the counters in the cores' memory
    rows,      \* traffic_states
    sync,      \* the sync in progress, and its local variables
    reset,     \* the reset requests in progress
    client,    \* the kind of sing-box stats client: the scheduler's, the router's
    enabled,   \* enabled scopes
    endpoint,  \* each core's stats service: answers, refuses, or takes a query and is silent
    carried,   \* history: what a scope has carried
    account,   \* history: which part of it the scope's total stands for
    count      \* bytes, resets and faults so far, for the bounds

historyVars == <<carried, account>>
vars == <<counter, rows, sync, reset, client, enabled, endpoint, historyVars, count>>

Zero == [d \in Directions |-> 0]

NoRow == [total |-> Zero, lastRaw |-> Zero, window |-> FALSE,
          status |-> "none", message |-> "baseline"]

\* A counter as a query returned it.  History: what the scope had carried then,
\* whether its core has been running since, the resets that asked later.
NoSample == [got |-> FALSE, value |-> Zero, at |-> Zero, fresh |-> FALSE, newer |-> {}]
NoSamples == [s \in Scopes |-> NoSample]

NoSync == [pc |-> "idle", engine |-> "xray", left |-> {}, raw |-> NoSamples,
           status |-> "waiting", message |-> "baseline", late |-> FALSE, resets |-> {}]
NoReset == [pc |-> "idle", client |-> "none", base |-> NoSample]

EngineScopes(e) == IF e = "singbox" THEN Singbox ELSE Scopes \ Singbox

\* A query that a stats client of this kind sends to a core comes back.
Answered(e, kind) == (e = "singbox" => kind = "grpc") /\ endpoint[e] = "answers"

\* Mutant: the query of either core waits for as long as the sync has time.
WaitsAlways(e, kind) == endpoint[e] = "hangs"

\* The query waits until its context ends: that of Xray is a command which gives
\* up after eight seconds, the client of sing-box has no such limit.
Waits(e, kind) == e = "singbox" /\ kind = "grpc" /\ endpoint[e] = "hangs"

\* Shown to the scheduler as enabled: a client needs its inbound as well.
Shown(s) == s \in enabled /\ (s \in Clients => InboundOf[s] \in enabled \cup {"untracked"})

\* The stats client that main builds when the panel starts; it takes inbounds
\* it cannot list for none.
StartClients == {"not_configured"} \cup IF Singbox \cap enabled = {} THEN {} ELSE Capabilities

Init ==
    /\ counter = [s \in Scopes |-> Zero]
    /\ rows = [s \in Scopes |-> NoRow]
    /\ sync = NoSync
    /\ reset = [a \in Admins |-> NoReset]
    /\ enabled \in {Scopes, Scopes \ Singbox}
    /\ endpoint \in [{"xray", "singbox"} -> Endpoints]
    /\ \E kind \in StartClients : client = [sync |-> kind, web |-> kind]
    /\ carried = [s \in Scopes |-> Zero]
    /\ account = [s \in Scopes |-> [since |-> Zero, base |-> Zero, seen |-> Zero,
                                    exact |-> FALSE, blind |-> FALSE, spoilt |-> "no"]]
    /\ count = [bytes |-> 0, resets |-> 0, faults |-> 0]

\* Something fails, within the bound.
Fault == count.faults < MaxFaults /\ count' = [count EXCEPT !.faults = @ + 1]

-----------------------------------------------------------------------------
(* Rows of traffic_states *)

\* Mutant: a raw counter of zero is a baseline like any other.
MissingNever(row) == FALSE

\* isMissingRawBaseline.  Rates and deltas are zero whenever lastRaw is.
MissingBaseline(row) ==
    /\ row.lastRaw = Zero /\ ~row.window
    /\ \/ row.status \in {"waiting", "not_configured", "unsupported", "ok"}
       \/ row.status = "unavailable" /\ row.message = "baseline"

Unsampled(row) == row = NoRow \/ MissingBaseline(row)

\* Mutant: a counter that fell is taken off the total.
DeltaSigned(row, raw) == [d \in Directions |->
    IF Unsampled(row) THEN 0 ELSE raw[d] - row.lastRaw[d]]

\* The usage of a sample: none if it is the first, or below the last.
Delta(row, raw) == [d \in Directions |->
    IF Unsampled(row) \/ raw[d] < row.lastRaw[d] THEN 0 ELSE raw[d] - row.lastRaw[d]]

\* One sample of ApplyTrafficRawStats; later tells that time has passed since
\* the row was written.
Sampled(row, raw, later) ==
    [total |-> [d \in Directions |-> row.total[d] + Delta(row, raw)[d]],
     lastRaw |-> raw, window |-> row # NoRow /\ later,
     status |-> "ok", message |-> "baseline"]

\* Mutant: the counts of an existing row are set back with the rest.
MarkedAnew(row, status, message) == [NoRow EXCEPT !.status = status, !.message = message]

\* MarkTrafficScopeStatus and MarkTrafficUnavailable: only the counts stay.
Marked(row, status, message) ==
    [row EXCEPT !.window = FALSE, !.status = status, !.message = message]

\* Mutant: the counter of the baseline is left out.
ResetRowBare(base) ==
    [NoRow EXCEPT !.status = IF base.got THEN "waiting" ELSE "unavailable"]

\* The row a reset writes, with the counter of its baseline if it has one.
ResetRow(base) ==
    [NoRow EXCEPT !.lastRaw = base.value, !.status = IF base.got THEN "waiting" ELSE "unavailable"]

Got(raw) == {s \in Scopes : raw[s].got}

\* repairPollutedSingleClientTraffic: the client is the only enabled one of an
\* Xray inbound, both were sampled, and it has more than the inbound.
Polluted(t, raw, s) ==
    /\ s \in Clients \ Singbox /\ InboundOf[s] \in Inbounds \cap enabled
    /\ {s, InboundOf[s]} \subseteq Got(raw)
    /\ {c \in Clients \cap enabled : InboundOf[c] = InboundOf[s]} = {s}
    /\ \E d \in Directions : t[s].total[d] > t[InboundOf[s]].total[d]

Reconciled(t, raw) == [s \in Scopes |->
    IF Polluted(t, raw, s)
    THEN [t[s] EXCEPT !.total = t[InboundOf[s]].total, !.window = FALSE, !.status = "partial"]
    ELSE t[s]]

-----------------------------------------------------------------------------
(* The sync: Xray, then sing-box, then one write of all samples *)

At(pc) == sync.pc = pc

\* A call on the store is lost: something fails, or the ten seconds of the
\* context that all calls of a sync share are over.
Lost == IF sync.late THEN UNCHANGED count ELSE Fault

SyncBegin ==
    /\ At("idle")
    /\ sync' = [NoSync EXCEPT !.pc = "read", !.left = EngineScopes("xray")]
    /\ UNCHANGED <<counter, rows, reset, client, enabled, endpoint, historyVars, count>>

\* A counter as it is now.  One that is still zero may not exist yet.
Samples(s) == {[got |-> g, value |-> counter[s], at |-> carried[s], fresh |-> TRUE, newer |-> {}] :
                  g \in IF counter[s] = Zero THEN BOOLEAN ELSE {TRUE}}

\* QueryTrafficStats: the core reads its counters one by one while it counts.
ReadCounter(s) ==
    /\ At("read") /\ s \in sync.left
    /\ Answered(sync.engine, client.sync) /\ ~sync.late
    /\ \E x \in Samples(s) :
          sync' = [sync EXCEPT !.left = @ \ {s}, !.raw[s] = IF x.got THEN x ELSE NoSample]
    /\ UNCHANGED <<counter, rows, reset, client, enabled, endpoint, historyVars, count>>

QueryAnswers ==
    /\ At("read") /\ sync.left = {}
    /\ Answered(sync.engine, client.sync) /\ ~sync.late
    /\ sync' = [sync EXCEPT !.pc = IF sync.engine = "xray" THEN "mark" ELSE "apply",
                            !.status = "waiting", !.message = "baseline"]
    /\ UNCHANGED <<counter, rows, reset, client, enabled, endpoint, historyVars, count>>

\* The text of the error may be one of those isBaselineOnlyTrafficStatus knows.
QueryFails ==
    /\ At("read")
    /\ IF Answered(sync.engine, client.sync) THEN Lost ELSE UNCHANGED count
    /\ \E m \in {"error", "baseline"} :
          sync' = [sync EXCEPT !.pc = "mark", !.status = "unavailable", !.message = m, !.left = {},
                      !.late = @ \/ Waits(sync.engine, client.sync),
                      !.raw = [s \in Scopes |->
                          IF s \in EngineScopes(sync.engine) THEN NoSample ELSE sync.raw[s]]]
    /\ UNCHANGED <<counter, rows, reset, client, enabled, endpoint, historyVars>>

\* Failures are marked on every row of the engine afterwards; then comes the
\* other engine, or the write.
AfterMark == IF sync.status = "waiting" THEN "client" ELSE "down"
AfterEngine == IF sync.engine = "xray" THEN "client" ELSE "apply"

\* The scopes that get a marker: of an answer those it lacks; of a failed
\* sing-box query clients only.
Lacking ==
    {s \in EngineScopes(sync.engine) : Shown(s) /\ ~sync.raw[s].got /\
        (sync.engine = "singbox" /\ sync.status = "unavailable" => s \in Clients)}

\* A marker that hides that the baseline is missing: history notes it.
Hide(t) == [s \in Scopes |->
    IF account[s].blind /\ account[s].spoilt = "no" /\ ~MissingBaseline(t[s])
    THEN [account[s] EXCEPT !.spoilt = "blind"] ELSE account[s]]

\* MarkTrafficScopeStatus; the markers are dropped when the inbounds cannot be
\* listed or the transaction fails.
Mark ==
    /\ At("mark")
    /\ \/ /\ ~sync.late
          /\ rows' = [s \in Scopes |->
                IF s \in Lacking THEN Marked(rows[s], sync.status, sync.message) ELSE rows[s]]
          /\ UNCHANGED count
       \/ Lost /\ UNCHANGED rows
    /\ account' = Hide(rows')
    /\ sync' = [sync EXCEPT !.pc = AfterMark]
    /\ UNCHANGED <<counter, reset, client, enabled, endpoint, carried>>

\* MarkTrafficUnavailable; an error is ignored.
MarkDown ==
    /\ At("down")
    /\ \/ /\ ~sync.late
          /\ rows' = [s \in Scopes |->
                IF s \in EngineScopes(sync.engine) /\ rows[s] # NoRow
                THEN Marked(rows[s], sync.status, sync.message) ELSE rows[s]]
          /\ UNCHANGED count
       \/ Lost /\ UNCHANGED rows
    /\ account' = Hide(rows')
    /\ sync' = [sync EXCEPT !.pc = AfterEngine, !.status = "waiting", !.message = "baseline"]
    /\ UNCHANGED <<counter, reset, client, enabled, endpoint, carried>>

\* refreshDisabledSingboxStatsClient: a client that was not configured is
\* replaced once, when a sing-box inbound has appeared in the list.
Refreshing == client.sync = "not_configured" /\ Singbox \cap enabled # {}
Refreshed == IF Refreshing THEN Capabilities ELSE {client.sync}

\* The check of the binary takes up to five seconds and may be the last call
\* that the sync has time for.
PickClient ==
    /\ At("client")
    /\ \E kind \in Refreshed \cup {client.sync}, late \in {sync.late, Refreshing} :
        /\ IF kind \in Refreshed THEN UNCHANGED count ELSE Fault
        /\ client' = [client EXCEPT !.sync = kind]
        /\ sync' = IF kind \in {"not_configured", "unsupported"}
                   THEN [sync EXCEPT !.engine = "singbox", !.pc = "mark", !.status = kind,
                                     !.message = "baseline", !.late = late]
                   ELSE [sync EXCEPT !.engine = "singbox", !.pc = "read", !.left = Singbox,
                                     !.late = late]
    /\ UNCHANGED <<counter, rows, reset, enabled, endpoint, historyVars>>

\* Reconciling one direction has raised the other.
Raised(s, t) == \E d \in Directions :
    t[s].total[d] > rows[s].total[d] + Delta(rows[s], sync.raw[s].value)[d]

\* History: a sample starts the account if no counter is known before it, or
\* the one known was zero, which the code takes for none.
Starts(s) ==
    LET x == sync.raw[s]
    IN  Unsampled(rows[s]) /\ (account[s].exact =>
            \A d \in Directions : x.value[d] = x.at[d] - account[s].seen[d])

\* History of a sample that is written.
Accounted(s, t) ==
    LET x == sync.raw[s]
        a == [account[s] EXCEPT !.seen = x.at, !.blind = FALSE]
    IN  IF t[s].status = "partial"
        THEN [a EXCEPT !.exact = FALSE, !.spoilt = IF Raised(s, t) THEN "raised" ELSE @]
        ELSE IF Starts(s)
        THEN [a EXCEPT !.exact = x.fresh, !.base = [d \in Directions |-> x.at[d] - rows[s].total[d]]]
        ELSE [a EXCEPT !.exact = @ /\ x.fresh]

\* ApplyTrafficRawStats, in one transaction.
Apply ==
    /\ At("apply")
    /\ LET got == Got(sync.raw)
           t == Reconciled([s \in Scopes |->
                    IF s \in got THEN Sampled(rows[s], sync.raw[s].value, s \notin sync.resets)
                    ELSE rows[s]], sync.raw)
       IN  \/ /\ ~sync.late
              /\ rows' = t
              /\ account' = [s \in Scopes |-> IF s \in got THEN Accounted(s, t) ELSE account[s]]
              /\ UNCHANGED count
           \/ Lost /\ UNCHANGED <<rows, account>>
    /\ sync' = NoSync
    /\ UNCHANGED <<counter, reset, client, enabled, endpoint, carried>>

-----------------------------------------------------------------------------
(* A reset of a client's traffic: collectTrafficBaselines, then the write *)

ResetBegin(a, c) ==
    /\ reset[a].pc = "idle"
    /\ count.resets < MaxResets
    /\ count' = [count EXCEPT !.resets = @ + 1]
    /\ reset' = [reset EXCEPT ![a] = [NoReset EXCEPT !.pc = "query", !.client = c]]
    /\ UNCHANGED <<counter, rows, sync, client, enabled, endpoint, historyVars>>

\* The router keeps the sing-box client it was given at the start.
Answers(c) == Answered(IF c \in Singbox THEN "singbox" ELSE "xray", client.web)

\* Both cores are asked.  One that is silent holds the request until its sender
\* gives up, and then the write fails as well.
ResetAbandoned(a) ==
    /\ reset[a].pc = "query" /\ Waits("singbox", client.web)
    /\ reset' = [reset EXCEPT ![a] = NoReset]
    /\ UNCHANGED <<counter, rows, sync, client, enabled, endpoint, historyVars, count>>

ResetQuery(a) ==
    LET c == reset[a].client
    IN  /\ reset[a].pc = "query" /\ ~Waits("singbox", client.web)
        /\ \/ /\ Answers(c)
              /\ \E x \in Samples(c) : reset' = [reset EXCEPT ![a].pc = "write",
                                                   ![a].base = IF x.got THEN x ELSE NoSample]
              /\ UNCHANGED count
           \/ /\ reset' = [reset EXCEPT ![a].pc = "write"]
              /\ IF Answers(c) THEN Fault ELSE UNCHANGED count
        /\ sync' = [sync EXCEPT !.raw[c].newer = IF sync.raw[c].got THEN @ \cup {a} ELSE @]
        /\ UNCHANGED <<counter, rows, client, enabled, endpoint, historyVars>>

\* The sync has in hand a counter of c from before the baseline.
Late(a, c, at) ==
    LET x == sync.raw[c]
    IN  x.got /\ (x.at # at \/ ~x.fresh) /\ (a \in x.newer \/ ~reset[a].base.got)

\* ResetClientTrafficBaseline.  The row's time is read just before; that may
\* be after the time of the sync in progress.
ResetWrite(a) ==
    LET c == reset[a].client
        base == reset[a].base
        at == IF base.got THEN base.at ELSE carried[c]
        late == Late(a, c, at)
    IN  /\ reset[a].pc = "write"
        /\ \/ /\ rows' = [rows EXCEPT ![c] = ResetRow(base)]
              /\ \E rs \in {{}, IF At("idle") THEN {} ELSE {c}} :
                    sync' = [sync EXCEPT !.resets = @ \cup rs]
              /\ account' = [account EXCEPT ![c] =
                    [since |-> at, base |-> at, seen |-> at, exact |-> base.fresh /\ ~late,
                     blind |-> ~base.got, spoilt |-> IF late THEN "late" ELSE "no"]]
              /\ UNCHANGED count
           \/ Fault /\ UNCHANGED <<rows, sync, account>>
        /\ reset' = [reset EXCEPT ![a] = NoReset]
        /\ UNCHANGED <<counter, client, enabled, endpoint, carried>>

-----------------------------------------------------------------------------
(* Traffic, restarts and changes of the inbounds *)

Carry(c, d) ==
    LET add(f) == [s \in Scopes |->
            IF s \in {c, InboundOf[c]} THEN [f[s] EXCEPT ![d] = @ + 1] ELSE f[s]]
    IN  /\ count.bytes < MaxBytes
        /\ count' = [count EXCEPT !.bytes = @ + 1]
        /\ counter' = add(counter)
        /\ carried' = add(carried)
        /\ UNCHANGED <<rows, sync, reset, client, enabled, endpoint, account>>

\* A core starts anew: its counters are gone.
CoreRestart(e) ==
    LET stale(x, s) == [x EXCEPT !.fresh = @ /\ s \notin EngineScopes(e)]
    IN  /\ Fault
        /\ counter' = [s \in Scopes |-> IF s \in EngineScopes(e) THEN Zero ELSE counter[s]]
        /\ sync' = [sync EXCEPT !.raw = [s \in Scopes |-> stale(sync.raw[s], s)]]
        /\ reset' = [a \in Admins |-> [reset[a] EXCEPT !.base = stale(@, reset[a].client)]]
        /\ account' = [s \in Scopes |->
              [account[s] EXCEPT !.exact = @ /\ s \notin EngineScopes(e)]]
        /\ UNCHANGED <<rows, client, enabled, endpoint, carried>>

\* The panel starts anew: main builds the stats clients again.
PanelRestart ==
    /\ Fault
    /\ sync' = NoSync
    /\ reset' = [a \in Admins |-> NoReset]
    /\ \E kind \in StartClients : client' = [sync |-> kind, web |-> kind]
    /\ UNCHANGED <<counter, rows, enabled, endpoint, historyVars>>

\* The stats service of a core comes up, goes down or gets stuck.
EndpointChanges(e, how) ==
    /\ Fault
    /\ endpoint' = [endpoint EXCEPT ![e] = how]
    /\ UNCHANGED <<counter, rows, sync, reset, client, enabled, historyVars>>

\* An inbound or a client is enabled or disabled.
Toggle(s) ==
    /\ Fault
    /\ enabled' = IF s \in enabled THEN enabled \ {s} ELSE enabled \cup {s}
    /\ UNCHANGED <<counter, rows, sync, reset, client, endpoint, historyVars>>

-----------------------------------------------------------------------------

SyncStep ==
    \/ SyncBegin \/ QueryAnswers \/ QueryFails \/ Mark \/ MarkDown \/ PickClient \/ Apply
    \/ \E s \in Scopes : ReadCounter(s)

ResetStep(a) == ResetQuery(a) \/ ResetAbandoned(a) \/ ResetWrite(a) \/ \E c \in Clients : ResetBegin(a, c)

Environment ==
    \/ \E c \in Clients, d \in Directions : Carry(c, d)
    \/ \E e \in {"xray", "singbox"} :
          CoreRestart(e) \/ \E how \in Endpoints : EndpointChanges(e, how)
    \/ \E s \in Scopes : Toggle(s)
    \/ PanelRestart

Next == SyncStep \/ (\E a \in Admins : ResetStep(a)) \/ Environment

Spec == Init /\ [][Next]_vars

\* The ticker keeps starting syncs, and a sync comes to its end.
FairSpec == Spec /\ WF_vars(SyncStep)

-----------------------------------------------------------------------------
(* Properties *)

Counts == [Directions -> Nat]
SampleType == [got : BOOLEAN, value : Counts, at : Counts, fresh : BOOLEAN, newer : SUBSET Admins]

Engines == {"xray", "singbox"}
Messages == {"error", "baseline"}
RowType == [total : Counts, lastRaw : Counts, window : BOOLEAN, message : Messages,
            status : {"none", "ok", "waiting", "partial", "unavailable", "unsupported", "not_configured"}]
SyncType == [pc : {"idle", "read", "mark", "down", "client", "apply"}, engine : Engines,
             left : SUBSET Scopes, raw : [Scopes -> SampleType],
             status : {"waiting", "unavailable", "unsupported", "not_configured"},
             message : Messages, late : BOOLEAN, resets : SUBSET Scopes]
ResetType == [pc : {"idle", "query", "write"}, client : Clients \cup {"none"}, base : SampleType]
ClientKinds == Capabilities \cup {"not_configured"}
AccountType == [since : Counts, base : [Directions -> Int], seen : Counts, exact : BOOLEAN,
                blind : BOOLEAN, spoilt : {"no", "late", "blind", "raised"}]

\* Totals and last counters are natural numbers; the other fields keep to the
\* values the code writes.
TypeOK ==
    /\ counter \in [Scopes -> Counts] /\ carried \in [Scopes -> Counts]
    /\ rows \in [Scopes -> RowType]
    /\ sync \in SyncType
    /\ reset \in [Admins -> ResetType]
    /\ client \in [sync : ClientKinds, web : ClientKinds]
    /\ enabled \subseteq Scopes
    /\ endpoint \in [Engines -> Endpoints]
    /\ account \in [Scopes -> AccountType]
    /\ count \in [bytes : Nat, resets : Nat, faults : Nat]

AtMostSinceReset(s) == \A d \in Directions : rows[s].total[d] <= carried[s][d] - account[s].since[d]

\* "Reset baseline does not rebound old traffic": a total never exceeds what the
\* scope has carried since its last reset, whatever fails or restarts, unless
\* the reset met a sync that had already read the counter or was followed by a
\* failed query before its baseline was known.
CountsOnlySinceReset == \A s \in Scopes : account[s].spoilt = "no" => AtMostSinceReset(s)

\* No byte is counted twice or left out, whatever syncs fail in between, as
\* long as the core runs: the total is what was carried from the baseline to
\* the last sample.
TotalsAreExact == \A s \in Scopes : account[s].exact =>
    \A d \in Directions : rows[s].total[d] = account[s].seen[d] - account[s].base[d]

\* Usage is kept: a total falls only when it is reset or reconciled.
UsageIsKept ==
    [][\A s \in Scopes, d \in Directions : rows'[s].total[d] < rows[s].total[d] =>
          rows'[s].status = "partial" \/ \E a \in Admins : reset[a].pc = "write" /\ reset[a].client = s]_vars

\* A core that answers is counted to the last byte in the end, though the other
\* refuses every query or, if it is Xray, never answers one.  Only a sing-box
\* that never answers keeps both from being counted: no time is left to write.
CatchesUp ==
    <>[](\A s \in Scopes :
            /\ Answered(IF s \in Singbox THEN "singbox" ELSE "xray", client.sync)
            /\ ~Waits("singbox", client.sync)
            /\ counter[s] # Zero
            => rows[s].lastRaw = counter[s])

\* "Reset without a raw baseline uses the next raw counter as baseline".
NextCounterIsBaseline == \A s \in Scopes : account[s].spoilt # "late" => AtMostSinceReset(s)

=============================================================================
