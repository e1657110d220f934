----------------------------- MODULE TrafficStream -----------------------------
(***************************************************************************)
(* How the overview page keeps the traffic figures up to date              *)
(* (src/web/src/routes/OverviewPage.tsx).  Two paths write the same cached *)
(* snapshot: a REST query, polled while the page is visible, that replaces *)
(* it, and a server-sent stream whose patches are merged into whatever the *)
(* cache holds at that moment.  Nothing orders them: an answer that was on *)
(* its way overwrites what the stream has brought since, and the patches   *)
(* after it are differences to a snapshot that is no longer there.         *)
(*                                                                         *)
(* Rows stand for inbounds and clients alike, which are treated the same;  *)
(* a row is its counter, the total is computed from the rows.              *)
(***************************************************************************)
EXTENDS Integers, Sequences, FiniteSets, FiniteSetsExt

CONSTANTS
    RowIds,        \* ids of inbounds
    ResyncEvery,   \* trafficV2StreamResyncEvery
    MaxMoves,      \* changes of the counters and rows
    MaxQueue,      \* events on their way
    MaxDrops       \* failed requests, broken streams, and times the page is hidden

ASSUME StreamBounds == {ResyncEvery, MaxMoves, MaxQueue, MaxDrops} \subseteq Nat
\* The overview is opened on a panel with an inbound.
ASSUME RowIdsAssumption == RowIds # {}

VARIABLES
    rows,      \* what the store holds: a function from a subset of RowIds
    view,      \* trafficViewCache: the view it holds, or NoView
    moves,
    visible,   \* the page is shown: usePageVisible
    shown,     \* the cached ['traffic-v2-snapshot'], or NoSnapshot
    fetch,     \* [state, answer]: the REST query
    stream,    \* [state, previous, countdown]: the EventSource and its handler
    events,    \* events sent on the stream and not handled yet
    replaced,  \* a REST answer replaced the snapshot that the patches build on
    drops

trafficServer == <<rows, view, moves>>
trafficPage == <<visible, shown, replaced>>
streamVars == <<trafficServer, trafficPage, fetch, stream, events, drops>>

NoView == [i \in {0} |-> 0]
NoSnapshot == [rows |-> <<>>, total |-> -1]

Idle == [state |-> "idle", answer |-> NoSnapshot]
Sent == [Idle EXCEPT !.state = "sent"]
FetchAnswered(s) == [state |-> "answered", answer |-> s]

Closed == [state |-> "closed", previous |-> NoSnapshot, countdown |-> 0]
Connecting == [Closed EXCEPT !.state = "connecting"]

TotalOf(r) == MapThenSumSet(LAMBDA i : r[i], DOMAIN r)

\* TrafficV2Snapshot as far as it is merged: the rows and the total.
Snapshot(r) == [rows |-> r, total |-> TotalOf(r)]

\* emptyTrafficV2, shown while there is nothing else.
emptyTrafficV2 == Snapshot(<<>>)

-----------------------------------------------------------------------------
(* The server *)

\* A sample is counted, an inbound added or deleted.
Move(next) ==
    /\ moves < MaxMoves
    /\ moves' = moves + 1
    /\ rows' = next
    /\ UNCHANGED <<view, trafficPage, fetch, stream, events, drops>>

Moves ==
    \E i \in RowIds :
        \/ i \in DOMAIN rows /\ Move([rows EXCEPT ![i] = @ + 1])
        \/ i \in DOMAIN rows /\ Move([j \in DOMAIN rows \ {i} |-> rows[j]])
        \/ i \notin DOMAIN rows
           /\ Move([j \in DOMAIN rows \cup {i} |-> IF j = i THEN 0 ELSE rows[j]])

\* trafficViewCache.get: the view that is kept, or a new one that is kept then.
Viewed == IF view = NoView THEN rows ELSE view
KeepsView == view' = Viewed

ViewExpires ==
    /\ view # NoView
    /\ view' = NoView
    /\ UNCHANGED <<rows, moves, trafficPage, fetch, stream, events, drops>>

\* The fields that changed; total is the set of the total, empty when it did not.
buildTrafficV2Patch(previous, current) ==
    [event |-> "patch",
     total |-> IF previous.total = current.total THEN {} ELSE {current.total},
     updates |-> [i \in {i \in DOMAIN current.rows :
                            i \notin DOMAIN previous.rows \/ previous.rows[i] # current.rows[i]}
                      |-> current.rows[i]],
     removed |-> DOMAIN previous.rows \ DOMAIN current.rows]

SnapshotEvent(s) == [event |-> "snapshot", snapshot |-> s]
StreamError == [event |-> "stream-error"]

\* trafficV2StreamHandler up to its loop: a full snapshot first.
StreamOpens ==
    /\ stream.state = "connecting"
    /\ Len(events) < MaxQueue
    /\ KeepsView
    /\ stream' = [state |-> "open", previous |-> Snapshot(Viewed), countdown |-> ResyncEvery]
    /\ events' = Append(events, SnapshotEvent(Snapshot(Viewed)))
    /\ UNCHANGED <<rows, moves, trafficPage, fetch, drops>>

\* A tick: every so often the whole snapshot, else what changed, if anything.
StreamTicks ==
    LET current == Snapshot(Viewed) IN
    /\ stream.state = "open"
    /\ Len(events) < MaxQueue
    /\ KeepsView
    /\ IF stream.countdown <= 0
       THEN /\ stream' = [stream EXCEPT !.previous = current, !.countdown = ResyncEvery]
            /\ events' = Append(events, SnapshotEvent(current))
       ELSE /\ stream' = [stream EXCEPT !.previous = current, !.countdown = @ - 1]
            /\ events' = IF stream.previous = current THEN events
                         ELSE Append(events, buildTrafficV2Patch(stream.previous, current))
    /\ UNCHANGED <<rows, moves, trafficPage, fetch, drops>>

\* The view cannot be built: an event says so and the stream goes on, or ends
\* if it was the first view, after which the browser connects again.
StreamFails ==
    /\ stream.state \in {"connecting", "open"}
    /\ view = NoView
    /\ drops < MaxDrops
    /\ drops' = drops + 1
    /\ events' = Append(events, StreamError)
    /\ UNCHANGED <<trafficServer, trafficPage, fetch, stream>>

\* The connection breaks: what was not delivered is lost.  The EventSource
\* reports an error and connects again, or closes for good when the answer is
\* not a stream.
StreamBreaks ==
    /\ stream.state \in {"connecting", "open"}
    /\ drops < MaxDrops
    /\ drops' = drops + 1
    /\ events' = <<StreamError>>
    /\ stream' \in {Connecting, Closed}
    /\ UNCHANGED <<trafficServer, trafficPage, fetch>>

-----------------------------------------------------------------------------
(* The page *)

\* Mutant of FetchBegins: no interval, the stream alone keeps up.
FetchBeginsWithoutData ==
    /\ visible /\ shown = NoSnapshot
    /\ fetch = Idle
    /\ fetch' = Sent
    /\ UNCHANGED <<trafficServer, trafficPage, stream, events, drops>>

\* The query fetches when it is mounted, at its interval, on a refresh and
\* when it is invalidated.
FetchBegins ==
    /\ visible
    /\ fetch = Idle
    /\ fetch' = Sent
    /\ UNCHANGED <<trafficServer, trafficPage, stream, events, drops>>

\* trafficV2SnapshotHandler.
FetchIsServed ==
    /\ fetch = Sent
    /\ KeepsView
    /\ fetch' = FetchAnswered(Snapshot(Viewed))
    /\ UNCHANGED <<rows, moves, trafficPage, stream, events, drops>>

\* The answer replaces the snapshot, whatever the stream has written since.
FetchLands ==
    /\ fetch.state = "answered"
    /\ shown' = fetch.answer
    /\ fetch' = Idle
    /\ replaced' = TRUE
    /\ UNCHANGED <<trafficServer, visible, stream, events, drops>>

\* Without a retry; the data that are there stay.
FetchFails ==
    /\ fetch # Idle
    /\ drops < MaxDrops
    /\ drops' = drops + 1
    /\ fetch' = Idle
    /\ UNCHANGED <<trafficServer, trafficPage, stream, events>>

mergeTrafficV2ById(current, patch) ==
    [i \in (DOMAIN current \ patch.removed) \cup DOMAIN patch.updates
        |-> IF i \in DOMAIN patch.updates THEN patch.updates[i] ELSE current[i]]

mergeTrafficV2Snapshot(current, patch) ==
    LET base == IF current = NoSnapshot THEN emptyTrafficV2 ELSE current
    IN  [rows |-> mergeTrafficV2ById(base.rows, patch),
         total |-> IF patch.total = {} THEN base.total ELSE CHOOSE t \in patch.total : TRUE]

\* handleSnapshot and handlePatch.
HandleData ==
    /\ events # <<>>
    /\ Head(events).event # "stream-error"
    /\ events' = Tail(events)
    /\ shown' = IF Head(events).event = "snapshot" THEN Head(events).snapshot
                ELSE mergeTrafficV2Snapshot(shown, Head(events))
    /\ replaced' = (replaced /\ Head(events).event # "snapshot")
    /\ UNCHANGED <<trafficServer, visible, fetch, stream, drops>>

\* invalidateSnapshotOnError: not while a query is in flight, and not within
\* five seconds of the last time.
HandleError ==
    /\ events # <<>>
    /\ Head(events).event = "stream-error"
    /\ events' = Tail(events)
    /\ fetch' \in IF fetch = Idle THEN {Idle, Sent} ELSE {fetch}
    /\ UNCHANGED <<trafficServer, trafficPage, stream, drops>>

\* The page is opened or shown again: the effect opens the stream.
PageShown ==
    /\ ~visible
    /\ visible' = TRUE
    /\ stream' = Connecting
    /\ UNCHANGED <<trafficServer, shown, replaced, fetch, events, drops>>

\* The effect's clean-up closes the source; a query in flight goes on.
PageHidden ==
    /\ visible
    /\ drops < MaxDrops
    /\ drops' = drops + 1
    /\ visible' = FALSE
    /\ stream' = Closed
    /\ events' = <<>>
    /\ UNCHANGED <<trafficServer, shown, replaced, fetch>>

-----------------------------------------------------------------------------

StreamInit ==
    /\ rows = [i \in {CHOOSE i \in RowIds : TRUE} |-> 0]
    /\ view = NoView
    /\ moves = 0 /\ drops = 0
    /\ visible = FALSE /\ shown = NoSnapshot /\ replaced = FALSE
    /\ fetch = Idle
    /\ stream = Closed
    /\ events = <<>>

StreamNext ==
    \/ Moves \/ ViewExpires
    \/ StreamOpens \/ StreamTicks \/ StreamFails \/ StreamBreaks
    \/ FetchBegins \/ FetchIsServed \/ FetchLands \/ FetchFails
    \/ HandleData \/ HandleError
    \/ PageShown \/ PageHidden

\* The cache's view gets old, the poll and its answers come, the handlers run.
\* The stream need not open or tick: the poll is what the page relies on.
StreamFairness ==
    /\ WF_streamVars(ViewExpires)
    /\ WF_streamVars(FetchBegins \/ FetchIsServed \/ FetchLands)
    /\ WF_streamVars(HandleData \/ HandleError)

StreamSpec == StreamInit /\ [][StreamNext]_streamVars /\ StreamFairness

-----------------------------------------------------------------------------
(* Properties *)

\* What an event makes of a snapshot: handleSnapshot, handlePatch, or nothing.
Applied(snapshot, e) ==
    CASE e.event = "snapshot" -> e.snapshot
      [] e.event = "patch" -> mergeTrafficV2Snapshot(snapshot, e)
      [] OTHER -> snapshot

\* The snapshot that all of the given events make of the one given.
AfterEvents(snapshot, sent) ==
    LET after[k \in 0..Len(sent)] ==
            IF k = 0 THEN snapshot ELSE Applied(after[k - 1], sent[k])
    IN  after[Len(sent)]

\* The snapshot is absent or complete, as are the stream's and the answers.
StreamTypeOK ==
    /\ shown # NoSnapshot => DOMAIN shown.rows \subseteq RowIds /\ shown.total \in Nat
    /\ fetch \in {Idle, Sent} \/ fetch = FetchAnswered(Snapshot(fetch.answer.rows))
    /\ stream.state \in {"closed", "connecting", "open"}
    /\ visible = FALSE => stream = Closed /\ events = <<>>
    /\ drops \in 0..MaxDrops /\ moves \in 0..MaxMoves

\* The patches lead the page to the server's last snapshot: what is shown, with
\* the events on their way, is what the stream has compared last, unless a REST
\* answer has replaced the snapshot that the patches build on.  (Part of
\* FiguresAreFollowed.)
PatchesAreComplete ==
    stream.state = "open" /\ ~(replaced /\ \A k \in DOMAIN events : events[k].event # "snapshot") =>
        AfterEvents(shown, events) = stream.previous

\* Figures that a patch has mixed with others do not stay: when the page stays
\* visible and nothing changes any more, it shows in the end what the store
\* holds, and goes on to.
FiguresAreFollowed ==
    /\ []PatchesAreComplete
    /\ <>[]visible => <>[](shown = Snapshot(rows))

=============================================================================
