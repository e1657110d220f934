----------------------------- MODULE RoutingPage -----------------------------
(***************************************************************************)
(* The routing page (src/web/src/routes/RoutingPage.tsx), which shares its *)
(* three queries with the topology page.  What it shows is as old as each  *)
(* query's last answer, while other tabs change the tables.                *)
(***************************************************************************)
EXTENDS TopologyGraph, Sequences

Seqs == INSTANCE SequencesExt

CONSTANTS
    FirstTables,   \* the tables that the page may find
    MaxWrites      \* requests of the page and changes by others, together

ASSUME RoutingPageBounds == MaxWrites \in Nat

\* The database starts in order, and has given its rules the first ids.
ASSUME FirstTablesAssumption ==
    \A t \in FirstTables :
        /\ DOMAIN t.inbounds \subseteq InboundIds /\ DOMAIN t.outbounds \subseteq OutboundIds
        /\ Whole(t) /\ IsFiniteSet(t.rules) /\ Cardinality(t.rules) <= MaxRules
        /\ \A r \in t.rules : r.id \in 1..Cardinality(t.rules)

VARIABLES
    tables,    \* the server's
    lists,     \* what the page has: tables whose parts may be of different moments
    awaited,   \* the queries in flight
    draft,     \* the rule in the form; its id is 0 when it is new, -1 when there is none
    inFlight,  \* requests on their way, at most two
    ruleIds,   \* rules created so far
    writes     \* requests of the page and changes by others so far

routingVars == <<tables, lists, awaited, draft, inFlight, ruleIds, writes>>

Lists == {"inbounds", "outbounds", "routing-rules"}
NoRule == RuleOf(-1, 0, 0, 0, FALSE, 0)

-----------------------------------------------------------------------------
(* What the page works out of what it has *)

\* The rules in the order of the page.
Listed(v) == Seqs!SetToSortSeq(v.rules, LAMBDA r, s : r.sort < s.sort \/ (r.sort = s.sort /\ r.id < s.id))

\* Mutant: the client's own inbound does not count.
requiredOfAll(v, inbound, client) == {v.inbounds[i].core : i \in DOMAIN v.inbounds}

\* A client's inbound decides; an inbound that is not there decides nothing.
requiredRouteCores(v, inbound, client) ==
    {v.inbounds[i].core : i \in
        CASE client # 0 -> {Home[c] : c \in {client} \cap DOMAIN v.clients}
          [] client = 0 /\ inbound # 0 -> {inbound} \cap DOMAIN v.inbounds
          [] OTHER -> DOMAIN v.inbounds}

\* outboundDisabledReason gives one.
outboundDisabled(v, outbound, required) ==
    /\ outbound \in DOMAIN v.outbounds
    /\ \E core \in required : ~outboundSupportsCore(v.outbounds[outbound], core)

outboundSelectionOptions(v, inbound, client) ==
    {o \in DOMAIN v.outbounds : ~outboundDisabled(v, o, requiredRouteCores(v, inbound, client))}

\* <<client, inbound>>: the clients of the inbound, or of all if it is not there,
\* and the form's own client when it is missing.
clientSelectionOptions(v, d) ==
    {<<0, 0>>}
    \cup {<<c, Home[c]>> : c \in {x \in DOMAIN v.clients : d.inbound \in DOMAIN v.inbounds => Home[x] = d.inbound}}
    \cup {<<c, d.inbound>> : c \in {d.client} \ DOMAIN v.clients}

\* routingDiagnostics: the tones of what it says of the form.
routingDiagnostics(v, d) ==
    LET found == {IF d.outbound = 0
                     \/ outboundDisabled(v, d.outbound, requiredRouteCores(v, d.inbound, d.client))
                  THEN "error" ELSE "info",
                  IF \/ d.outbound \in DOMAIN v.outbounds /\ ~v.outbounds[d.outbound].enabled
                     \/ d.client \notin {0} \cup DOMAIN v.clients
                  THEN "warning" ELSE "info"}
    IN  IF found = {"info"} THEN {"ok"} ELSE found

\* routeSummaryStatus.
routeSummaryStatus(v, d) ==
    IF "error" \in routingDiagnostics(v, d) THEN "error"
    ELSE IF "warning" \in routingDiagnostics(v, d) THEN "warning" ELSE "ok"

-----------------------------------------------------------------------------
(* The queries *)

\* An answer lands: the part of the tables as it is now.
ListLands(q) ==
    /\ q \in awaited
    /\ awaited' = awaited \ {q}
    /\ lists' = CASE q = "inbounds" -> [lists EXCEPT !.inbounds = tables.inbounds, !.clients = tables.clients]
                 [] q = "outbounds" -> [lists EXCEPT !.outbounds = tables.outbounds]
                 [] q = "routing-rules" -> [lists EXCEPT !.rules = tables.rules]
    /\ UNCHANGED <<tables, draft, inFlight, ruleIds, writes>>

\* Another visit: of this page, whose data may still be fresh, or of the
\* topology page, which asks for all of them (refetchTopologyDependencies).
refetchTopologyDependencies ==
    /\ awaited = {} /\ lists # tables
    /\ awaited' = Lists
    /\ UNCHANGED <<tables, lists, draft, inFlight, ruleIds, writes>>

\* Others do the rest, or create a rule for all inbounds.
OthersChange ==
    /\ writes < MaxWrites /\ writes' = writes + 1
    /\ \/ /\ tables' \in Elsewhere(tables) \ {tables}
          /\ UNCHANGED ruleIds
       \/ /\ ruleIds < MaxRules /\ ruleIds' = ruleIds + 1
          /\ \E o \in OutboundIds :
                 LET r == RuleOf(0, 0, 0, o, TRUE, 0)
                 IN  Accepts(tables, r) /\ tables' = CreateRoutingRule(tables, ruleIds', r)
    /\ UNCHANGED <<lists, awaited, draft, inFlight>>

-----------------------------------------------------------------------------
(* The form *)

\* newRoutingRuleDraft takes the first outbound, and is not there without one.
OpenDraft ==
    /\ draft = NoRule
    /\ \/ \E o \in DOMAIN lists.outbounds :
             /\ \A p \in DOMAIN lists.outbounds : o <= p
             /\ draft' = RuleOf(0, 0, 0, o, TRUE, 0)
       \/ draft' \in lists.rules
    /\ UNCHANGED <<tables, lists, awaited, inFlight, ruleIds, writes>>

CloseDraft ==
    /\ draft # NoRule
    /\ draft' = NoRule
    /\ UNCHANGED <<tables, lists, awaited, inFlight, ruleIds, writes>>

\* The source is chosen anew, so the client goes.
PickInbound(i) ==
    /\ draft # NoRule
    /\ i \in {0} \cup DOMAIN lists.inbounds
    /\ draft' = [draft EXCEPT !.inbound = i, !.client = 0]
    /\ UNCHANGED <<tables, lists, awaited, inFlight, ruleIds, writes>>

\* A client brings its inbound; no client leaves the inbound as it is.
PickClient(option) ==
    /\ draft # NoRule
    /\ option \in clientSelectionOptions(lists, draft)
    /\ draft' = [draft EXCEPT !.client = option[1], !.inbound = IF option[1] # 0 THEN option[2] ELSE @]
    /\ UNCHANGED <<tables, lists, awaited, inFlight, ruleIds, writes>>

PickOutbound(o) ==
    /\ draft # NoRule
    /\ o \in outboundSelectionOptions(lists, draft.inbound, draft.client)
    /\ draft' = [draft EXCEPT !.outbound = o]
    /\ UNCHANGED <<tables, lists, awaited, inFlight, ruleIds, writes>>

-----------------------------------------------------------------------------
(* The requests *)

Request(kind, rule, ids) == [kind |-> kind, rule |-> rule, ids |-> ids]

Ask(request) ==
    /\ Cardinality(inFlight) < 2
    /\ inFlight' = inFlight \cup {request}
    /\ writes < MaxWrites /\ writes' = writes + 1
    /\ UNCHANGED <<tables, lists, awaited, draft, ruleIds>>

SaveRule ==
    /\ draft # NoRule
    /\ \A r \in inFlight : r.kind # "save"
    /\ Ask(Request("save", draft, << >>))

\* The whole rule as the page has it, with its switch turned.
ToggleRule(r) ==
    /\ r \in lists.rules
    /\ \A a \in inFlight : a.kind # "toggle"
    /\ Ask(Request("toggle", [r EXCEPT !.enabled = ~@], << >>))

RemoveRule(r) ==
    /\ r \in lists.rules
    /\ Ask(Request("remove", r, << >>))

\* movedRoutingRuleIds: the ids of the page's rules, with two neighbours swapped.
movedRoutingRuleIds(items, k) ==
    [n \in DOMAIN items |-> items[IF n = k THEN k + 1 ELSE IF n = k + 1 THEN k ELSE n].id]

MoveRule(k) ==
    /\ {k, k + 1} \subseteq DOMAIN Listed(lists)
    /\ Ask(Request("reorder", NoRule, movedRoutingRuleIds(Listed(lists), k)))

Exists(id) == \E r \in tables.rules : r.id = id

\* The handler does it or refuses.
ServedTables(a) ==
    CASE a.kind = "save" /\ a.rule.id = 0 ->
             IF Accepts(tables, a.rule) THEN CreateRoutingRule(tables, ruleIds + 1, a.rule) ELSE tables
      [] a.kind = "toggle" \/ (a.kind = "save" /\ a.rule.id # 0) ->
             IF Accepts(tables, a.rule) /\ Exists(a.rule.id)
             THEN UpdateRoutingRule(tables, a.rule.id, a.rule) ELSE tables
      [] a.kind = "remove" -> DeleteRules(tables, {r \in tables.rules : r.id = a.rule.id})
      [] a.kind = "reorder" -> ReorderRoutingRules(tables, a.ids)

Done(a) ==
    CASE a.kind = "remove" -> Exists(a.rule.id)
      [] a.kind = "reorder" -> TRUE
      [] OTHER -> Accepts(tables, a.rule) /\ (a.rule.id # 0 => Exists(a.rule.id))

\* Served in any order.  What was done has the page ask for its lists again
\* (refreshTopologyDependencies), and a save closes the form; an error does neither.
RequestIsServed(a) ==
    LET new == a.kind = "save" /\ a.rule.id = 0 IN
    /\ a \in inFlight
    /\ inFlight' = inFlight \ {a}
    /\ new => ruleIds < MaxRules
    /\ ruleIds' = IF new /\ Done(a) THEN ruleIds + 1 ELSE ruleIds
    /\ tables' = ServedTables(a)
    /\ awaited' = IF Done(a) THEN Lists ELSE awaited
    /\ draft' = IF Done(a) /\ a.kind = "save" THEN NoRule ELSE draft
    /\ UNCHANGED <<lists, writes>>

-----------------------------------------------------------------------------

RoutingInit ==
    /\ tables \in FirstTables
    /\ lists = tables
    /\ awaited = {}
    /\ draft = NoRule
    /\ inFlight = {}
    /\ ruleIds = Cardinality(tables.rules)
    /\ writes = 0

RoutingNext ==
    \/ \E q \in Lists : ListLands(q)
    \/ refetchTopologyDependencies
    \/ OthersChange
    \/ OpenDraft \/ CloseDraft
    \/ \E i \in {0} \cup InboundIds : PickInbound(i)
    \/ \E c \in {0} \cup ClientIds, i \in {0} \cup InboundIds : PickClient(<<c, i>>)
    \/ \E o \in OutboundIds : PickOutbound(o)
    \/ SaveRule
    \/ \E r \in lists.rules : ToggleRule(r) \/ RemoveRule(r)
    \/ \E k \in 1..Cardinality(lists.rules) : MoveRule(k)
    \/ \E a \in inFlight : RequestIsServed(a)

RoutingSpec == RoutingInit /\ [][RoutingNext]_routingVars

-----------------------------------------------------------------------------
(* Properties *)

\* The tables, the lists and the requests keep to their forms.
RoutingTypeOK ==
    /\ \A v \in {tables, lists} :
          DOMAIN v.inbounds \subseteq InboundIds /\ DOMAIN v.outbounds \subseteq OutboundIds
          /\ \A c \in DOMAIN v.clients : c \in ClientIds
    /\ awaited \subseteq Lists /\ draft.id \in -1..MaxRules
    /\ \A a \in inFlight : a.kind \in {"save", "toggle", "remove", "reorder"}

\* However requests, cascades and the changes of others interleave, a stored
\* rule refers to what exists, its client belongs to its inbound, and no two
\* rules have one id.
RulesAreWhole ==
    \A r \in tables.rules :
        /\ r.inbound \in {0} \cup DOMAIN tables.inbounds
        /\ r.outbound \in DOMAIN tables.outbounds
        /\ r.client # 0 => r.client \in DOMAIN tables.clients /\ r.inbound = Home[r.client]
        /\ \A s \in tables.rules : s.id = r.id => s = r

\* What the form says of a rule whose parts all exist is what the server will
\* do: it warns of a core that the outbound lacks if and only if the save is
\* refused.  (With no inbound at all the server wants Xray, the form nothing.)
JudgedAsServed ==
    /\ lists = tables /\ draft # NoRule
    /\ DOMAIN tables.inbounds # {}
    /\ draft.inbound \in {0} \cup DOMAIN tables.inbounds
    /\ draft.client \in {0} \cup DOMAIN tables.clients
    /\ draft.outbound \in DOMAIN tables.outbounds
    => (Accepts(tables, draft) <=> routeSummaryStatus(lists, draft) # "error")

\* Every edge of the drawing has its two nodes, although the three lists that
\* it is made of may be of different moments: React Flow drops an edge without.
EdgesHaveEnds ==
    LET graph == buildTopologyGraph(lists)
    IN  \A e \in graph.edges : {e.source, e.target} \subseteq graph.nodes

\* A rule of one client of an inbound that is written without its clients.
NamesNobody(t, r) == r.client # 0 /\ ~t.inbounds[Home[r.client]].users

\* When the lists are the server's: each way that the generated configuration of
\* the core gives to a client has an active line, unless it is the system's; and
\* an active line is such a way, or of a written rule that leads somewhere but is
\* overtaken by an earlier one or names nobody.  The drawing knows neither the
\* order of the rules nor which protocols have users.
DrawnAsRouted(core) ==
    lists = tables /\ Builds(tables, core) =>
        LET drawn == Drawn(Visible(lists), core)
            ways  == Routed(tables, core)
        IN  /\ \A w \in ways : w[3] \in SystemDirect \/ w \in drawn
            /\ \A w \in drawn \ ways :
                  \E r \in Emitted(tables, core) :
                      /\ r.id = w[1] /\ r.outbound = w[3] /\ Leads(tables, r)
                      /\ Overtaken(tables, r, w[2], core) \/ NamesNobody(tables, r)

XrayDrawnAsRouted == DrawnAsRouted("xray")

\* The drawing has its nodes, and shows every way of Xray's; what it shows in
\* vain is a rule that Xray has.
DrawingIsTrue == EdgesHaveEnds /\ XrayDrawnAsRouted

\* The form says that a client makes a rule of a client, and the drawing shows
\* it so; the rule that sing-box gets takes every client of the inbound.
SingboxDrawnAsRouted == DrawnAsRouted("sing-box")

=============================================================================
