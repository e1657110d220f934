---------------------------- MODULE TopologyGraph ----------------------------
(***************************************************************************)
(* The drawing of the topology page, as an operator of what it was given   *)
(* (src/web/src/routes/topologyGraph.ts).  A node is <<kind, id>>.  Titles *)
(* and positions are left out.                                             *)
(***************************************************************************)
EXTENDS RoutingTables

\* visibleOutbounds and visibleRoutingRules: what the system's own tag marks is
\* kept out of the drawing.
Visible(v) ==
    [v EXCEPT !.outbounds = Without(@, SystemDirect),
              !.rules = {r \in @ : r.outbound \notin SystemDirect}]

inboundNodeId(i) == <<"inbound", i>>
missingInboundNodeId(i) == <<"missing-inbound", i>>
clientNodeId(c) == <<"client", c>>
missingClientNodeId(r) == <<"missing-client", r.id>>
outboundNodeId(o) == <<"outbound", o>>
missingOutboundNodeId(o) == <<"missing-outbound", o>>

\* Where an edge of a rule starts; inbound and client are 0 if there is none.
Source(node, enabled, inbound, client) ==
    [node |-> node, enabled |-> enabled, inbound |-> inbound, client |-> client]

InboundSource(v, i) == Source(inboundNodeId(i), v.inbounds[i].enabled, i, 0)

inboundSourcesForRule(v, r) ==
    CASE r.inbound = 0 -> {InboundSource(v, i) : i \in DOMAIN v.inbounds}
      [] r.inbound \in DOMAIN v.inbounds -> {InboundSource(v, r.inbound)}
      [] OTHER -> {Source(missingInboundNodeId(r.inbound), FALSE, 0, 0)}

routingSourcesForRule(v, r) ==
    CASE r.client = 0 -> inboundSourcesForRule(v, r)
      [] r.client \in DOMAIN v.clients ->
             {Source(clientNodeId(r.client),
                     v.inbounds[Home[r.client]].enabled /\ v.clients[r.client].enabled,
                     Home[r.client], r.client)}
      [] OTHER -> {Source(missingClientNodeId(r), FALSE,
                          IF r.inbound \in DOMAIN v.inbounds THEN r.inbound ELSE 0, r.client)}

MissingTarget(v, r) == r.outbound \notin DOMAIN v.outbounds

InvalidTarget(v, r, source) ==
    /\ ~MissingTarget(v, r) /\ source.inbound # 0
    /\ ~outboundSupportsCore(v.outbounds[r.outbound], v.inbounds[source.inbound].core)

\* Mutant of isActiveRoutingSource: the outbound's switch is forgotten.
isActiveWhateverOutbound(v, r, source) ==
    r.enabled /\ source.enabled /\ ~MissingTarget(v, r) /\ ~InvalidTarget(v, r, source)

isActiveRoutingSource(v, r, source) ==
    /\ r.enabled /\ source.enabled
    /\ ~MissingTarget(v, r) /\ ~InvalidTarget(v, r, source)
    /\ v.outbounds[r.outbound].enabled

Edge(kind, source, target, enabled, rule) ==
    [kind |-> kind, source |-> source, target |-> target, enabled |-> enabled, rule |-> rule]

\* buildRoutingEdge.
RoutingEdges(v) ==
    UNION {{Edge(IF source.client # 0 THEN "client-routing"
                 ELSE IF r.inbound # 0 THEN "routing" ELSE "all-inbounds-routing",
                 source.node,
                 IF MissingTarget(v, r) THEN missingOutboundNodeId(r.outbound)
                 ELSE outboundNodeId(r.outbound),
                 isActiveRoutingSource(v, r, source), r.id)
            : source \in routingSourcesForRule(v, r)} : r \in v.rules}

\* buildClientEdge.
ClientEdges(v) ==
    {Edge("client-inherits", inboundNodeId(Home[c]), clientNodeId(c),
          v.inbounds[Home[c]].enabled /\ v.clients[c].enabled, 0) : c \in DOMAIN v.clients}

\* routedInboundIds and explicitlyRoutedClientIds.
RoutedInbounds(v) ==
    {i \in DOMAIN v.inbounds : \E e \in RoutingEdges(v) : e.enabled /\ e.source = inboundNodeId(i)}
RoutedClients(v) ==
    {c \in DOMAIN v.clients : \E e \in RoutingEdges(v) : e.enabled /\ e.source = clientNodeId(c)}

\* buildDefaultDirectEdge and buildClientDefaultDirectEdge.
DefaultEdges(v) ==
    IF Direct \notin DOMAIN v.outbounds THEN {}
    ELSE {Edge("default-direct", inboundNodeId(i), outboundNodeId(Direct),
               v.inbounds[i].enabled /\ v.outbounds[Direct].enabled, 0)
              : i \in DOMAIN v.inbounds \ RoutedInbounds(v)}
         \cup
         {Edge("default-direct", clientNodeId(c), outboundNodeId(Direct),
               v.clients[c].enabled /\ v.outbounds[Direct].enabled, 0)
              : c \in {d \in DOMAIN v.clients \ RoutedClients(v) : Home[d] \notin RoutedInbounds(v)}}

TopologyEdges(v) == RoutingEdges(v) \cup ClientEdges(v) \cup DefaultEdges(v)

\* Mutant of MissingInbounds: only the rules of clients are looked at.
MissingInboundsOfClients(v) == {r.inbound : r \in {s \in v.rules : s.client # 0}} \ ({0} \cup DOMAIN v.inbounds)

MissingInbounds(v) == {r.inbound : r \in v.rules} \ ({0} \cup DOMAIN v.inbounds)

TopologyNodes(v) ==
    {inboundNodeId(i) : i \in DOMAIN v.inbounds}
    \cup {clientNodeId(c) : c \in DOMAIN v.clients}
    \cup {outboundNodeId(o) : o \in DOMAIN v.outbounds}
    \cup {missingInboundNodeId(i) : i \in MissingInbounds(v)}
    \cup {missingClientNodeId(r) : r \in {s \in v.rules : s.client \notin {0} \cup DOMAIN v.clients}}
    \cup {missingOutboundNodeId(r.outbound) : r \in {s \in v.rules : MissingTarget(v, s)}}

buildTopologyGraph(v) ==
    LET shown == Visible(v) IN [nodes |-> TopologyNodes(shown), edges |-> TopologyEdges(shown)]

\* Where the drawing shows that traffic goes: <<rule, client, outbound>> of the
\* active edges that start at the client or at its inbound.
Drawn(v, core) ==
    UNION {{<<e.rule, c, e.target[2]>> :
                c \in {d \in DOMAIN v.clients :
                          /\ v.clients[d].enabled /\ Runs(v, Home[d], core)
                          /\ e.source \in {clientNodeId(d), inboundNodeId(Home[d])}}}
           : e \in {f \in RoutingEdges(v) : f.enabled}}

=============================================================================
