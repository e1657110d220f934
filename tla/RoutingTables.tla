---------------------------- MODULE RoutingTables ----------------------------
(***************************************************************************)
(* The tables of inbounds, clients, outbounds and routing rules: what the  *)
(* store accepts (src/internal/db/routing.go) and what the two generators  *)
(* make of the rules (src/internal/xray/config.go and singbox/config.go).  *)
(* A stored rule that names an inbound has its id, so tags are left out;   *)
(* so are the conditions of a rule (domain, ip, protocol): each rule here  *)
(* is one that takes all traffic of its source.                            *)
(***************************************************************************)
EXTENDS Integers, FiniteSets

CONSTANTS
    InboundIds, ClientIds, OutboundIds,
    Home,     \* [ClientIds -> InboundIds]
    Direct,   \* the outbound whose tag is "direct"
    SystemDirect,  \* those whose tag is "migate-system-direct"
    Kinds,    \* what outbound protocols there are, as to the cores that know them
    MaxRules  \* rules that are ever created

ASSUME RoutingBounds ==
    /\ InboundIds \cup ClientIds \cup OutboundIds \subseteq Nat \ {0}
    /\ Home \in [ClientIds -> InboundIds]
    /\ Direct \in OutboundIds /\ SystemDirect \subseteq OutboundIds
    /\ Kinds \subseteq {"shared", "singbox", "dns"}
    /\ MaxRules \in Nat

\* A set of tables: functions from the ids that exist, and the set of rules,
\* whose inbound or client is 0 when the rule does not say.
Cores == {"xray", "sing-box"}

\* What the protocol of an inbound comes to: its core, and whether the inbound
\* is written with its clients as users.  Xray's Shadowsocks is not.
InboundOf(core, users, enabled) == [core |-> core, users |-> users, enabled |-> enabled]
InboundKinds == {<<"xray", TRUE>>, <<"xray", FALSE>>, <<"sing-box", TRUE>>}

RuleOf(id, inbound, client, outbound, enabled, sort) ==
    [id |-> id, inbound |-> inbound, client |-> client, outbound |-> outbound,
     enabled |-> enabled, sort |-> sort]

\* The tables hold together: every reference of a row leads to a row.
Whole(t) ==
    /\ DOMAIN t = {"inbounds", "clients", "outbounds", "rules"}
    /\ \A c \in DOMAIN t.clients : c \in ClientIds /\ Home[c] \in DOMAIN t.inbounds
    /\ \A r \in t.rules :
          /\ r = RuleOf(r.id, r.inbound, r.client, r.outbound, r.enabled, r.sort)
          /\ r.inbound \in {0} \cup DOMAIN t.inbounds
          /\ r.outbound \in DOMAIN t.outbounds
          /\ r.client # 0 => r.client \in DOMAIN t.clients /\ r.inbound = Home[r.client]
          /\ \A s \in t.rules : s.id = r.id => s = r

\* outboundSupportedCores, and OutboundProtocolSupportedCores of the server.
outboundSupportedCores(o) == IF o.kind = "singbox" THEN {"sing-box"} ELSE Cores
outboundSupportsCore(o, core) == core \in outboundSupportedCores(o)

-----------------------------------------------------------------------------
(* The store *)

\* routingRuleCores: of the inbound, or else of all of them, or else Xray.
routingRuleCores(t, inbound) ==
    CASE inbound # 0 -> {t.inbounds[inbound].core}
      [] inbound = 0 /\ DOMAIN t.inbounds # {} -> {t.inbounds[i].core : i \in DOMAIN t.inbounds}
      [] OTHER -> {"xray"}

\* resolveRoutingRuleSource: a client brings its inbound.
resolveRoutingRuleSource(t, p) == IF p.client # 0 THEN Home[p.client] ELSE p.inbound

\* What CreateRoutingRule and UpdateRoutingRule accept.
Accepts(t, p) ==
    /\ p.client # 0 => p.client \in DOMAIN t.clients /\ p.inbound \in {0, Home[p.client]}
    /\ p.client = 0 /\ p.inbound # 0 => p.inbound \in DOMAIN t.inbounds
    /\ p.outbound \in DOMAIN t.outbounds
    /\ \A core \in routingRuleCores(t, resolveRoutingRuleSource(t, p)) :
           outboundSupportsCore(t.outbounds[p.outbound], core)

NextSort(t) == IF t.rules = {} THEN 0
               ELSE 1 + (CHOOSE n \in {r.sort : r \in t.rules} : \A r \in t.rules : r.sort <= n)

CreateRoutingRule(t, id, p) ==
    [t EXCEPT !.rules = @ \cup {RuleOf(id, resolveRoutingRuleSource(t, p), p.client, p.outbound,
                                       p.enabled, NextSort(t))}]

\* Mutant of UpdateRoutingRule: the inbound stays what it was.
UpdateButInbound(t, id, p) ==
    [t EXCEPT !.rules = {IF r.id = id
                         THEN RuleOf(id, r.inbound, p.client, p.outbound, p.enabled, r.sort)
                         ELSE r : r \in @}]

\* The place of a rule is not in the update.
UpdateRoutingRule(t, id, p) ==
    [t EXCEPT !.rules = {IF r.id = id
                         THEN RuleOf(id, resolveRoutingRuleSource(t, p), p.client, p.outbound,
                                     p.enabled, r.sort)
                         ELSE r : r \in @}]

DeleteRules(t, gone) == [t EXCEPT !.rules = @ \ gone]

\* ids is a sequence; a rule that it leaves out keeps its place.
ReorderRoutingRules(t, ids) ==
    [t EXCEPT !.rules = {IF \E k \in DOMAIN ids : ids[k] = r.id
                         THEN [r EXCEPT !.sort = (CHOOSE k \in DOMAIN ids : ids[k] = r.id) - 1]
                         ELSE r : r \in @}]

Without(f, ids) == [x \in DOMAIN f \ ids |-> f[x]]

\* The clients and the rules go with the inbound, in one transaction.
DeleteInbound(t, i) ==
    [DeleteRules(t, {r \in t.rules : r.inbound = i}) EXCEPT
        !.inbounds = Without(@, {i}),
        !.clients = Without(@, {c \in DOMAIN t.clients : Home[c] = i})]

DeleteClient(t, c) ==
    [DeleteRules(t, {r \in t.rules : r.client = c}) EXCEPT !.clients = Without(@, {c})]

\* Refused while a rule refers to it.
MayDeleteOutbound(t, o) == o \in DOMAIN t.outbounds /\ \A r \in t.rules : r.outbound # o
DeleteOutbound(t, o) == [t EXCEPT !.outbounds = Without(@, {o})]

UpdateProtocol(t, i, kind) ==
    [t EXCEPT !.inbounds[i] = InboundOf(kind[1], kind[2], @.enabled)]

\* What others do to the tables: SetInboundEnabled, UpdateInbound, SetClientEnabled,
\* SetOutboundEnabled, UpdateOutbound, and the deletions.  The two updates may
\* change the protocol, and the rules that exist are not asked.
Elsewhere(t) ==
    {[t EXCEPT !.inbounds[i].enabled = ~@] : i \in DOMAIN t.inbounds}
    \cup {UpdateProtocol(t, i, k) : i \in DOMAIN t.inbounds, k \in InboundKinds}
    \cup {[t EXCEPT !.clients[c].enabled = ~@] : c \in DOMAIN t.clients}
    \cup {[t EXCEPT !.outbounds[o].enabled = ~@] : o \in DOMAIN t.outbounds}
    \cup {[t EXCEPT !.outbounds[o].kind = k] : o \in DOMAIN t.outbounds, k \in Kinds}
    \cup {DeleteInbound(t, i) : i \in DOMAIN t.inbounds}
    \cup {DeleteClient(t, c) : c \in DOMAIN t.clients}
    \cup {DeleteOutbound(t, o) : o \in {p \in DOMAIN t.outbounds : MayDeleteOutbound(t, p)}}

-----------------------------------------------------------------------------
(* The generators *)

Runs(t, i, core) == i \in DOMAIN t.inbounds /\ t.inbounds[i].enabled /\ t.inbounds[i].core = core

\* RoutingRuleAppliesToCore.
AppliesToCore(t, r, core) ==
    CASE r.client # 0 -> r.client \in DOMAIN t.clients /\ Runs(t, Home[r.client], core)
      [] r.client = 0 /\ r.inbound # 0 -> Runs(t, r.inbound, core)
      [] OTHER -> (\E i \in DOMAIN t.inbounds : Runs(t, i, core)) \/ DOMAIN t.inbounds = {}

Compiled(t, core) == {r \in t.rules : r.enabled /\ AppliesToCore(t, r, core)}

\* BuildConfigWithOutboundsOptions gives up over a rule whose target the core does not know.
Builds(t, core) ==
    \A r \in Compiled(t, core) :
        /\ r.outbound \in DOMAIN t.outbounds
        /\ outboundSupportsCore(t.outbounds[r.outbound], core)

\* The rules that are written: Xray leaves out those of a client that is
\* disabled; sing-box those to a dns outbound.
Emitted(t, core) ==
    {r \in Compiled(t, core) :
        IF core = "xray"
        THEN r.client # 0 => t.clients[r.client].enabled
        ELSE t.outbounds[r.outbound].kind # "dns"}

\* The clients whose traffic fits a written rule.  Xray's rule of a client names
\* the user, whom a Shadowsocks inbound does not know; sing-box's has no field
\* for it, so it fits all of the inbound.
Takes(t, r, core) ==
    {c \in DOMAIN t.clients :
        /\ t.clients[c].enabled /\ Runs(t, Home[c], core)
        /\ r.inbound \in {0, Home[c]}
        /\ core = "xray" /\ r.client # 0 => r.client = c /\ t.inbounds[Home[c]].users}

\* A rule to an outbound that is disabled leads nowhere: the outbound is not written.
Leads(t, r) == t.outbounds[r.outbound].enabled

\* The rules are written by their place, then by their id, and the core follows
\* the first that fits.
Before(r, s) == r.sort < s.sort \/ (r.sort = s.sort /\ r.id < s.id)
Overtaken(t, r, c, core) == \E s \in Emitted(t, core) : Before(s, r) /\ c \in Takes(t, s, core)

\* <<rule, client, outbound>>: who goes where by the configuration of the core.
Routed(t, core) ==
    UNION {{<<r.id, c, r.outbound>> : c \in {d \in Takes(t, r, core) : ~Overtaken(t, r, d, core)}} :
               r \in {s \in Emitted(t, core) : Leads(t, s)}}

=============================================================================
