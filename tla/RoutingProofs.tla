---------------------------- MODULE RoutingProofs ----------------------------
(***************************************************************************)
(* The routing rules stay whole: whatever the page sends and others change *)
(* meanwhile, no stored rule comes to refer to a row that is gone.  What   *)
(* the form says of a rule is what the server will do with it, and what    *)
(* the topology page draws of Xray is what its configuration does.         *)
(***************************************************************************)
EXTENDS RoutingPage, FiniteSetTheorems, TLAPS

\* Every id given so far is at most n.
IdsUpTo(t, n) == \A r \in t.rules : r.id \in 1..n

\* The inductive invariant: the next id is new, or a created rule would share
\* the id of one that exists; and requests are of the four kinds that the
\* handlers know.
RulesInv ==
    /\ ruleIds \in Nat /\ Whole(tables) /\ IdsUpTo(tables, ruleIds)
    /\ \A a \in inFlight : a.kind \in {"save", "toggle", "remove", "reorder"}

-----------------------------------------------------------------------------
(* What the store does keeps the tables whole *)

\* CreateRoutingRule: the source is resolved to the inbound of the client.
LEMMA CreateKeeps ==
    ASSUME NEW t, NEW n \in Nat, NEW p, Whole(t), IdsUpTo(t, n), Accepts(t, p)
    PROVE  Whole(CreateRoutingRule(t, n + 1, p)) /\ IdsUpTo(CreateRoutingRule(t, n + 1, p), n + 1)
<1> DEFINE i == resolveRoutingRuleSource(t, p)
           new == RuleOf(n + 1, i, p.client, p.outbound, p.enabled, NextSort(t))
           u == CreateRoutingRule(t, n + 1, p)
<1>1. /\ DOMAIN u = DOMAIN t /\ u.rules = t.rules \cup {new}
      /\ u.inbounds = t.inbounds /\ u.clients = t.clients /\ u.outbounds = t.outbounds
  BY DEF CreateRoutingRule, Whole
<1>2. /\ i \in {0} \cup DOMAIN t.inbounds
      /\ p.outbound \in DOMAIN t.outbounds
      /\ p.client # 0 => p.client \in DOMAIN t.clients /\ i = Home[p.client]
  BY DEF Accepts, Whole, resolveRoutingRuleSource
<1>3. /\ new.id = n + 1 /\ new.inbound = i /\ new.client = p.client /\ new.outbound = p.outbound
      /\ new = RuleOf(new.id, new.inbound, new.client, new.outbound, new.enabled, new.sort)
  BY DEF RuleOf
<1>4. \A r \in t.rules : r.id # n + 1
  BY DEF IdsUpTo
<1>5. IdsUpTo(u, n + 1)
  BY <1>1, <1>3 DEF IdsUpTo
<1> HIDE DEF i, new, u
<1>6. Whole(u)
  BY <1>1, <1>2, <1>3, <1>4 DEF Whole
<1> QED
  BY <1>5, <1>6 DEF u

\* UpdateRoutingRule puts a rule with the same id in the place of the old one.
LEMMA UpdateKeeps ==
    ASSUME NEW t, NEW n \in Nat, NEW id, NEW p, Whole(t), IdsUpTo(t, n), Accepts(t, p)
    PROVE  Whole(UpdateRoutingRule(t, id, p)) /\ IdsUpTo(UpdateRoutingRule(t, id, p), n)
<1> DEFINE i == resolveRoutingRuleSource(t, p)
           New(r) == RuleOf(id, i, p.client, p.outbound, p.enabled, r.sort)
           u == UpdateRoutingRule(t, id, p)
<1>1. /\ DOMAIN u = DOMAIN t
      /\ u.rules = {IF r.id = id THEN New(r) ELSE r : r \in t.rules}
      /\ u.inbounds = t.inbounds /\ u.clients = t.clients /\ u.outbounds = t.outbounds
  BY DEF UpdateRoutingRule, Whole
<1>2. /\ i \in {0} \cup DOMAIN t.inbounds
      /\ p.outbound \in DOMAIN t.outbounds
      /\ p.client # 0 => p.client \in DOMAIN t.clients /\ i = Home[p.client]
  BY DEF Accepts, Whole, resolveRoutingRuleSource
<1>3. \A r : /\ New(r).id = id /\ New(r).inbound = i /\ New(r).client = p.client
             /\ New(r).outbound = p.outbound
             /\ New(r) = RuleOf(New(r).id, New(r).inbound, New(r).client, New(r).outbound,
                                New(r).enabled, New(r).sort)
  BY DEF RuleOf
<1> HIDE DEF i, New, u
<1>4. \A s \in u.rules : \E r \in t.rules : s.id = r.id /\ s = IF r.id = id THEN New(r) ELSE r
  BY <1>1, <1>3
<1>5. IdsUpTo(u, n)
  BY <1>4 DEF IdsUpTo
<1>6. Whole(u)
  <2> SUFFICES ASSUME NEW s \in u.rules
               PROVE  /\ s = RuleOf(s.id, s.inbound, s.client, s.outbound, s.enabled, s.sort)
                      /\ s.inbound \in {0} \cup DOMAIN t.inbounds
                      /\ s.outbound \in DOMAIN t.outbounds
                      /\ s.client # 0 => s.client \in DOMAIN t.clients /\ s.inbound = Home[s.client]
                      /\ \A v \in u.rules : v.id = s.id => v = s
    BY <1>1 DEF Whole
  <2>1. PICK r \in t.rules : s.id = r.id /\ s = IF r.id = id THEN New(r) ELSE r
    BY <1>4
  <2>2. \A v \in u.rules : v.id = s.id => v = s
    BY <1>4, <2>1 DEF Whole
  <2> QED
    BY <1>2, <1>3, <2>1, <2>2 DEF Whole
<1> QED
  BY <1>5, <1>6 DEF u

\* ReorderRoutingRules changes nothing but places.
LEMMA ReorderKeeps ==
    ASSUME NEW t, NEW n \in Nat, NEW ids, Whole(t), IdsUpTo(t, n)
    PROVE  Whole(ReorderRoutingRules(t, ids)) /\ IdsUpTo(ReorderRoutingRules(t, ids), n)
<1> DEFINE Place(r) == (CHOOSE k \in DOMAIN ids : ids[k] = r.id) - 1
           Named(r) == \E k \in DOMAIN ids : ids[k] = r.id
           New(r) == IF Named(r) THEN [r EXCEPT !.sort = Place(r)] ELSE r
           u == ReorderRoutingRules(t, ids)
<1>1. /\ DOMAIN u = DOMAIN t
      /\ u.rules = {New(r) : r \in t.rules}
      /\ u.inbounds = t.inbounds /\ u.clients = t.clients /\ u.outbounds = t.outbounds
  BY DEF ReorderRoutingRules, Whole
<1>2. ASSUME NEW r \in t.rules
      PROVE  /\ New(r).id = r.id /\ New(r).inbound = r.inbound /\ New(r).client = r.client
             /\ New(r).outbound = r.outbound
             /\ New(r) = RuleOf(New(r).id, New(r).inbound, New(r).client, New(r).outbound,
                                New(r).enabled, New(r).sort)
  <2> HIDE DEF Place, Named
  <2>1. r = RuleOf(r.id, r.inbound, r.client, r.outbound, r.enabled, r.sort)
    BY DEF Whole
  <2> QED
    BY <2>1 DEF RuleOf
<1> HIDE DEF New, u
<1>3. IdsUpTo(u, n)
  BY <1>1, <1>2 DEF IdsUpTo
<1>4. Whole(u)
  BY <1>1, <1>2 DEF Whole
<1> QED
  BY <1>3, <1>4 DEF u

\* Rules may go, and rows that no remaining row refers to.
LEMMA FewerKeeps ==
    ASSUME NEW t, NEW n \in Nat, NEW u, Whole(t), IdsUpTo(t, n),
           DOMAIN u = DOMAIN t, u.rules \subseteq t.rules,
           DOMAIN u.clients \subseteq DOMAIN t.clients,
           \A c \in DOMAIN u.clients : Home[c] \in DOMAIN u.inbounds,
           \A r \in u.rules : /\ r.inbound \in {0} \cup DOMAIN u.inbounds
                              /\ r.outbound \in DOMAIN u.outbounds
                              /\ r.client # 0 => r.client \in DOMAIN u.clients
    PROVE  Whole(u) /\ IdsUpTo(u, n)
BY DEF Whole, IdsUpTo

\* DeleteInbound: the clients go with their inbound, the rules with either.
LEMMA DeleteInboundKeeps ==
    ASSUME NEW t, NEW n \in Nat, NEW i \in DOMAIN t.inbounds, Whole(t), IdsUpTo(t, n)
    PROVE  Whole(DeleteInbound(t, i)) /\ IdsUpTo(DeleteInbound(t, i), n)
<1> DEFINE u == DeleteInbound(t, i)
<1>1. DOMAIN u = DOMAIN t
  BY DEF DeleteInbound, DeleteRules
<1>2. /\ u.rules = {r \in t.rules : r.inbound # i} /\ u.outbounds = t.outbounds
      /\ DOMAIN u.inbounds = DOMAIN t.inbounds \ {i}
      /\ DOMAIN u.clients = DOMAIN t.clients \ {c \in DOMAIN t.clients : Home[c] = i}
  BY DEF DeleteInbound, DeleteRules, Without, Whole
<1> HIDE DEF u
<1>3. \A r \in u.rules : r.client # 0 => r.client \in DOMAIN u.clients
  BY <1>2 DEF Whole
<1>4. \A r \in u.rules : r.inbound \in {0} \cup DOMAIN u.inbounds /\ r.outbound \in DOMAIN u.outbounds
  BY <1>2 DEF Whole
<1>5. \A c \in DOMAIN u.clients : Home[c] \in DOMAIN u.inbounds
  BY <1>2 DEF Whole
<1>6. Whole(u) /\ IdsUpTo(u, n)
  BY <1>1, <1>2, <1>3, <1>4, <1>5, FewerKeeps
<1> QED
  BY <1>6 DEF u

\* DeleteClient takes the rules of the client along.
LEMMA DeleteClientKeeps ==
    ASSUME NEW t, NEW n \in Nat, NEW c \in DOMAIN t.clients, Whole(t), IdsUpTo(t, n)
    PROVE  Whole(DeleteClient(t, c)) /\ IdsUpTo(DeleteClient(t, c), n)
<1> DEFINE u == DeleteClient(t, c)
<1>1. DOMAIN u = DOMAIN t
  BY DEF DeleteClient, DeleteRules
<1>2. /\ u.rules = {r \in t.rules : r.client # c}
      /\ u.outbounds = t.outbounds /\ u.inbounds = t.inbounds
      /\ DOMAIN u.clients = DOMAIN t.clients \ {c}
  BY DEF DeleteClient, DeleteRules, Without, Whole
<1> HIDE DEF u
<1>3. \A r \in u.rules : /\ r.inbound \in {0} \cup DOMAIN u.inbounds
                         /\ r.outbound \in DOMAIN u.outbounds
                         /\ r.client # 0 => r.client \in DOMAIN u.clients
  BY <1>2 DEF Whole
<1>4. \A d \in DOMAIN u.clients : Home[d] \in DOMAIN u.inbounds
  BY <1>2 DEF Whole
<1>5. Whole(u) /\ IdsUpTo(u, n)
  BY <1>1, <1>2, <1>3, <1>4, FewerKeeps
<1> QED
  BY <1>5 DEF u

\* DeleteOutbound is refused while a rule refers to the outbound.
LEMMA DeleteOutboundKeeps ==
    ASSUME NEW t, NEW n \in Nat, NEW o, Whole(t), IdsUpTo(t, n), MayDeleteOutbound(t, o)
    PROVE  Whole(DeleteOutbound(t, o)) /\ IdsUpTo(DeleteOutbound(t, o), n)
<1> DEFINE u == DeleteOutbound(t, o)
<1>1. /\ DOMAIN u = DOMAIN t
      /\ u.rules = t.rules /\ u.inbounds = t.inbounds /\ u.clients = t.clients
      /\ DOMAIN u.outbounds = DOMAIN t.outbounds \ {o}
  BY DEF DeleteOutbound, Without, Whole
<1> HIDE DEF u
<1>2. \A r \in u.rules : r.outbound \in DOMAIN u.outbounds
  BY <1>1 DEF Whole, MayDeleteOutbound
<1>3. Whole(u) /\ IdsUpTo(u, n)
  BY <1>1, <1>2 DEF Whole, IdsUpTo
<1> QED
  BY <1>3 DEF u

\* A column of a row is set: the rows remain, and so do the references.
LEMMA ColumnKeeps ==
    ASSUME NEW t, NEW n \in Nat, NEW u, Whole(t), IdsUpTo(t, n),
           DOMAIN u = DOMAIN t, u.rules = t.rules,
           DOMAIN u.inbounds = DOMAIN t.inbounds, DOMAIN u.clients = DOMAIN t.clients,
           DOMAIN u.outbounds = DOMAIN t.outbounds
    PROVE  Whole(u) /\ IdsUpTo(u, n)
BY DEF Whole, IdsUpTo

\* The updates and deletions of others.
LEMMA ElsewhereKeeps ==
    ASSUME NEW t, NEW n \in Nat, NEW u \in Elsewhere(t), Whole(t), IdsUpTo(t, n)
    PROVE  Whole(u) /\ IdsUpTo(u, n)
<1>1. CASE \E i \in DOMAIN t.inbounds : u = [t EXCEPT !.inbounds[i].enabled = ~@]
  BY <1>1, ColumnKeeps DEF Whole
<1>2. CASE \E i \in DOMAIN t.inbounds, k \in InboundKinds : u = UpdateProtocol(t, i, k)
  BY <1>2, ColumnKeeps DEF Whole, UpdateProtocol
<1>3. CASE \E c \in DOMAIN t.clients : u = [t EXCEPT !.clients[c].enabled = ~@]
  BY <1>3, ColumnKeeps DEF Whole
<1>4. CASE \E o \in DOMAIN t.outbounds : u = [t EXCEPT !.outbounds[o].enabled = ~@]
  BY <1>4, ColumnKeeps DEF Whole
<1>5. CASE \E o \in DOMAIN t.outbounds, k \in Kinds : u = [t EXCEPT !.outbounds[o].kind = k]
  BY <1>5, ColumnKeeps DEF Whole
<1>6. CASE \E i \in DOMAIN t.inbounds : u = DeleteInbound(t, i)
  BY <1>6, DeleteInboundKeeps
<1>7. CASE \E c \in DOMAIN t.clients : u = DeleteClient(t, c)
  BY <1>7, DeleteClientKeeps
<1>8. CASE \E o \in {p \in DOMAIN t.outbounds : MayDeleteOutbound(t, p)} : u = DeleteOutbound(t, o)
  BY <1>8, DeleteOutboundKeeps
<1> QED
  BY <1>1, <1>2, <1>3, <1>4, <1>5, <1>6, <1>7, <1>8 DEF Elsewhere

-----------------------------------------------------------------------------
(* The invariant *)

\* The first tables are whole, and their ids are those given so far.
LEMMA RulesInit == RoutingInit => RulesInv
<1> SUFFICES ASSUME RoutingInit PROVE RulesInv
  OBVIOUS
<1>1. /\ Whole(tables) /\ IsFiniteSet(tables.rules)
      /\ \A r \in tables.rules : r.id \in 1..Cardinality(tables.rules)
  BY FirstTablesAssumption DEF RoutingInit
<1>2. Cardinality(tables.rules) \in Nat
  BY <1>1, FS_CardinalityType
<1> QED
  BY <1>1, <1>2 DEF RoutingInit, RulesInv, IdsUpTo

\* OthersChange: an update, a deletion, or a rule made elsewhere.
LEMMA OthersKeep ==
    ASSUME RulesInv, OthersChange
    PROVE  RulesInv'
<1>0. UNCHANGED inFlight
  BY DEF OthersChange
<1>1. CASE tables' \in Elsewhere(tables) /\ UNCHANGED ruleIds
  BY <1>0, <1>1, ElsewhereKeeps DEF RulesInv, IdsUpTo, Whole
<1>2. ASSUME NEW o \in OutboundIds, ruleIds' = ruleIds + 1,
             Accepts(tables, RuleOf(0, 0, 0, o, TRUE, 0)),
             tables' = CreateRoutingRule(tables, ruleIds', RuleOf(0, 0, 0, o, TRUE, 0))
      PROVE  RulesInv'
  <2> DEFINE p == RuleOf(0, 0, 0, o, TRUE, 0)
  <2>1. Accepts(tables, p) /\ tables' = CreateRoutingRule(tables, ruleIds + 1, p)
    BY <1>2
  <2> HIDE DEF p
  <2>2. ruleIds \in Nat /\ Whole(tables) /\ IdsUpTo(tables, ruleIds)
    BY DEF RulesInv
  <2> DEFINE u == CreateRoutingRule(tables, ruleIds + 1, p)
  <2>3. Whole(u) /\ IdsUpTo(u, ruleIds + 1)
    BY <2>1, <2>2, CreateKeeps
  <2>4. tables' = u
    BY <2>1
  <2> HIDE DEF u
  <2>5. ruleIds' = ruleIds + 1
    BY <1>2
  <2>6. ruleIds' \in Nat
    BY <2>2, <2>5
  <2>7. IdsUpTo(tables', ruleIds')
    BY <2>3, <2>4, <2>5
  <2>8. Whole(tables')
    BY <2>3, <2>4
  <2> QED
    BY <1>0, <2>6, <2>7, <2>8 DEF RulesInv, IdsUpTo, Whole
<1> QED
  BY <1>1, <1>2 DEF OthersChange

\* RequestIsServed: a request of the page, whatever it was made of.
LEMMA RequestsKeep ==
    ASSUME RulesInv, NEW a \in inFlight, RequestIsServed(a)
    PROVE  RulesInv'
<1> DEFINE p == a.rule
           created == a.kind = "save" /\ p.id = 0
           changed == a.kind = "toggle" \/ (a.kind = "save" /\ p.id # 0)
<1>0. \A b \in inFlight' : b.kind \in {"save", "toggle", "remove", "reorder"}
  BY DEF RequestIsServed, RulesInv
<1>1. CASE tables' = tables /\ ruleIds' = ruleIds
  BY <1>0, <1>1 DEF RulesInv
<1>2. CASE created /\ Accepts(tables, p)
  <2>1. tables' = CreateRoutingRule(tables, ruleIds + 1, p) /\ ruleIds' = ruleIds + 1
    BY <1>2 DEF RequestIsServed, ServedTables, Done
  <2> QED
    BY <1>0, <1>2, <2>1, CreateKeeps DEF RulesInv
<1>3. CASE changed /\ Accepts(tables, p) /\ Exists(p.id)
  <2>1. tables' = UpdateRoutingRule(tables, p.id, p) /\ ruleIds' = ruleIds
    BY <1>3 DEF RequestIsServed, ServedTables, Done
  <2> QED
    BY <1>0, <1>3, <2>1, UpdateKeeps DEF RulesInv
<1>4. CASE a.kind = "remove"
  <2>1. tables' = DeleteRules(tables, {r \in tables.rules : r.id = p.id}) /\ ruleIds' = ruleIds
    BY <1>4 DEF RequestIsServed, ServedTables, Done
  <2>2. /\ DOMAIN tables' = DOMAIN tables
        /\ tables'.rules = {r \in tables.rules : r.id # p.id}
        /\ tables'.inbounds = tables.inbounds /\ tables'.clients = tables.clients
        /\ tables'.outbounds = tables.outbounds
    BY <2>1 DEF DeleteRules, RulesInv, Whole
  <2> QED
    BY <1>0, <2>1, <2>2 DEF RulesInv, Whole, IdsUpTo
<1>5. CASE a.kind = "reorder"
  <2>1. tables' = ReorderRoutingRules(tables, a.ids) /\ ruleIds' = ruleIds
    BY <1>5 DEF RequestIsServed, ServedTables, Done
  <2> QED
    BY <1>0, <1>5, <2>1, ReorderKeeps DEF RulesInv
<1>6. a.kind \in {"save", "toggle", "remove", "reorder"}
  BY DEF RulesInv
<1>7. CASE created /\ ~Accepts(tables, p)
  BY <1>1, <1>7 DEF RequestIsServed, ServedTables, Done
<1>8. CASE changed /\ ~(Accepts(tables, p) /\ Exists(p.id))
  BY <1>1, <1>8 DEF RequestIsServed, ServedTables, Done
<1> QED
  BY <1>2, <1>3, <1>4, <1>5, <1>6, <1>7, <1>8

\* What only asks, shows or edits leaves the tables and adds requests of the
\* known kinds.
LEMMA AsksKeep ==
    ASSUME RulesInv, NEW request, Ask(request),
           request.kind \in {"save", "toggle", "remove", "reorder"}
    PROVE  RulesInv'
BY DEF Ask, RulesInv

\* The other actions of the page.
LEMMA PageKeeps ==
    ASSUME RulesInv,
           \/ \E q \in Lists : ListLands(q)
           \/ refetchTopologyDependencies
           \/ OpenDraft \/ CloseDraft
           \/ \E i \in {0} \cup InboundIds : PickInbound(i)
           \/ \E c \in {0} \cup ClientIds, i \in {0} \cup InboundIds : PickClient(<<c, i>>)
           \/ \E o \in OutboundIds : PickOutbound(o)
           \/ UNCHANGED routingVars
    PROVE  RulesInv'
<1>1. UNCHANGED <<tables, ruleIds, inFlight>>
  BY DEF ListLands, refetchTopologyDependencies, OpenDraft, CloseDraft, PickInbound, PickClient,
         PickOutbound, routingVars
<1> QED
  BY <1>1 DEF RulesInv

\* Every step keeps the invariant.
LEMMA RulesNext == RulesInv /\ [RoutingNext]_routingVars => RulesInv'
<1> SUFFICES ASSUME RulesInv, [RoutingNext]_routingVars
             PROVE  RulesInv'
  OBVIOUS
<1>1. CASE OthersChange
  BY <1>1, OthersKeep
<1>2. CASE SaveRule
  BY <1>2, AsksKeep DEF SaveRule, Request
<1>3. CASE \E r \in lists.rules : ToggleRule(r)
  BY <1>3, AsksKeep DEF ToggleRule, Request
<1>4. CASE \E r \in lists.rules : RemoveRule(r)
  BY <1>4, AsksKeep DEF RemoveRule, Request
<1>5. CASE \E k \in 1..Cardinality(lists.rules) : MoveRule(k)
  BY <1>5, AsksKeep DEF MoveRule, Request
<1>6. CASE \E a \in inFlight : RequestIsServed(a)
  BY <1>6, RequestsKeep
<1> QED
  BY <1>1, <1>2, <1>3, <1>4, <1>5, <1>6, PageKeeps DEF RoutingNext

\* The invariant gives the property.
LEMMA RulesInvWhole == RulesInv => RulesAreWhole
BY DEF RulesInv, RulesAreWhole, Whole

\* RulesAreWhole: however requests, cascades and the changes of others
\* interleave, a stored rule refers to what exists.
THEOREM RulesStayWhole == RoutingSpec => []RulesAreWhole
<1>1. RoutingSpec => []RulesInv
  BY RulesInit, RulesNext, PTL DEF RoutingSpec
<1> QED
  BY <1>1, RulesInvWhole, PTL

-----------------------------------------------------------------------------
(* The page: what it has and what the form holds *)

\* A row of the routing table, or the form's rule: its inbound is its client's.
IsRule(r) ==
    /\ r = RuleOf(r.id, r.inbound, r.client, r.outbound, r.enabled, r.sort)
    /\ r.client # 0 => r.inbound = Home[r.client]

IdsOf(t) == DOMAIN t.inbounds \subseteq InboundIds /\ DOMAIN t.outbounds \subseteq OutboundIds

\* What the lists have, although of different moments: inbounds and clients
\* come in one answer, so the clients have their inbounds.
ListsHold ==
    /\ DOMAIN lists = {"inbounds", "clients", "outbounds", "rules"}
    /\ IdsOf(lists)
    /\ \A c \in DOMAIN lists.clients : c \in ClientIds /\ Home[c] \in DOMAIN lists.inbounds
    /\ \A r \in lists.rules : IsRule(r) /\ r.id \in 1..ruleIds

\* The inductive invariant of the page.
RoutingPageInv ==
    /\ RulesInv /\ ruleIds <= MaxRules
    /\ IdsOf(tables)
    /\ ListsHold
    /\ IsRule(draft) /\ draft.id \in -1..ruleIds
    /\ awaited \subseteq Lists

\* No row comes to be but rules, whatever a step does to the tables.
IdsStay(t, u) ==
    DOMAIN u.inbounds \subseteq DOMAIN t.inbounds /\ DOMAIN u.outbounds \subseteq DOMAIN t.outbounds

\* The updates and deletions of others make no row.
LEMMA ElsewhereIdsStay ==
    ASSUME NEW t, NEW u \in Elsewhere(t), Whole(t)
    PROVE  IdsStay(t, u)
<1>1. CASE \E i \in DOMAIN t.inbounds : u = [t EXCEPT !.inbounds[i].enabled = ~@]
  BY <1>1 DEF Whole, IdsStay
<1>2. CASE \E i \in DOMAIN t.inbounds, k \in InboundKinds : u = UpdateProtocol(t, i, k)
  BY <1>2 DEF Whole, IdsStay, UpdateProtocol
<1>3. CASE \E c \in DOMAIN t.clients : u = [t EXCEPT !.clients[c].enabled = ~@]
  BY <1>3 DEF Whole, IdsStay
<1>4. CASE \E o \in DOMAIN t.outbounds : u = [t EXCEPT !.outbounds[o].enabled = ~@]
  BY <1>4 DEF Whole, IdsStay
<1>5. CASE \E o \in DOMAIN t.outbounds, k \in Kinds : u = [t EXCEPT !.outbounds[o].kind = k]
  BY <1>5 DEF Whole, IdsStay
<1>6. CASE \E i \in DOMAIN t.inbounds : u = DeleteInbound(t, i)
  BY <1>6 DEF Whole, IdsStay, DeleteInbound, DeleteRules, Without
<1>7. CASE \E c \in DOMAIN t.clients : u = DeleteClient(t, c)
  BY <1>7 DEF Whole, IdsStay, DeleteClient, DeleteRules, Without
<1>8. CASE \E o \in {p \in DOMAIN t.outbounds : MayDeleteOutbound(t, p)} : u = DeleteOutbound(t, o)
  BY <1>8 DEF Whole, IdsStay, DeleteOutbound, Without
<1> QED
  BY <1>1, <1>2, <1>3, <1>4, <1>5, <1>6, <1>7, <1>8 DEF Elsewhere

\* Nor do the requests of the page.
LEMMA ServedIdsStay ==
    ASSUME Whole(tables), NEW a,
           a.kind \in {"save", "toggle", "remove", "reorder"}
    PROVE  IdsStay(tables, ServedTables(a))
<1>1. \A n, p : IdsStay(tables, CreateRoutingRule(tables, n, p))
  BY DEF Whole, IdsStay, CreateRoutingRule
<1>2. \A n, p : IdsStay(tables, UpdateRoutingRule(tables, n, p))
  BY DEF Whole, IdsStay, UpdateRoutingRule
<1>3. \A gone : IdsStay(tables, DeleteRules(tables, gone))
  BY DEF Whole, IdsStay, DeleteRules
<1>4. \A ids : IdsStay(tables, ReorderRoutingRules(tables, ids))
  BY DEF Whole, IdsStay, ReorderRoutingRules
<1>5. IdsStay(tables, tables)
  BY DEF IdsStay
<1> QED
  BY <1>1, <1>2, <1>3, <1>4, <1>5 DEF ServedTables

\* What a step may do to the tables and to the count of rules.
LEMMA TablesSteps ==
    ASSUME RulesInv, IdsOf(tables), ruleIds <= MaxRules, [RoutingNext]_routingVars
    PROVE  IdsOf(tables') /\ ruleIds' \in {ruleIds, ruleIds + 1} /\ ruleIds' <= MaxRules
<1>1. ruleIds \in Nat /\ Whole(tables) /\ MaxRules \in Nat
  BY RoutingBounds DEF RulesInv
<1>2. ASSUME IdsStay(tables, tables') PROVE IdsOf(tables')
  BY <1>2 DEF IdsStay, IdsOf
<1>3. CASE OthersChange
  <2>1. CASE tables' \in Elsewhere(tables) /\ ruleIds' = ruleIds
    BY <1>1, <1>2, <2>1, ElsewhereIdsStay
  <2>2. CASE /\ ruleIds < MaxRules /\ ruleIds' = ruleIds + 1
             /\ \E o \in OutboundIds :
                    tables' = CreateRoutingRule(tables, ruleIds', RuleOf(0, 0, 0, o, TRUE, 0))
    <3>1. IdsStay(tables, tables')
      BY <1>1, <2>2 DEF Whole, IdsStay, CreateRoutingRule
    <3>2. IdsOf(tables')
      BY <1>2, <3>1
    <3>3. ruleIds < MaxRules /\ ruleIds' = ruleIds + 1
      BY <2>2
    <3>4. ruleIds' <= MaxRules
      BY <1>1, <3>3
    <3> QED
      BY <3>2, <3>3, <3>4
  <2> QED
    BY <1>3, <2>1, <2>2 DEF OthersChange
<1>4. CASE \E a \in inFlight : RequestIsServed(a)
  <2>1. PICK a \in inFlight : RequestIsServed(a)
    BY <1>4
  <2>2. IdsStay(tables, tables')
    BY <1>1, <2>1, ServedIdsStay DEF RequestIsServed, RulesInv
  <2>3. ruleIds' = ruleIds \/ (ruleIds < MaxRules /\ ruleIds' = ruleIds + 1)
    BY <2>1 DEF RequestIsServed
  <2> QED
    BY <1>1, <1>2, <2>2, <2>3
<1>5. CASE UNCHANGED <<tables, ruleIds>>
  BY <1>5 DEF IdsOf
<1> QED
  BY <1>3, <1>4, <1>5 DEF RoutingNext, ListLands, refetchTopologyDependencies, OpenDraft,
     CloseDraft, PickInbound, PickClient, PickOutbound, SaveRule, ToggleRule, RemoveRule,
     MoveRule, Ask, routingVars

\* The rules of whole tables have the inbounds of their clients.
LEMMA WholeRules ==
    ASSUME NEW t, Whole(t), NEW r \in t.rules
    PROVE  IsRule(r)
BY DEF Whole, IsRule

\* An answer lands: inbounds and clients together.
LEMMA ListsKeep ==
    ASSUME RoutingPageInv, NEW q \in Lists, ListLands(q)
    PROVE  ListsHold'
<1>1. /\ RulesInv /\ IdsOf(tables) /\ ListsHold
      /\ DOMAIN lists = {"inbounds", "clients", "outbounds", "rules"}
      /\ ruleIds' = ruleIds
  BY DEF RoutingPageInv, ListsHold, ListLands
<1>2. \A c \in DOMAIN tables.clients : c \in ClientIds /\ Home[c] \in DOMAIN tables.inbounds
  BY <1>1 DEF RulesInv, Whole
<1>3. \A r \in tables.rules : IsRule(r) /\ r.id \in 1..ruleIds
  BY <1>1, WholeRules DEF RulesInv, IdsUpTo
<1>4. CASE q = "inbounds"
  <2>1. lists' = [lists EXCEPT !.inbounds = tables.inbounds, !.clients = tables.clients]
    BY <1>4 DEF ListLands
  <2>2. /\ DOMAIN lists' = DOMAIN lists /\ lists'.inbounds = tables.inbounds
        /\ lists'.clients = tables.clients
        /\ lists'.outbounds = lists.outbounds /\ lists'.rules = lists.rules
    BY <1>1, <2>1
  <2> QED
    BY <1>1, <1>2, <2>2 DEF ListsHold, IdsOf
<1>5. CASE q = "outbounds"
  <2>1. lists' = [lists EXCEPT !.outbounds = tables.outbounds]
    BY <1>5 DEF ListLands
  <2>2. /\ DOMAIN lists' = DOMAIN lists /\ lists'.outbounds = tables.outbounds
        /\ lists'.inbounds = lists.inbounds /\ lists'.clients = lists.clients
        /\ lists'.rules = lists.rules
    BY <1>1, <2>1
  <2> QED
    BY <1>1, <2>2 DEF ListsHold, IdsOf
<1>6. CASE q = "routing-rules"
  <2>1. lists' = [lists EXCEPT !.rules = tables.rules]
    BY <1>6 DEF ListLands
  <2>2. /\ DOMAIN lists' = DOMAIN lists /\ lists'.rules = tables.rules
        /\ lists'.inbounds = lists.inbounds /\ lists'.clients = lists.clients
        /\ lists'.outbounds = lists.outbounds
    BY <1>1, <2>1
  <2> QED
    BY <1>1, <1>3, <2>2 DEF ListsHold, IdsOf
<1> QED
  BY <1>4, <1>5, <1>6 DEF Lists

\* What the form starts from, or is set back to.
LEMMA NewRules ==
    /\ IsRule(NoRule) /\ NoRule.id = -1
    /\ \A o : IsRule(RuleOf(0, 0, 0, o, TRUE, 0)) /\ RuleOf(0, 0, 0, o, TRUE, 0).id = 0
BY DEF NoRule, IsRule, RuleOf

\* A field of the form's rule is set.
LEMMA EditedRule ==
    ASSUME NEW r, IsRule(r), NEW i, NEW c, NEW o
    PROVE  /\ IsRule([r EXCEPT !.inbound = i, !.client = 0])
           /\ [r EXCEPT !.inbound = i, !.client = 0].id = r.id
           /\ IsRule([r EXCEPT !.outbound = o]) /\ [r EXCEPT !.outbound = o].id = r.id
           /\ [r EXCEPT !.client = c, !.inbound = i].id = r.id
           /\ (c # 0 => i = Home[c]) => IsRule([r EXCEPT !.client = c, !.inbound = i])
<1>1. r = RuleOf(r.id, r.inbound, r.client, r.outbound, r.enabled, r.sort)
  BY DEF IsRule
<1>2. /\ [r EXCEPT !.inbound = i, !.client = 0] = RuleOf(r.id, i, 0, r.outbound, r.enabled, r.sort)
      /\ [r EXCEPT !.outbound = o] = RuleOf(r.id, r.inbound, r.client, o, r.enabled, r.sort)
      /\ [r EXCEPT !.client = c, !.inbound = i] = RuleOf(r.id, i, c, r.outbound, r.enabled, r.sort)
  <2>1. PICK n, j, d, p, e, k : r = RuleOf(n, j, d, p, e, k)
    BY <1>1
  <2>2. r.id = n /\ r.inbound = j /\ r.client = d /\ r.outbound = p /\ r.enabled = e /\ r.sort = k
    BY <2>1 DEF RuleOf
  <2>3. ASSUME NEW x PROVE [r EXCEPT !.inbound = x] = RuleOf(n, x, d, p, e, k)
    BY <2>1 DEF RuleOf
  <2>4. [r EXCEPT !.outbound = o] = RuleOf(n, j, d, o, e, k)
    BY <2>1 DEF RuleOf
  <2>5. ASSUME NEW x, NEW y PROVE [RuleOf(n, x, d, p, e, k) EXCEPT !.client = y] = RuleOf(n, x, y, p, e, k)
    BY DEF RuleOf
  <2>6. [r EXCEPT !.inbound = i, !.client = 0] = [[r EXCEPT !.inbound = i] EXCEPT !.client = 0]
    OBVIOUS
  <2>7. [r EXCEPT !.client = c, !.inbound = i] = [[r EXCEPT !.client = c] EXCEPT !.inbound = i]
    OBVIOUS
  <2>8. ASSUME NEW y PROVE [r EXCEPT !.client = y] = RuleOf(n, j, y, p, e, k)
    BY <2>1 DEF RuleOf
  <2>9. ASSUME NEW x, NEW y PROVE [RuleOf(n, j, y, p, e, k) EXCEPT !.inbound = x] = RuleOf(n, x, y, p, e, k)
    BY DEF RuleOf
  <2>10. [r EXCEPT !.inbound = i, !.client = 0] = RuleOf(n, i, 0, p, e, k)
    BY <2>3, <2>5, <2>6
  <2>11. [r EXCEPT !.client = c, !.inbound = i] = RuleOf(n, i, c, p, e, k)
    BY <2>7, <2>8, <2>9
  <2> QED
    BY <2>2, <2>4, <2>10, <2>11
<1>3. ASSUME NEW x, NEW y, NEW z, y # 0 => x = Home[y]
      PROVE  /\ IsRule(RuleOf(r.id, x, y, z, r.enabled, r.sort))
             /\ RuleOf(r.id, x, y, z, r.enabled, r.sort).id = r.id
  <2> DEFINE s == RuleOf(r.id, x, y, z, r.enabled, r.sort)
  <2>1. /\ s.id = r.id /\ s.inbound = x /\ s.client = y /\ s.outbound = z
        /\ s.enabled = r.enabled /\ s.sort = r.sort
    BY DEF RuleOf
  <2>2. s = RuleOf(r.id, x, y, z, r.enabled, r.sort)
    OBVIOUS
  <2> HIDE DEF s
  <2>3. s = RuleOf(s.id, s.inbound, s.client, s.outbound, s.enabled, s.sort)
    BY <2>1, <2>2
  <2>4. IsRule(s)
    BY <1>3, <2>1, <2>3 DEF IsRule
  <2> QED
    BY <2>1, <2>4 DEF s
<1>4. RuleOf(r.id, i, c, r.outbound, r.enabled, r.sort).id = r.id
  BY DEF RuleOf
<1>5. /\ IsRule(RuleOf(r.id, i, 0, r.outbound, r.enabled, r.sort))
      /\ RuleOf(r.id, i, 0, r.outbound, r.enabled, r.sort).id = r.id
  BY <1>3
<1>6. /\ IsRule(RuleOf(r.id, r.inbound, r.client, o, r.enabled, r.sort))
      /\ RuleOf(r.id, r.inbound, r.client, o, r.enabled, r.sort).id = r.id
  <2>1. r.client # 0 => r.inbound = Home[r.client]
    BY DEF IsRule
  <2> QED
    BY <1>3, <2>1
<1>7. (c # 0 => i = Home[c]) => IsRule(RuleOf(r.id, i, c, r.outbound, r.enabled, r.sort))
  BY <1>3
<1> QED
  BY <1>2, <1>4, <1>5, <1>6, <1>7

\* The clients that the form offers come with their inbounds; the client that
\* it has kept although it is gone comes with the inbound that the form has.
LEMMA OptionsHaveHomes ==
    ASSUME IsRule(draft), NEW option \in clientSelectionOptions(lists, draft), option[1] # 0
    PROVE  option[2] = Home[option[1]]
BY DEF clientSelectionOptions, IsRule

\* The form keeps its rule's client and inbound together.
LEMMA DraftKeeps ==
    ASSUME RoutingPageInv, [RoutingNext]_routingVars
    PROVE  IsRule(draft') /\ draft'.id \in -1..ruleIds
<1>1. ListsHold /\ IsRule(draft) /\ draft.id \in -1..ruleIds /\ ruleIds \in Nat
  BY DEF RoutingPageInv, RulesInv
<1>2. CASE draft' = draft
  BY <1>1, <1>2
<1>3. CASE draft' = NoRule
  BY <1>1, <1>3, NewRules
<1>4. CASE OpenDraft
  <2>1. CASE \E o : draft' = RuleOf(0, 0, 0, o, TRUE, 0)
    <3>1. IsRule(draft') /\ draft'.id = 0
      BY <2>1, NewRules
    <3>2. draft'.id \in -1..ruleIds
      BY <1>1, <3>1
    <3> QED
      BY <3>1, <3>2
  <2>2. CASE draft' \in lists.rules
    BY <1>1, <2>2 DEF ListsHold
  <2> QED
    BY <1>4, <2>1, <2>2 DEF OpenDraft
<1>5. CASE \E i \in {0} \cup InboundIds : PickInbound(i)
  <2>1. PICK i : draft' = [draft EXCEPT !.inbound = i, !.client = 0]
    BY <1>5 DEF PickInbound
  <2> QED
    BY <1>1, <2>1, EditedRule
<1>6. CASE \E c \in {0} \cup ClientIds, i \in {0} \cup InboundIds : PickClient(<<c, i>>)
  <2>1. PICK c \in {0} \cup ClientIds, i \in {0} \cup InboundIds : PickClient(<<c, i>>)
    BY <1>6
  <2> DEFINE j == IF c # 0 THEN i ELSE draft.inbound
  <2>2. draft' = [draft EXCEPT !.client = c, !.inbound = j]
    BY <2>1 DEF PickClient
  <2>3. c # 0 => j = Home[c]
    BY <1>1, <2>1, OptionsHaveHomes DEF PickClient
  <2> HIDE DEF j
  <2> QED
    BY <1>1, <2>2, <2>3, EditedRule
<1>7. CASE \E o \in OutboundIds : PickOutbound(o)
  <2>1. PICK o : draft' = [draft EXCEPT !.outbound = o]
    BY <1>7 DEF PickOutbound
  <2> QED
    BY <1>1, <2>1, EditedRule
<1> QED
  BY <1>2, <1>3, <1>4, <1>5, <1>6, <1>7 DEF RoutingNext, ListLands, refetchTopologyDependencies,
     OthersChange, CloseDraft, SaveRule, ToggleRule, RemoveRule, MoveRule, Ask,
     RequestIsServed, routingVars

\* The page starts with the lists as they are and without a form.
LEMMA RoutingPageInit == RoutingInit => RoutingPageInv
<1> SUFFICES ASSUME RoutingInit PROVE RoutingPageInv
  OBVIOUS
<1>1. RulesInv
  BY RulesInit
<1>2. /\ DOMAIN tables.inbounds \subseteq InboundIds /\ DOMAIN tables.outbounds \subseteq OutboundIds
      /\ ruleIds <= MaxRules
  BY FirstTablesAssumption DEF RoutingInit
<1>3. lists = tables /\ draft = NoRule /\ awaited = {} /\ ruleIds \in Nat
  BY <1>1 DEF RoutingInit, RulesInv
<1>4. ListsHold
  <2>1. \A r \in tables.rules : IsRule(r) /\ r.id \in 1..ruleIds
    BY <1>1, WholeRules DEF RulesInv, IdsUpTo
  <2> QED
    BY <1>1, <1>2, <1>3, <2>1 DEF ListsHold, IdsOf, RulesInv, Whole
<1>5. IsRule(draft) /\ draft.id \in -1..ruleIds
  BY <1>3, NewRules
<1> QED
  BY <1>1, <1>2, <1>3, <1>4, <1>5 DEF RoutingPageInv, IdsOf

\* Every step of the page, of the server and of others keeps it.
LEMMA RoutingPageNext == RoutingPageInv /\ [RoutingNext]_routingVars => RoutingPageInv'
<1> SUFFICES ASSUME RoutingPageInv, [RoutingNext]_routingVars
             PROVE  RoutingPageInv'
  OBVIOUS
<1>1. RulesInv' /\ RulesInv /\ ruleIds \in Nat
  BY RulesNext DEF RoutingPageInv, RulesInv
<1>2. IdsOf(tables') /\ ruleIds' \in {ruleIds, ruleIds + 1} /\ ruleIds' <= MaxRules
  BY TablesSteps DEF RoutingPageInv
<1>3. ListsHold'
  <2>1. CASE \E q \in Lists : ListLands(q)
    BY <2>1, ListsKeep
  <2>2. CASE UNCHANGED lists
    <3>1. \A r \in lists.rules : r.id \in 1..ruleIds => r.id \in 1..ruleIds'
      BY <1>1, <1>2
    <3> QED
      BY <2>2, <3>1 DEF RoutingPageInv, ListsHold, IdsOf
  <2> QED
    BY <2>1, <2>2 DEF RoutingNext, refetchTopologyDependencies, OthersChange, OpenDraft,
       CloseDraft, PickInbound, PickClient, PickOutbound, SaveRule, ToggleRule, RemoveRule,
       MoveRule, Ask, RequestIsServed, routingVars
<1>4. IsRule(draft') /\ draft'.id \in -1..ruleIds'
  <2>1. IsRule(draft') /\ draft'.id \in -1..ruleIds
    BY DraftKeeps
  <2> QED
    BY <1>1, <1>2, <2>1
<1>5. awaited' \subseteq Lists
  BY DEF RoutingPageInv, RoutingNext, ListLands, refetchTopologyDependencies, OthersChange,
     OpenDraft, CloseDraft, PickInbound, PickClient, PickOutbound, SaveRule, ToggleRule,
     RemoveRule, MoveRule, Ask, RequestIsServed, routingVars
<1> QED
  BY <1>1, <1>2, <1>3, <1>4, <1>5 DEF RoutingPageInv, IdsOf, IsRule

\* The inductive invariant of the routing page, for any tables to begin with.
THEOREM RoutingPageInvariance == RoutingSpec => []RoutingPageInv
BY RoutingPageInit, RoutingPageNext, PTL DEF RoutingSpec

\* RoutingTypeOK: the tables, the lists and the requests keep to their forms.
THEOREM RoutingTypeCorrect == RoutingSpec => []RoutingTypeOK
<1>1. ASSUME RoutingPageInv PROVE RoutingTypeOK
  <2>1. draft.id \in -1..MaxRules
    BY <1>1, RoutingBounds DEF RoutingPageInv, RulesInv
  <2> QED
    BY <1>1, <2>1 DEF RoutingPageInv, RulesInv, ListsHold, IdsOf, Whole, RoutingTypeOK
<1> QED
  BY <1>1, RoutingPageInvariance, PTL

-----------------------------------------------------------------------------
(* The form *)

\* The cores that the form asks of the outbound are those that the store asks.
LEMMA RequiredAsAsked ==
    ASSUME NEW t, Whole(t), IdsOf(t), DOMAIN t.inbounds # {}, NEW p, IsRule(p),
           p.inbound \in {0} \cup DOMAIN t.inbounds, p.client \in {0} \cup DOMAIN t.clients
    PROVE  requiredRouteCores(t, p.inbound, p.client)
               = routingRuleCores(t, resolveRoutingRuleSource(t, p))
<1>1. ASSUME p.client # 0
      PROVE  /\ p.client \in DOMAIN t.clients
             /\ Home[p.client] \in DOMAIN t.inbounds /\ Home[p.client] # 0
  BY <1>1, RoutingBounds DEF Whole, IdsOf
<1>2. 0 \notin DOMAIN t.inbounds
  BY RoutingBounds DEF IdsOf
<1>3. CASE p.client # 0
  <2>1. requiredRouteCores(t, p.inbound, p.client) = {t.inbounds[Home[p.client]].core}
    BY <1>1, <1>3 DEF requiredRouteCores
  <2>2. routingRuleCores(t, resolveRoutingRuleSource(t, p)) = {t.inbounds[Home[p.client]].core}
    BY <1>1, <1>3 DEF routingRuleCores, resolveRoutingRuleSource
  <2> QED
    BY <2>1, <2>2
<1>4. CASE p.client = 0 /\ p.inbound # 0
  <2>1. requiredRouteCores(t, p.inbound, p.client) = {t.inbounds[p.inbound].core}
    BY <1>4 DEF requiredRouteCores
  <2>2. routingRuleCores(t, resolveRoutingRuleSource(t, p)) = {t.inbounds[p.inbound].core}
    BY <1>4 DEF routingRuleCores, resolveRoutingRuleSource
  <2> QED
    BY <2>1, <2>2
<1>5. CASE p.client = 0 /\ p.inbound = 0
  BY <1>5 DEF requiredRouteCores, routingRuleCores, resolveRoutingRuleSource
<1> QED
  BY <1>3, <1>4, <1>5

\* An error is among the tones only for the outbound.
LEMMA ErrorsAreOfTheOutbound ==
    ASSUME NEW v, NEW d
    PROVE  routeSummaryStatus(v, d) = "error" <=>
               \/ d.outbound = 0
               \/ outboundDisabled(v, d.outbound, requiredRouteCores(v, d.inbound, d.client))
<1> DEFINE bad == \/ d.outbound = 0
                  \/ outboundDisabled(v, d.outbound, requiredRouteCores(v, d.inbound, d.client))
           odd == \/ d.outbound \in DOMAIN v.outbounds /\ ~v.outbounds[d.outbound].enabled
                  \/ d.client \notin {0} \cup DOMAIN v.clients
           found == {IF bad THEN "error" ELSE "info", IF odd THEN "warning" ELSE "info"}
<1>1. routingDiagnostics(v, d) = IF found = {"info"} THEN {"ok"} ELSE found
  BY DEF routingDiagnostics
<1> HIDE DEF bad, odd
<1>2. "error" \in found <=> bad
  OBVIOUS
<1>3. "error" \in routingDiagnostics(v, d) <=> bad
  BY <1>1, <1>2
<1>4. routeSummaryStatus(v, d) = "error" <=> "error" \in routingDiagnostics(v, d)
  BY DEF routeSummaryStatus
<1> QED
  BY <1>3, <1>4 DEF bad

\* The store's refusal, for a rule whose parts all exist.
LEMMA JudgedByTheOutbound == RoutingPageInv => JudgedAsServed
<1> SUFFICES ASSUME RoutingPageInv, lists = tables,
                    DOMAIN tables.inbounds # {},
                    draft.inbound \in {0} \cup DOMAIN tables.inbounds,
                    draft.client \in {0} \cup DOMAIN tables.clients,
                    draft.outbound \in DOMAIN tables.outbounds
             PROVE  Accepts(tables, draft) <=> routeSummaryStatus(tables, draft) # "error"
  BY DEF JudgedAsServed
<1> DEFINE asked == routingRuleCores(tables, resolveRoutingRuleSource(tables, draft))
           unknown == \E core \in asked : ~outboundSupportsCore(tables.outbounds[draft.outbound], core)
<1>1. Whole(tables) /\ IdsOf(tables) /\ IsRule(draft)
  BY DEF RoutingPageInv, RulesInv
<1>2. requiredRouteCores(tables, draft.inbound, draft.client) = asked
  BY <1>1, RequiredAsAsked
<1>3. draft.outbound # 0
  BY <1>1, RoutingBounds DEF IdsOf
<1>4. routeSummaryStatus(tables, draft) = "error" <=> unknown
  BY <1>2, <1>3, ErrorsAreOfTheOutbound DEF outboundDisabled
<1>5. /\ draft.client # 0 => draft.client \in DOMAIN tables.clients
                                /\ draft.inbound \in {0, Home[draft.client]}
      /\ draft.client = 0 /\ draft.inbound # 0 => draft.inbound \in DOMAIN tables.inbounds
  BY <1>1 DEF IsRule
<1>6. Accepts(tables, draft) <=> ~unknown
  BY <1>5 DEF Accepts
<1> QED
  BY <1>4, <1>6

\* JudgedAsServed: what the form says of a rule whose parts all exist is what
\* the server will do with it.
THEOREM FormJudgesAsServed == RoutingSpec => []JudgedAsServed
BY RoutingPageInvariance, JudgedByTheOutbound, PTL

-----------------------------------------------------------------------------
(* The drawing *)

\* 0 stands for no inbound and no client.
NoneIsZero(v) == 0 \notin DOMAIN v.inbounds /\ 0 \notin DOMAIN v.clients

\* Where the edges start of a rule that names no client.
LEMMA InboundSources ==
    ASSUME NEW v, NoneIsZero(v), NEW r, r.client = 0
    PROVE  /\ r.inbound = 0 =>
                  routingSourcesForRule(v, r) = {InboundSource(v, i) : i \in DOMAIN v.inbounds}
           /\ r.inbound \in DOMAIN v.inbounds =>
                  routingSourcesForRule(v, r) = {InboundSource(v, r.inbound)}
           /\ r.inbound \notin {0} \cup DOMAIN v.inbounds =>
                  routingSourcesForRule(v, r)
                      = {Source(missingInboundNodeId(r.inbound), FALSE, 0, 0)}
<1>1. routingSourcesForRule(v, r) = inboundSourcesForRule(v, r)
  <2>1. r.client \notin DOMAIN v.clients
    BY DEF NoneIsZero
  <2> QED
    BY <2>1 DEF routingSourcesForRule
<1>2. CASE r.inbound = 0
  <2>1. r.inbound \notin DOMAIN v.inbounds
    BY <1>2 DEF NoneIsZero
  <2> QED
    BY <1>1, <1>2, <2>1 DEF inboundSourcesForRule
<1>3. CASE r.inbound \in DOMAIN v.inbounds
  <2>1. r.inbound # 0
    BY <1>3 DEF NoneIsZero
  <2> QED
    BY <1>1, <1>3, <2>1 DEF inboundSourcesForRule
<1>4. CASE r.inbound \notin {0} \cup DOMAIN v.inbounds
  BY <1>1, <1>4 DEF inboundSourcesForRule
<1> QED
  BY <1>2, <1>3, <1>4

\* Where an edge of a rule may start: at an inbound or a client that is there,
\* or at a node made for one that is not.
LEMMA SourcesHaveNodes ==
    ASSUME NEW v, NoneIsZero(v), NEW r \in v.rules,
           NEW s \in routingSourcesForRule(v, r)
    PROVE  s.node \in TopologyNodes(v)
<1>1. CASE \E i \in DOMAIN v.inbounds : s = InboundSource(v, i)
  <2>1. PICK i \in DOMAIN v.inbounds : s = InboundSource(v, i)
    BY <1>1
  <2>2. s.node = inboundNodeId(i)
    BY <2>1 DEF InboundSource, Source
  <2> QED
    BY <2>2 DEF TopologyNodes
<1>2. CASE /\ r.inbound \notin {0} \cup DOMAIN v.inbounds
           /\ s = Source(missingInboundNodeId(r.inbound), FALSE, 0, 0)
  <2>1. s.node = missingInboundNodeId(r.inbound)
    BY <1>2 DEF Source
  <2>2. r.inbound \in MissingInbounds(v)
    BY <1>2 DEF MissingInbounds
  <2> QED
    BY <2>1, <2>2 DEF TopologyNodes
<1>3. CASE r.client \in DOMAIN v.clients /\ s.node = clientNodeId(r.client)
  BY <1>3 DEF TopologyNodes
<1>4. CASE r.client \notin {0} \cup DOMAIN v.clients /\ s.node = missingClientNodeId(r)
  BY <1>4 DEF TopologyNodes
<1>5. CASE r.client = 0
  <2>1. CASE r.inbound = 0
    <3>1. routingSourcesForRule(v, r) = {InboundSource(v, i) : i \in DOMAIN v.inbounds}
      BY <1>5, <2>1, InboundSources
    <3> QED
      BY <1>1, <3>1
  <2>2. CASE r.inbound \in DOMAIN v.inbounds
    <3>1. routingSourcesForRule(v, r) = {InboundSource(v, r.inbound)}
      BY <1>5, <2>2, InboundSources
    <3> QED
      BY <1>1, <2>2, <3>1
  <2>3. CASE r.inbound \notin {0} \cup DOMAIN v.inbounds
    <3>1. routingSourcesForRule(v, r)
              = {Source(missingInboundNodeId(r.inbound), FALSE, 0, 0)}
      BY <1>5, <2>3, InboundSources
    <3> QED
      BY <1>2, <2>3, <3>1
  <2> QED
    BY <2>1, <2>2, <2>3
<1>6. CASE r.client # 0 /\ r.client \in DOMAIN v.clients
  <2>1. s.node = clientNodeId(r.client)
    BY <1>6 DEF routingSourcesForRule, Source
  <2> QED
    BY <1>3, <1>6, <2>1
<1>7. CASE r.client # 0 /\ r.client \notin DOMAIN v.clients
  <2>1. s.node = missingClientNodeId(r)
    BY <1>7 DEF routingSourcesForRule, Source
  <2> QED
    BY <1>4, <1>7, <2>1
<1> QED
  BY <1>5, <1>6, <1>7

\* Each kind of edge has its ends, given that clients have their inbounds.
LEMMA EdgesAndNodes ==
    ASSUME NEW v, NoneIsZero(v),
           \A c \in DOMAIN v.clients : Home[c] \in DOMAIN v.inbounds,
           NEW e \in TopologyEdges(v)
    PROVE  e.source \in TopologyNodes(v) /\ e.target \in TopologyNodes(v)
<1>1. /\ \A i \in DOMAIN v.inbounds : inboundNodeId(i) \in TopologyNodes(v)
      /\ \A c \in DOMAIN v.clients : clientNodeId(c) \in TopologyNodes(v)
      /\ \A o \in DOMAIN v.outbounds : outboundNodeId(o) \in TopologyNodes(v)
      /\ \A r \in v.rules : MissingTarget(v, r) => missingOutboundNodeId(r.outbound) \in TopologyNodes(v)
  BY DEF TopologyNodes
<1>2. CASE e \in RoutingEdges(v)
  <2>1. PICK r \in v.rules : \E s \in routingSourcesForRule(v, r) :
            /\ e.source = s.node
            /\ e.target = IF MissingTarget(v, r) THEN missingOutboundNodeId(r.outbound)
                          ELSE outboundNodeId(r.outbound)
    BY <1>2 DEF RoutingEdges, Edge
  <2>2. e.source \in TopologyNodes(v)
    BY <2>1, SourcesHaveNodes
  <2>3. e.target \in TopologyNodes(v)
    BY <1>1, <2>1 DEF MissingTarget
  <2> QED
    BY <2>2, <2>3
<1>3. CASE e \in ClientEdges(v)
  <2>1. PICK c \in DOMAIN v.clients : e.source = inboundNodeId(Home[c]) /\ e.target = clientNodeId(c)
    BY <1>3 DEF ClientEdges, Edge
  <2> QED
    BY <1>1, <2>1
<1>4. CASE e \in DefaultEdges(v)
  <2>1. /\ Direct \in DOMAIN v.outbounds /\ e.target = outboundNodeId(Direct)
        /\ \/ \E i \in DOMAIN v.inbounds : e.source = inboundNodeId(i)
           \/ \E c \in DOMAIN v.clients : e.source = clientNodeId(c)
    BY <1>4 DEF DefaultEdges, Edge
  <2> QED
    BY <1>1, <2>1
<1> QED
  BY <1>2, <1>3, <1>4 DEF TopologyEdges

\* A rule speaks of a client: of it, of its inbound, or of all inbounds.
Mine(r, c) == r.inbound \in {0, Home[c]} /\ r.client \in {0, c}

\* A client that runs in Xray, and a rule: the drawing has an active edge for
\* the two if and only if the rule is written, leads somewhere and speaks of it.
LEMMA ActiveAsRouted ==
    ASSUME NEW t, Whole(t), IdsOf(t), Builds(t, "xray"), NEW r \in t.rules,
           NEW c \in DOMAIN t.clients, t.clients[c].enabled, Runs(t, Home[c], "xray")
    PROVE  (\E s \in routingSourcesForRule(t, r) :
                /\ isActiveRoutingSource(t, r, s)
                /\ s.node \in {clientNodeId(c), inboundNodeId(Home[c])})
           <=> r \in Emitted(t, "xray") /\ Leads(t, r) /\ Mine(r, c)
<1> DEFINE Active(s) == isActiveRoutingSource(t, r, s)
           AtClient(s) == s.node \in {clientNodeId(c), inboundNodeId(Home[c])}
<1>1. /\ \A i : inboundNodeId(i) = inboundNodeId(Home[c]) => i = Home[c]
      /\ \A d : clientNodeId(d) = clientNodeId(c) => d = c
      /\ \A d, i : clientNodeId(d) # inboundNodeId(i)
  BY DEF inboundNodeId, clientNodeId
<1>2. /\ Home[c] \in DOMAIN t.inbounds /\ t.inbounds[Home[c]].enabled
      /\ t.inbounds[Home[c]].core = "xray"
      /\ 0 \notin DOMAIN t.inbounds /\ c # 0
  BY RoutingBounds DEF Runs, Whole, IdsOf
<1>3. /\ r.outbound \in DOMAIN t.outbounds
      /\ r.inbound \in {0} \cup DOMAIN t.inbounds
      /\ r.client # 0 => r.client \in DOMAIN t.clients /\ r.inbound = Home[r.client]
  BY DEF Whole
<1>4. \A s : Active(s) <=> /\ r.enabled /\ s.enabled /\ t.outbounds[r.outbound].enabled
                           /\ s.inbound # 0 => outboundSupportsCore(t.outbounds[r.outbound],
                                                                    t.inbounds[s.inbound].core)
  BY <1>3 DEF isActiveRoutingSource, MissingTarget, InvalidTarget
<1>5. r \in Compiled(t, "xray") => outboundSupportsCore(t.outbounds[r.outbound], "xray")
  BY DEF Builds
<1> HIDE DEF Active
<1>6. CASE r.client = 0
  <2> DEFINE source == InboundSource(t, Home[c])
             mine == r.inbound \in {0, Home[c]}
  <2>1. /\ source.node = inboundNodeId(Home[c]) /\ source.inbound = Home[c]
        /\ source.enabled = t.inbounds[Home[c]].enabled
    BY DEF InboundSource, Source
  <2>0. /\ r.inbound = 0 =>
               routingSourcesForRule(t, r) = {InboundSource(t, i) : i \in DOMAIN t.inbounds}
        /\ r.inbound \in DOMAIN t.inbounds =>
               routingSourcesForRule(t, r) = {InboundSource(t, r.inbound)}
    <3>1. NoneIsZero(t)
      BY RoutingBounds DEF NoneIsZero, Whole, IdsOf
    <3> QED
      BY <1>6, <3>1, InboundSources
  <2>2. \A s \in routingSourcesForRule(t, r) : AtClient(s) => s = source /\ mine
    <3> SUFFICES ASSUME NEW s \in routingSourcesForRule(t, r), AtClient(s)
                 PROVE  s = source /\ mine
      OBVIOUS
    <3>1. PICK i \in DOMAIN t.inbounds : s = InboundSource(t, i) /\ r.inbound \in {0, i}
      <4>1. CASE r.inbound = 0
        BY <2>0, <4>1
      <4>2. CASE r.inbound \in DOMAIN t.inbounds
        BY <2>0, <4>2
      <4> QED
        BY <1>3, <4>1, <4>2
    <3>2. s.node = inboundNodeId(i)
      BY <3>1 DEF InboundSource, Source
    <3>3. i = Home[c]
      BY <1>1, <3>2
    <3> QED
      BY <3>1, <3>3
  <2>3. mine => source \in routingSourcesForRule(t, r)
    BY <1>2, <2>0
  <2>4. r \in Compiled(t, "xray") /\ mine <=> r.enabled /\ mine
    BY <1>2, <1>3, <1>6 DEF Compiled, AppliesToCore, Runs
  <2>5. r \in Emitted(t, "xray") <=> r \in Compiled(t, "xray")
    BY <1>6 DEF Emitted
  <2>6. Mine(r, c) <=> mine
    BY <1>6 DEF Mine
  <2>7. (\E s \in routingSourcesForRule(t, r) : Active(s) /\ AtClient(s)) <=> mine /\ Active(source)
    BY <2>1, <2>2, <2>3
  <2> HIDE DEF source, mine
  <2>8. mine => (Active(source) <=> /\ r.enabled /\ t.outbounds[r.outbound].enabled)
    BY <1>2, <1>4, <1>5, <2>1, <2>4
  <2> QED
    BY <2>4, <2>5, <2>6, <2>7, <2>8 DEF Leads, Active
<1>7. CASE r.client # 0
  <2> DEFINE source == Source(clientNodeId(r.client),
                     t.inbounds[Home[r.client]].enabled /\ t.clients[r.client].enabled,
                     Home[r.client], r.client)
             mine == r.client = c
  <2>1. routingSourcesForRule(t, r) = {source}
    BY <1>3, <1>7 DEF routingSourcesForRule
  <2>2. source.node = clientNodeId(r.client) /\ source.inbound = Home[r.client]
    BY DEF Source
  <2>3. source.enabled <=> t.inbounds[Home[r.client]].enabled /\ t.clients[r.client].enabled
    BY DEF Source
  <2> HIDE DEF source
  <2>4. AtClient(source) <=> mine
    BY <1>1, <2>2
  <2>5. Mine(r, c) <=> mine
    BY <1>3, <1>7 DEF Mine
  <2>6. mine => (r \in Compiled(t, "xray") <=> r.enabled)
    BY <1>3, <1>7 DEF Compiled, AppliesToCore
  <2>7. mine => (r \in Emitted(t, "xray") <=> r \in Compiled(t, "xray"))
    BY DEF Emitted
  <2>8. mine => (Active(source) <=> r.enabled /\ t.outbounds[r.outbound].enabled)
    BY <1>2, <1>4, <1>5, <2>2, <2>3, <2>6
  <2>9. (\E s \in routingSourcesForRule(t, r) : Active(s) /\ AtClient(s)) <=> mine /\ Active(source)
    BY <2>1, <2>4
  <2> HIDE DEF mine
  <2> QED
    BY <2>5, <2>6, <2>7, <2>8, <2>9 DEF Leads, Active
<1> QED
  BY <1>6, <1>7

\* What the drawing shows of Xray's clients, in terms of the rules.
LEMMA DrawnWays ==
    ASSUME NEW t, Whole(t), IdsOf(t), Builds(t, "xray"), NEW w
    PROVE  w \in Drawn(t, "xray") <=>
               \E r \in t.rules, c \in DOMAIN t.clients :
                   /\ t.clients[c].enabled /\ Runs(t, Home[c], "xray")
                   /\ r \in Emitted(t, "xray") /\ Leads(t, r) /\ Mine(r, c)
                   /\ w = <<r.id, c, r.outbound>>
<1> DEFINE There(c) == t.clients[c].enabled /\ Runs(t, Home[c], "xray")
           Edged(r, c) == \E s \in routingSourcesForRule(t, r) :
                              /\ isActiveRoutingSource(t, r, s)
                              /\ s.node \in {clientNodeId(c), inboundNodeId(Home[c])}
           Spoken(r, c) == r \in Emitted(t, "xray") /\ Leads(t, r) /\ Mine(r, c)
<1>1. \A x : x \in Drawn(t, "xray") <=>
          \E r \in t.rules, c \in DOMAIN t.clients :
              There(c) /\ Edged(r, c) /\ x = <<r.id, c, r.outbound>>
  <2> DEFINE To(r) == IF MissingTarget(t, r) THEN missingOutboundNodeId(r.outbound)
                      ELSE outboundNodeId(r.outbound)
             Kind(r, s) == IF s.client # 0 THEN "client-routing"
                           ELSE IF r.inbound # 0 THEN "routing" ELSE "all-inbounds-routing"
             EdgeOf(r, s) == Edge(Kind(r, s), s.node, To(r), isActiveRoutingSource(t, r, s), r.id)
  <2>1. \A e : e \in RoutingEdges(t) <=>
            \E r \in t.rules : \E s \in routingSourcesForRule(t, r) : e = EdgeOf(r, s)
    BY DEF RoutingEdges
  <2>2. \A r, s : /\ EdgeOf(r, s).source = s.node /\ EdgeOf(r, s).target = To(r)
                  /\ EdgeOf(r, s).rule = r.id
    BY DEF Edge
  <2>3. \A r, s : EdgeOf(r, s).enabled <=> isActiveRoutingSource(t, r, s)
    BY DEF Edge
  <2>4. \A r : To(r)[2] = r.outbound
    BY DEF outboundNodeId, missingOutboundNodeId
  <2>5. \A x : x \in Drawn(t, "xray") <=>
            \E e \in RoutingEdges(t), c \in DOMAIN t.clients :
                /\ e.enabled /\ There(c)
                /\ e.source \in {clientNodeId(c), inboundNodeId(Home[c])}
                /\ x = <<e.rule, c, e.target[2]>>
    BY DEF Drawn
  <2> HIDE DEF EdgeOf, There, To, Kind
  <2>6. ASSUME NEW x, x \in Drawn(t, "xray")
        PROVE  \E r \in t.rules, c \in DOMAIN t.clients :
                   There(c) /\ Edged(r, c) /\ x = <<r.id, c, r.outbound>>
    <3>1. PICK e \in RoutingEdges(t), c \in DOMAIN t.clients :
              /\ e.enabled /\ There(c)
              /\ e.source \in {clientNodeId(c), inboundNodeId(Home[c])}
              /\ x = <<e.rule, c, e.target[2]>>
      BY <2>5, <2>6
    <3>2. PICK r \in t.rules : \E s \in routingSourcesForRule(t, r) : e = EdgeOf(r, s)
      BY <2>1, <3>1
    <3>3. PICK s \in routingSourcesForRule(t, r) : e = EdgeOf(r, s)
      BY <3>2
    <3>4. Edged(r, c)
      BY <2>2, <2>3, <3>1, <3>3
    <3>5. x = <<r.id, c, r.outbound>>
      BY <2>2, <2>4, <3>1, <3>3
    <3> QED
      BY <3>1, <3>4, <3>5
  <2>7. ASSUME NEW x, NEW r \in t.rules, NEW c \in DOMAIN t.clients,
               There(c), Edged(r, c), x = <<r.id, c, r.outbound>>
        PROVE  x \in Drawn(t, "xray")
    <3>1. PICK s \in routingSourcesForRule(t, r) :
              /\ isActiveRoutingSource(t, r, s)
              /\ s.node \in {clientNodeId(c), inboundNodeId(Home[c])}
      BY <2>7
    <3> DEFINE e == EdgeOf(r, s)
    <3>2. e \in RoutingEdges(t) /\ e.enabled
      BY <2>1, <2>3, <3>1
    <3>3. /\ e.source \in {clientNodeId(c), inboundNodeId(Home[c])}
          /\ x = <<e.rule, c, e.target[2]>>
      BY <2>2, <2>4, <2>7, <3>1
    <3> HIDE DEF e
    <3> QED
      BY <2>5, <2>7, <3>2, <3>3
  <2> QED
    BY <2>6, <2>7
<1>2. \A r \in t.rules, c \in DOMAIN t.clients : There(c) => (Edged(r, c) <=> Spoken(r, c))
  BY ActiveAsRouted
<1> HIDE DEF There, Edged, Spoken
<1>3. w \in Drawn(t, "xray") <=>
          \E r \in t.rules, c \in DOMAIN t.clients :
              There(c) /\ Spoken(r, c) /\ w = <<r.id, c, r.outbound>>
  BY <1>1, <1>2
<1> QED
  BY <1>3 DEF There, Spoken

\* What is kept out of the drawing leaves whole tables, which Xray's generator
\* takes as it takes all of them.
LEMMA VisibleTables ==
    ASSUME NEW t, Whole(t), IdsOf(t), Builds(t, "xray")
    PROVE  LET v == Visible(t)
           IN  /\ Whole(v) /\ IdsOf(v) /\ Builds(v, "xray")
               /\ v.inbounds = t.inbounds /\ v.clients = t.clients
               /\ v.rules = {r \in t.rules : r.outbound \notin SystemDirect}
               /\ \A r \in v.rules :
                     /\ r \in Emitted(v, "xray") <=> r \in Emitted(t, "xray")
                     /\ Leads(v, r) <=> Leads(t, r)
<1> DEFINE v == Visible(t)
<1>1. /\ DOMAIN v = DOMAIN t /\ v.inbounds = t.inbounds /\ v.clients = t.clients
      /\ v.rules = {r \in t.rules : r.outbound \notin SystemDirect}
      /\ DOMAIN v.outbounds = DOMAIN t.outbounds \ SystemDirect
      /\ \A o \in DOMAIN v.outbounds : v.outbounds[o] = t.outbounds[o]
  BY DEF Visible, Without, Whole
<1> HIDE DEF v
<1>2. Whole(v)
  BY <1>1 DEF Whole
<1>3. IdsOf(v)
  BY <1>1 DEF IdsOf
<1>4. \A r \in v.rules : r \in t.rules /\ r.outbound \in DOMAIN v.outbounds
  BY <1>1 DEF Whole
<1>5. \A r : AppliesToCore(v, r, "xray") <=> AppliesToCore(t, r, "xray")
  BY <1>1 DEF AppliesToCore, Runs
<1>6. \A r \in v.rules : r \in Compiled(v, "xray") <=> r \in Compiled(t, "xray")
  BY <1>1, <1>4, <1>5 DEF Compiled
<1>7. Builds(v, "xray")
  BY <1>1, <1>4, <1>6 DEF Builds, Compiled
<1>8. \A r \in v.rules : /\ r \in Emitted(v, "xray") <=> r \in Emitted(t, "xray")
                         /\ Leads(v, r) <=> Leads(t, r)
  BY <1>1, <1>4, <1>6 DEF Emitted, Leads
<1> QED
  BY <1>1, <1>2, <1>3, <1>7, <1>8 DEF v

\* Every way of Xray's configuration is drawn unless it is the system's; and a
\* way that is drawn in vain is of a rule that is overtaken or names nobody.
LEMMA XrayWaysAgree ==
    ASSUME NEW t, Whole(t), IdsOf(t), Builds(t, "xray")
    PROVE  /\ \A w \in Routed(t, "xray") : w[3] \in SystemDirect \/ w \in Drawn(Visible(t), "xray")
           /\ \A w \in Drawn(Visible(t), "xray") \ Routed(t, "xray") :
                 \E r \in Emitted(t, "xray") :
                     /\ r.id = w[1] /\ r.outbound = w[3] /\ Leads(t, r)
                     /\ Overtaken(t, r, w[2], "xray") \/ NamesNobody(t, r)
<1> DEFINE v == Visible(t)
<1>1. /\ Whole(v) /\ IdsOf(v) /\ Builds(v, "xray")
      /\ v.inbounds = t.inbounds /\ v.clients = t.clients
      /\ v.rules = {r \in t.rules : r.outbound \notin SystemDirect}
      /\ \A r \in v.rules : /\ r \in Emitted(v, "xray") <=> r \in Emitted(t, "xray")
                            /\ Leads(v, r) <=> Leads(t, r)
  BY VisibleTables
<1> HIDE DEF v
<1> DEFINE There(c) == c \in DOMAIN t.clients /\ t.clients[c].enabled /\ Runs(t, Home[c], "xray")
<1>2. \A w : w \in Drawn(v, "xray") <=>
          \E r \in v.rules, c \in DOMAIN t.clients : There(c) /\ r \in Emitted(t, "xray") /\ Leads(t, r) /\ Mine(r, c)
                               /\ w = <<r.id, c, r.outbound>>
  <2>1. \A c : Runs(v, Home[c], "xray") <=> Runs(t, Home[c], "xray")
    BY <1>1 DEF Runs
  <2> QED
    BY <1>1, <2>1, DrawnWays
<1>3. \A w : w \in Routed(t, "xray") <=>
          \E r \in Emitted(t, "xray") : \E c \in Takes(t, r, "xray") :
              Leads(t, r) /\ ~Overtaken(t, r, c, "xray") /\ w = <<r.id, c, r.outbound>>
  BY DEF Routed
<1>4. \A r \in t.rules, c \in DOMAIN t.clients :
          c \in Takes(t, r, "xray") <=>
              There(c) /\ Mine(r, c) /\ (r.client # 0 => t.inbounds[Home[c]].users)
  BY DEF Takes, Mine
<1>5. Emitted(t, "xray") \subseteq t.rules
  BY DEF Emitted, Compiled
<1> HIDE DEF There
<1>6. ASSUME NEW w \in Routed(t, "xray"), w[3] \notin SystemDirect
      PROVE  w \in Drawn(v, "xray")
  <2>1. PICK r \in Emitted(t, "xray") : \E c \in Takes(t, r, "xray") :
            Leads(t, r) /\ w = <<r.id, c, r.outbound>>
    BY <1>3, <1>6
  <2>0. PICK c \in Takes(t, r, "xray") : w = <<r.id, c, r.outbound>>
    BY <2>1
  <2>2. r \in v.rules
    BY <1>1, <1>5, <1>6, <2>0
  <2>3. c \in DOMAIN t.clients
    BY DEF Takes
  <2>4. There(c) /\ Mine(r, c)
    BY <1>4, <1>5, <2>3
  <2> QED
    BY <1>2, <2>0, <2>1, <2>2, <2>3, <2>4
<1>7. ASSUME NEW w \in Drawn(v, "xray"), w \notin Routed(t, "xray")
      PROVE  \E r \in Emitted(t, "xray") :
                 /\ r.id = w[1] /\ r.outbound = w[3] /\ Leads(t, r)
                 /\ Overtaken(t, r, w[2], "xray") \/ NamesNobody(t, r)
  <2>1. PICK r \in v.rules, c \in DOMAIN t.clients : There(c) /\ r \in Emitted(t, "xray") /\ Leads(t, r) /\ Mine(r, c)
                               /\ w = <<r.id, c, r.outbound>>
    BY <1>2, <1>7
  <2>2. CASE Overtaken(t, r, c, "xray")
    BY <2>1, <2>2
  <2>3. CASE ~Overtaken(t, r, c, "xray")
    <3>1. c \notin Takes(t, r, "xray")
      BY <1>3, <1>7, <2>1, <2>3
    <3>2. r.client # 0 /\ ~t.inbounds[Home[c]].users
      BY <1>4, <1>5, <2>1, <3>1
    <3>3. NamesNobody(t, r)
      BY <2>1, <3>2 DEF Mine, NamesNobody
    <3> QED
      BY <2>1, <3>3
  <2> QED
    BY <2>2, <2>3
<1> QED
  BY <1>6, <1>7 DEF v

\* DrawingIsTrue: every edge of the drawing has its two nodes, however old the
\* lists are that it is made of; and when they are the server's, each way that
\* Xray's configuration gives to a client has its active line, and a line in vain
\* is of a written rule that is overtaken or names nobody.
THEOREM DrawingStaysTrue == RoutingSpec => []DrawingIsTrue
<1>1. ASSUME RoutingPageInv PROVE DrawingIsTrue
  <2>1. EdgesHaveEnds
    <3> DEFINE v == Visible(lists)
    <3>1. v.inbounds = lists.inbounds /\ v.clients = lists.clients
      BY <1>1 DEF RoutingPageInv, ListsHold, Visible
    <3>2. buildTopologyGraph(lists).edges = TopologyEdges(v)
          /\ buildTopologyGraph(lists).nodes = TopologyNodes(v)
      BY DEF buildTopologyGraph
    <3> HIDE DEF v
    <3>3. NoneIsZero(v)
      BY <1>1, <3>1, RoutingBounds DEF RoutingPageInv, ListsHold, IdsOf, NoneIsZero
    <3>4. \A c \in DOMAIN v.clients : Home[c] \in DOMAIN v.inbounds
      BY <1>1, <3>1 DEF RoutingPageInv, ListsHold
    <3> QED
      BY <3>2, <3>3, <3>4, EdgesAndNodes DEF EdgesHaveEnds
  <2>2. XrayDrawnAsRouted
    BY <1>1, XrayWaysAgree DEF RoutingPageInv, RulesInv, XrayDrawnAsRouted, DrawnAsRouted
  <2> QED
    BY <2>1, <2>2 DEF DrawingIsTrue
<1> QED
  BY <1>1, RoutingPageInvariance, PTL

=============================================================================
