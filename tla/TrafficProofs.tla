---------------------------- MODULE TrafficProofs ----------------------------
(***************************************************************************)
(* Proofs about Traffic, for any scopes, directions, admins and bounds.    *)
(***************************************************************************)
EXTENDS Traffic, TLAPS

\* The constant records are of their types.
LEMMA Values ==
  /\ Zero \in Counts /\ NoRow \in RowType /\ NoSample \in SampleType
  /\ NoSync \in SyncType /\ NoReset \in ResetType
<1>1. Zero \in Counts
    BY DEF Zero, Counts
<1>2. NoSample \in SampleType
    BY <1>1 DEF NoSample, SampleType
<1>3. NoSamples \in [Scopes -> SampleType]
    BY <1>2 DEF NoSamples
<1> QED
    BY <1>1, <1>2, <1>3 DEF NoRow, RowType, NoSync, SyncType, NoReset, ResetType, Messages, Engines

\* The parts of the type invariant.
LEMMA Fields ==
  ASSUME TypeOK
  PROVE  /\ counter \in [Scopes -> Counts] /\ carried \in [Scopes -> Counts]
         /\ rows \in [Scopes -> RowType] /\ account \in [Scopes -> AccountType]
         /\ sync \in SyncType /\ reset \in [Admins -> ResetType]
         /\ client \in [sync : ClientKinds, web : ClientKinds] /\ enabled \subseteq Scopes
         /\ endpoint \in [Engines -> Endpoints]
         /\ count \in [bytes : Nat, resets : Nat, faults : Nat]
BY DEF TypeOK

\* The variables of the sync, one by one.
LEMMA SyncFields ==
  ASSUME TypeOK
  PROVE  /\ sync.left \subseteq Scopes /\ sync.raw \in [Scopes -> SampleType]
         /\ sync.engine \in Engines /\ EngineScopes(sync.engine) \subseteq Scopes
         /\ sync.resets \subseteq Scopes /\ sync.late \in BOOLEAN
BY ScopesAssumption DEF TypeOK, SyncType, EngineScopes

\* A fault within the bound keeps the counts natural.
LEMMA FaultType ==
  ASSUME TypeOK, Fault
  PROVE  count' \in [bytes : Nat, resets : Nat, faults : Nat]
BY DEF TypeOK, Fault

\* A counter that is read is as it is now, and of its type.
LEMMA SampleTyped ==
  ASSUME TypeOK, NEW s \in Scopes, NEW x \in Samples(s)
  PROVE  /\ x \in SampleType /\ x.value = counter[s] /\ x.at = carried[s]
         /\ x.fresh = TRUE /\ x.newer = {} /\ x.got \in BOOLEAN
         /\ ~x.got => counter[s] = Zero
<1>1. counter[s] \in Counts /\ carried[s] \in Counts
    BY DEF TypeOK
<1>2. PICK g \in IF counter[s] = Zero THEN BOOLEAN ELSE {TRUE} :
        x = [got |-> g, value |-> counter[s], at |-> carried[s], fresh |-> TRUE, newer |-> {}]
    BY DEF Samples
<1> QED
    BY <1>1, <1>2 DEF SampleType

\* The usage of a sample is a natural number of bytes.
LEMMA DeltaTyped ==
  ASSUME NEW row \in RowType, NEW raw \in Counts
  PROVE  /\ Delta(row, raw) \in Counts
         /\ \A d \in Directions : Delta(row, raw)[d] =
                IF Unsampled(row) \/ raw[d] < row.lastRaw[d] THEN 0 ELSE raw[d] - row.lastRaw[d]
<1>1. row.lastRaw \in Counts
    BY DEF RowType
<1>2. ASSUME NEW d \in Directions
      PROVE  (IF Unsampled(row) \/ raw[d] < row.lastRaw[d] THEN 0 ELSE raw[d] - row.lastRaw[d]) \in Nat
  <2>1. raw[d] \in Nat /\ row.lastRaw[d] \in Nat
      BY <1>1 DEF Counts
  <2> QED
      BY <2>1
<1> QED
    BY <1>2 DEF Delta, Counts

\* A row with one more sample: its type, and what the sample adds.
LEMMA SampledTyped ==
  ASSUME NEW row \in RowType, NEW raw \in Counts, NEW later \in BOOLEAN
  PROVE  /\ Sampled(row, raw, later) \in RowType
         /\ Sampled(row, raw, later).status = "ok" /\ Sampled(row, raw, later).lastRaw = raw
         /\ \A d \in Directions :
                Sampled(row, raw, later).total[d] = row.total[d] + Delta(row, raw)[d]
<1>1. row.total \in Counts /\ Delta(row, raw) \in Counts
    BY DeltaTyped DEF RowType
<1>2. [d \in Directions |-> row.total[d] + Delta(row, raw)[d]] \in Counts
    BY <1>1 DEF Counts
<1>3. (row # NoRow /\ later) \in BOOLEAN
    OBVIOUS
<1> QED
    BY <1>2, <1>3 DEF Sampled, RowType, Messages

\* The rows that a sync writes.
SampledRows == [s \in Scopes |->
    IF s \in Got(sync.raw) THEN Sampled(rows[s], sync.raw[s].value, s \notin sync.resets)
    ELSE rows[s]]
AppliedRows == Reconciled(SampledRows, sync.raw)

\* The rows that a sync writes are of their type, before and after the repair.
LEMMA AppliedTyped ==
  ASSUME TypeOK
  PROVE  SampledRows \in [Scopes -> RowType] /\ AppliedRows \in [Scopes -> RowType]
<1>1. ASSUME NEW s \in Scopes
      PROVE  SampledRows[s] \in RowType
  <2>1. rows[s] \in RowType /\ sync.raw[s].value \in Counts
      BY Fields, SyncFields DEF SampleType
  <2> QED
      BY <2>1, SampledTyped DEF SampledRows
<1>2. SampledRows \in [Scopes -> RowType]
    BY <1>1 DEF SampledRows
<1>3. ASSUME NEW s \in Scopes
      PROVE  AppliedRows[s] \in RowType
  <2>1. CASE Polluted(SampledRows, sync.raw, s)
    <3>1. InboundOf[s] \in Scopes
        BY <2>1 DEF Polluted, Scopes
    <3>2. SampledRows[InboundOf[s]].total \in Counts /\ SampledRows[s] \in RowType
        BY <1>2, <3>1 DEF RowType
    <3>3. AppliedRows[s] = [SampledRows[s] EXCEPT !.total = SampledRows[InboundOf[s]].total,
                                !.window = FALSE, !.status = "partial"]
        BY <2>1 DEF AppliedRows, Reconciled
    <3> QED
        BY <3>2, <3>3 DEF RowType
  <2>2. CASE ~Polluted(SampledRows, sync.raw, s)
      BY <1>1, <2>2 DEF AppliedRows, Reconciled
  <2> QED
      BY <2>1, <2>2
<1> QED
    BY <1>2, <1>3 DEF AppliedRows, Reconciled

-----------------------------------------------------------------------------
(* Type correctness *)

\* Every step of the sync preserves the types.
LEMMA SyncStepType ==
  ASSUME TypeOK, SyncStep
  PROVE  TypeOK'
<1>f. /\ counter \in [Scopes -> Counts] /\ carried \in [Scopes -> Counts]
      /\ rows \in [Scopes -> RowType] /\ account \in [Scopes -> AccountType]
      /\ sync \in SyncType /\ reset \in [Admins -> ResetType]
      /\ client \in [sync : ClientKinds, web : ClientKinds] /\ enabled \subseteq Scopes
      /\ endpoint \in [Engines -> Endpoints]
      /\ count \in [bytes : Nat, resets : Nat, faults : Nat]
    BY Fields
<1>s. /\ sync.left \subseteq Scopes /\ sync.raw \in [Scopes -> SampleType]
      /\ sync.engine \in Engines /\ EngineScopes(sync.engine) \subseteq Scopes
      /\ sync.resets \subseteq Scopes /\ sync.late \in BOOLEAN
    BY SyncFields
<1>c. UNCHANGED count \/ Fault => count' \in [bytes : Nat, resets : Nat, faults : Nat]
    BY <1>f, FaultType
<1>m. ASSUME NEW row \in RowType
      PROVE  Marked(row, sync.status, sync.message) \in RowType
    BY <1>f, <1>m DEF Marked, RowType, SyncType
<1>h. ASSUME NEW t
      PROVE  Hide(t) \in [Scopes -> AccountType]
  <2>1. ASSUME NEW s \in Scopes
        PROVE  [account[s] EXCEPT !.spoilt = "blind"] \in AccountType /\ account[s] \in AccountType
      BY <1>f DEF AccountType
  <2> QED
      BY <2>1 DEF Hide
<1>1. CASE SyncBegin
  <2>1. sync' = [NoSync EXCEPT !.pc = "read", !.left = EngineScopes("xray")]
      BY <1>1 DEF SyncBegin
  <2>2. EngineScopes("xray") \subseteq Scopes
      BY DEF EngineScopes
  <2>3. sync' \in SyncType
      BY <2>1, <2>2, Values DEF SyncType
  <2> QED
      BY <1>1, <2>3, <1>f DEF SyncBegin, TypeOK, historyVars
<1>2. CASE QueryAnswers
  <2>1. sync' \in SyncType
      BY <1>2, <1>f DEF QueryAnswers, SyncType, Messages
  <2> QED
      BY <1>2, <2>1, <1>f DEF QueryAnswers, TypeOK, historyVars
<1>3. CASE QueryFails
  <2> DEFINE raw == [s \in Scopes |->
                        IF s \in EngineScopes(sync.engine) THEN NoSample ELSE sync.raw[s]]
  <2>1. raw \in [Scopes -> SampleType]
      BY <1>s, Values
  <2>2. PICK m \in Messages : sync' = [sync EXCEPT !.pc = "mark", !.status = "unavailable",
                                          !.message = m, !.left = {},
                                          !.late = @ \/ Waits(sync.engine, client.sync), !.raw = raw]
      BY <1>3 DEF QueryFails, Messages
  <2> HIDE DEF raw
  <2>5. (sync.late \/ Waits(sync.engine, client.sync)) \in BOOLEAN
      BY <1>s DEF Waits
  <2>3. sync' \in SyncType
      BY <2>1, <2>2, <2>5, <1>f DEF SyncType
  <2>4. count' \in [bytes : Nat, resets : Nat, faults : Nat]
      BY <1>3, <1>c DEF QueryFails, Lost
  <2> QED
      BY <1>3, <2>3, <2>4, <1>f DEF QueryFails, TypeOK, historyVars
<1>4. CASE Mark
  <2>1. rows' \in [Scopes -> RowType]
      BY <1>4, <1>m, <1>f DEF Mark
  <2>2. sync' \in SyncType
      BY <1>4, <1>f DEF Mark, SyncType, AfterMark
  <2>3. count' \in [bytes : Nat, resets : Nat, faults : Nat] /\ account' \in [Scopes -> AccountType]
      BY <1>4, <1>c, <1>h DEF Mark, Lost
  <2> QED
      BY <1>4, <2>1, <2>2, <2>3, <1>f DEF Mark, TypeOK
<1>5. CASE MarkDown
  <2>1. rows' \in [Scopes -> RowType]
      BY <1>5, <1>m, <1>f DEF MarkDown
  <2>2. sync' \in SyncType
      BY <1>5, <1>f DEF MarkDown, SyncType, AfterEngine, Messages
  <2>3. count' \in [bytes : Nat, resets : Nat, faults : Nat] /\ account' \in [Scopes -> AccountType]
      BY <1>5, <1>c, <1>h DEF MarkDown, Lost
  <2> QED
      BY <1>5, <2>1, <2>2, <2>3, <1>f DEF MarkDown, TypeOK
<1>6. CASE PickClient
  <2>1. PICK kind \in Refreshed \cup {client.sync}, late \in {sync.late, Refreshing} :
          /\ IF kind \in Refreshed THEN UNCHANGED count ELSE Fault
          /\ client' = [client EXCEPT !.sync = kind]
          /\ sync' = IF kind \in {"not_configured", "unsupported"}
                     THEN [sync EXCEPT !.engine = "singbox", !.pc = "mark", !.status = kind,
                                       !.message = "baseline", !.late = late]
                     ELSE [sync EXCEPT !.engine = "singbox", !.pc = "read", !.left = Singbox,
                                       !.late = late]
      BY <1>6 DEF PickClient
  <2>5. late \in BOOLEAN
      BY <1>s DEF Refreshing
  <2>2. kind \in ClientKinds
      BY <1>f DEF Refreshed, ClientKinds
  <2>3. client' \in [sync : ClientKinds, web : ClientKinds]
      BY <2>1, <2>2, <1>f
  <2>4. sync' \in SyncType
    <3>1. CASE kind \in {"not_configured", "unsupported"}
        BY <2>1, <2>5, <3>1, <1>f DEF SyncType, Messages, Engines
    <3>2. CASE kind \notin {"not_configured", "unsupported"}
        BY <2>1, <2>5, <3>2, <1>f, ScopesAssumption DEF SyncType, Engines
    <3> QED
        BY <3>1, <3>2
  <2> QED
      BY <1>6, <2>1, <2>3, <2>4, <1>c, <1>f DEF PickClient, TypeOK, historyVars
<1>7. CASE Apply
  <2>1. rows' = rows \/ rows' = AppliedRows
      BY <1>7 DEF Apply, AppliedRows, SampledRows
  <2>2. ASSUME NEW s \in Scopes, s \in Got(sync.raw)
        PROVE  Accounted(s, AppliedRows) \in AccountType
    <3> DEFINE x == sync.raw[s]
               a == [account[s] EXCEPT !.seen = x.at, !.blind = FALSE]
               b == [d \in Directions |-> x.at[d] - rows[s].total[d]]
    <3>1. x.at \in Counts /\ x.fresh \in BOOLEAN /\ rows[s].total \in Counts
        BY <1>f, <1>s DEF SampleType, RowType
    <3>2. a \in AccountType
        BY <3>1, <1>f DEF AccountType
    <3>3. b \in [Directions -> Int]
        BY <3>1 DEF Counts
    <3> HIDE DEF x, b
    <3>4. /\ [a EXCEPT !.exact = FALSE, !.spoilt = IF Raised(s, AppliedRows) THEN "raised" ELSE @] \in AccountType
          /\ [a EXCEPT !.exact = x.fresh, !.base = b] \in AccountType
          /\ [a EXCEPT !.exact = @ /\ x.fresh] \in AccountType
        BY <3>1, <3>2, <3>3 DEF AccountType
    <3> QED
        BY <3>4 DEF Accounted, x, b
  <2>3. account' \in [Scopes -> AccountType]
      BY <1>7, <2>2, <1>f DEF Apply, AppliedRows, SampledRows
  <2>4. count' \in [bytes : Nat, resets : Nat, faults : Nat]
      BY <1>7, <1>c DEF Apply, Lost
  <2> QED
      BY <1>7, <2>1, <2>3, <2>4, <1>f, AppliedTyped, Values DEF Apply, TypeOK
<1>8. ASSUME NEW s \in Scopes, ReadCounter(s)
      PROVE  TypeOK'
  <2>1. PICK x \in Samples(s) :
          sync' = [sync EXCEPT !.left = @ \ {s}, !.raw[s] = IF x.got THEN x ELSE NoSample]
      BY <1>8 DEF ReadCounter
  <2> DEFINE raw == [sync.raw EXCEPT ![s] = IF x.got THEN x ELSE NoSample]
  <2>2. raw \in [Scopes -> SampleType]
      BY <1>s, SampleTyped, Values
  <2>3. sync' = [sync EXCEPT !.left = sync.left \ {s}, !.raw = raw]
      BY <2>1
  <2> HIDE DEF raw
  <2>4. sync' \in SyncType
      BY <2>2, <2>3, <1>f DEF SyncType
  <2> QED
      BY <1>8, <2>4, <1>f DEF ReadCounter, TypeOK, historyVars
<1> QED
    BY <1>1, <1>2, <1>3, <1>4, <1>5, <1>6, <1>7, <1>8 DEF SyncStep

\* A reset works on a client once it has begun, and has a baseline only when
\* it is about to write.
Asked(a) ==
    /\ reset[a].pc # "idle" => reset[a].client \in Clients
    /\ reset[a].pc # "write" => ~reset[a].base.got
    /\ ~reset[a].base.got => reset[a].base.value = Zero
Asking == \A a \in Admins : Asked(a)

\* Every step of a reset preserves the types.
LEMMA ResetStepType ==
  ASSUME TypeOK, Asking, NEW a \in Admins, ResetStep(a)
  PROVE  TypeOK'
<1>f. /\ counter \in [Scopes -> Counts] /\ carried \in [Scopes -> Counts]
      /\ rows \in [Scopes -> RowType] /\ account \in [Scopes -> AccountType]
      /\ sync \in SyncType /\ reset \in [Admins -> ResetType]
      /\ client \in [sync : ClientKinds, web : ClientKinds] /\ enabled \subseteq Scopes
      /\ endpoint \in [Engines -> Endpoints]
      /\ count \in [bytes : Nat, resets : Nat, faults : Nat]
    BY Fields
<1>s. sync.raw \in [Scopes -> SampleType] /\ sync.resets \subseteq Scopes
    BY SyncFields
<1>c. UNCHANGED count \/ Fault => count' \in [bytes : Nat, resets : Nat, faults : Nat]
    BY <1>f, FaultType
<1>k. reset[a].pc # "idle" => reset[a].client \in Scopes
    BY DEF Asking, Asked, Scopes
<1>1. ASSUME NEW c \in Clients, ResetBegin(a, c)
      PROVE  TypeOK'
  <2> DEFINE v == [NoReset EXCEPT !.pc = "query", !.client = c]
  <2>1. v \in ResetType /\ reset' = [reset EXCEPT ![a] = v]
      BY <1>1, Values DEF ResetBegin, ResetType
  <2> HIDE DEF v
  <2>2. reset' \in [Admins -> ResetType]
      BY <2>1, <1>f
  <2>3. count' \in [bytes : Nat, resets : Nat, faults : Nat]
      BY <1>1, <1>f DEF ResetBegin
  <2> QED
      BY <1>1, <2>2, <2>3, <1>f DEF ResetBegin, TypeOK, historyVars
<1>2. CASE ResetQuery(a)
  <2> DEFINE c == reset[a].client
  <2>1. c \in Scopes /\ c = reset[a].client
      BY <1>2, <1>k DEF ResetQuery
  <2> HIDE DEF c
  <2>2. reset' \in [Admins -> ResetType]
    <3>1. ASSUME NEW x \in Samples(c),
                 reset' = [reset EXCEPT ![a].pc = "write", ![a].base = IF x.got THEN x ELSE NoSample]
          PROVE  reset' \in [Admins -> ResetType]
      <4> DEFINE v == [reset[a] EXCEPT !.pc = "write", !.base = IF x.got THEN x ELSE NoSample]
      <4>1. x \in SampleType
          BY <2>1, SampleTyped
      <4>2. v \in ResetType /\ reset' = [reset EXCEPT ![a] = v]
          BY <3>1, <4>1, <1>f, Values DEF ResetType
      <4> HIDE DEF v
      <4> QED
          BY <4>2, <1>f
    <3>2. CASE reset' = [reset EXCEPT ![a].pc = "write"]
        BY <3>2, <1>f DEF ResetType
    <3> QED
        BY <1>2, <2>1, <3>1, <3>2 DEF ResetQuery
  <2>3. sync' \in SyncType
    <3> DEFINE x == [sync.raw[c] EXCEPT !.newer = IF sync.raw[c].got THEN @ \cup {a} ELSE @]
               raw == [sync.raw EXCEPT ![c] = x]
    <3>1. x \in SampleType
        BY <2>1, <1>s DEF SampleType
    <3>2. sync' = [sync EXCEPT !.raw = raw]
        BY <1>2, <2>1 DEF ResetQuery
    <3> HIDE DEF x
    <3>3. raw \in [Scopes -> SampleType]
        BY <3>1, <1>s
    <3> HIDE DEF raw
    <3> QED
        BY <3>2, <3>3, <1>f DEF SyncType
  <2>4. count' \in [bytes : Nat, resets : Nat, faults : Nat]
      BY <1>2, <1>c DEF ResetQuery
  <2> QED
      BY <1>2, <2>2, <2>3, <2>4, <1>f DEF ResetQuery, TypeOK, historyVars
<1>3. CASE ResetWrite(a)
  <2> DEFINE c == reset[a].client
             base == reset[a].base
             at == IF base.got THEN base.at ELSE carried[c]
             late == Late(a, c, at)
             new == [since |-> at, base |-> at, seen |-> at, exact |-> base.fresh /\ ~late,
                     blind |-> ~base.got, spoilt |-> IF late THEN "late" ELSE "no"]
  <2>1. c \in Scopes /\ base \in SampleType
      BY <1>3, <1>k, <1>f DEF ResetWrite, ResetType
  <2>2. at \in Counts /\ base.value \in Counts /\ base.got \in BOOLEAN /\ base.fresh \in BOOLEAN
      BY <2>1, <1>f DEF SampleType
  <2>3. late \in BOOLEAN /\ at \in [Directions -> Int]
      BY <2>1, <2>2, <1>s DEF Late, SampleType, Counts
  <2>4. new \in AccountType
      BY <2>2, <2>3 DEF AccountType
  <2>5. ResetRow(base) \in RowType
    <3>1. NoRow \in RowType
        BY Values
    <3> QED
        BY <3>1, <2>2 DEF ResetRow, RowType
  <2>6. \/ /\ rows' = [rows EXCEPT ![c] = ResetRow(base)]
           /\ account' = [account EXCEPT ![c] = new]
           /\ UNCHANGED count
        \/ UNCHANGED <<rows, account>> /\ Fault
      BY <1>3 DEF ResetWrite
  <2>7. sync' \in SyncType
    <3>1. PICK rs \in {{}, {c}} : sync' = [sync EXCEPT !.resets = sync.resets \cup rs] \/ sync' = sync
        BY <1>3 DEF ResetWrite
    <3>2. rs \subseteq Scopes
        BY <2>1, <3>1
    <3> QED
        BY <3>1, <3>2, <1>f, <1>s DEF SyncType
  <2>8. reset' \in [Admins -> ResetType]
      BY <1>3, <1>f, Values DEF ResetWrite
  <2> HIDE DEF c, base, new
  <2> QED
      BY <1>3, <2>1, <2>4, <2>5, <2>6, <2>7, <2>8, <1>c, <1>f DEF ResetWrite, TypeOK
<1>4. CASE ResetAbandoned(a)
  <2>1. reset' \in [Admins -> ResetType]
      BY <1>4, <1>f, Values DEF ResetAbandoned
  <2> QED
      BY <1>4, <2>1, <1>f DEF ResetAbandoned, TypeOK, historyVars
<1> QED
    BY <1>1, <1>2, <1>3, <1>4 DEF ResetStep

\* Every step of the environment preserves the types.
LEMMA EnvironmentType ==
  ASSUME TypeOK, Environment
  PROVE  TypeOK'
<1>f. /\ counter \in [Scopes -> Counts] /\ carried \in [Scopes -> Counts]
      /\ rows \in [Scopes -> RowType] /\ account \in [Scopes -> AccountType]
      /\ sync \in SyncType /\ reset \in [Admins -> ResetType]
      /\ client \in [sync : ClientKinds, web : ClientKinds] /\ enabled \subseteq Scopes
      /\ endpoint \in [Engines -> Endpoints]
      /\ count \in [bytes : Nat, resets : Nat, faults : Nat]
    BY Fields
<1>s. sync.raw \in [Scopes -> SampleType]
    BY SyncFields
<1>1. ASSUME NEW c \in Clients, NEW d \in Directions, Carry(c, d)
      PROVE  TypeOK'
  <2>1. ASSUME NEW f \in [Scopes -> Counts]
        PROVE  [s \in Scopes |-> IF s \in {c, InboundOf[c]} THEN [f[s] EXCEPT ![d] = @ + 1] ELSE f[s]]
                 \in [Scopes -> Counts]
    <3>1. ASSUME NEW s \in Scopes
          PROVE  [f[s] EXCEPT ![d] = @ + 1] \in Counts /\ f[s] \in Counts
        BY DEF Counts
    <3> QED
        BY <3>1
  <2>2. counter' \in [Scopes -> Counts] /\ carried' \in [Scopes -> Counts]
      BY <1>1, <2>1, <1>f DEF Carry
  <2>3. count' \in [bytes : Nat, resets : Nat, faults : Nat]
      BY <1>1, <1>f DEF Carry
  <2> QED
      BY <1>1, <2>2, <2>3, <1>f DEF Carry, TypeOK
<1>2. ASSUME NEW e \in {"xray", "singbox"}, CoreRestart(e)
      PROVE  TypeOK'
  <2>1. counter' \in [Scopes -> Counts]
      BY <1>2, <1>f, Values DEF CoreRestart
  <2>2. sync' \in SyncType
    <3> DEFINE raw == [s \in Scopes |->
                 [sync.raw[s] EXCEPT !.fresh = @ /\ s \notin EngineScopes(e)]]
    <3>1. ASSUME NEW s \in Scopes
          PROVE  [sync.raw[s] EXCEPT !.fresh = @ /\ s \notin EngineScopes(e)] \in SampleType
        BY <1>s DEF SampleType
    <3>2. raw \in [Scopes -> SampleType] /\ sync' = [sync EXCEPT !.raw = raw]
        BY <1>2, <3>1 DEF CoreRestart
    <3> HIDE DEF raw
    <3> QED
        BY <3>2, <1>f DEF SyncType
  <2>3. reset' \in [Admins -> ResetType]
    <3>1. ASSUME NEW a \in Admins
          PROVE  reset'[a] \in ResetType
      <4> DEFINE b == [reset[a].base EXCEPT !.fresh = @ /\ reset[a].client \notin EngineScopes(e)]
      <4>1. reset'[a] = [reset[a] EXCEPT !.base = b]
          BY <1>2 DEF CoreRestart
      <4>2. reset[a].base \in SampleType
          BY <1>f DEF ResetType
      <4>3. b \in SampleType
          BY <4>2 DEF SampleType
      <4> HIDE DEF b
      <4> QED
          BY <4>1, <4>3, <1>f DEF ResetType
    <3> QED
        BY <1>2, <3>1 DEF CoreRestart
  <2>4. account' \in [Scopes -> AccountType]
    <3>1. ASSUME NEW s \in Scopes
          PROVE  [account[s] EXCEPT !.exact = @ /\ s \notin EngineScopes(e)] \in AccountType
      <4>1. account[s] \in AccountType
          BY <1>f
      <4> QED
          BY <4>1 DEF AccountType
    <3> QED
        BY <1>2, <3>1 DEF CoreRestart
  <2>5. count' \in [bytes : Nat, resets : Nat, faults : Nat]
      BY <1>2, FaultType DEF CoreRestart
  <2> QED
      BY <1>2, <2>1, <2>2, <2>3, <2>4, <2>5, <1>f DEF CoreRestart, TypeOK
<1>3. CASE PanelRestart
  <2>1. client' \in [sync : ClientKinds, web : ClientKinds]
      BY <1>3 DEF PanelRestart, StartClients, ClientKinds
  <2>2. count' \in [bytes : Nat, resets : Nat, faults : Nat]
      BY <1>3, FaultType DEF PanelRestart
  <2>3. sync' \in SyncType /\ reset' \in [Admins -> ResetType]
      BY <1>3, Values DEF PanelRestart
  <2> QED
      BY <1>3, <2>1, <2>2, <2>3, <1>f DEF PanelRestart, TypeOK, historyVars
<1>4. ASSUME NEW s \in Scopes, Toggle(s)
      PROVE  TypeOK'
  <2>1. count' \in [bytes : Nat, resets : Nat, faults : Nat]
      BY <1>4, FaultType DEF Toggle
  <2> QED
      BY <1>4, <2>1, <1>f DEF Toggle, TypeOK, historyVars
<1>5. ASSUME NEW e \in {"xray", "singbox"}, NEW how \in Endpoints, EndpointChanges(e, how)
      PROVE  TypeOK'
  <2>1. count' \in [bytes : Nat, resets : Nat, faults : Nat]
      BY <1>5, FaultType DEF EndpointChanges
  <2>2. endpoint' \in [Engines -> Endpoints]
      BY <1>5, <1>f DEF EndpointChanges
  <2> QED
      BY <1>5, <2>1, <2>2, <1>f DEF EndpointChanges, TypeOK, historyVars
<1> QED
    BY <1>1, <1>2, <1>3, <1>4, <1>5 DEF Environment

-----------------------------------------------------------------------------
(* The inductive invariant of the counts *)

\* What a counter read as x tells of the one now: the counter has grown by no
\* more than the scope has carried since, and by just that if its core has been
\* running.
Bounds(x, s) == x.got => \A d \in Directions :
    /\ x.at[d] <= carried[s][d] /\ x.value[d] <= x.at[d]
    /\ counter[s][d] + x.at[d] <= carried[s][d] + x.value[d]
    /\ x.fresh => counter[s][d] + x.at[d] = carried[s][d] + x.value[d]

\* The sync's counter x and the baseline b of reset a of the same scope.
Ordered(x, b, a) == \A d \in Directions :
    /\ a \notin x.newer => x.at[d] >= b.at[d] /\ x.value[d] + b.at[d] <= x.at[d] + b.value[d]
    /\ a \in x.newer => (x.fresh /\ x.at = b.at => x.value[d] <= b.value[d])

\* A row whose account is not spoilt counts no more than what was carried from
\* the reset to the last sample, and no later counter exceeds its last one by
\* more than what was carried in between, unless there is none.
Kept(s) ==
    /\ account[s].blind => MissingBaseline(rows[s])
    /\ \A d \in Directions :
        /\ rows[s].total[d] + account[s].since[d] <= account[s].seen[d]
        /\ account[s].seen[d] <= carried[s][d]
        /\ \/ account[s].blind
           \/ counter[s][d] + account[s].seen[d] <= carried[s][d] + rows[s].lastRaw[d]

\* The same of the counter x that the sync has in hand.
Fits(x, s) == x.got => \A d \in Directions :
    /\ x.at[d] >= account[s].seen[d]
    /\ account[s].blind \/ x.value[d] + account[s].seen[d] <= x.at[d] + rows[s].lastRaw[d]

Counting == \A s \in Scopes : \A d \in Directions : counter[s][d] <= carried[s][d]
Reading == \A s \in Scopes : Bounds(sync.raw[s], s)
Based == \A a \in Admins : Bounds(reset[a].base, reset[a].client)
Ordering == \A a \in Admins :
    reset[a].base.got /\ sync.raw[reset[a].client].got =>
        Ordered(sync.raw[reset[a].client], reset[a].base, a)
Keeping == \A s \in Scopes : account[s].spoilt = "no" => Kept(s) /\ Fits(sync.raw[s], s)

CountInv == TypeOK /\ Asking /\ Counting /\ Reading /\ Based /\ Ordering /\ Keeping

\* The numbers of the invariant.
LEMMA Numbers ==
  ASSUME TypeOK, NEW s \in Scopes, NEW d \in Directions
  PROVE  /\ counter[s][d] \in Nat /\ carried[s][d] \in Nat
         /\ rows[s].total[d] \in Nat /\ rows[s].lastRaw[d] \in Nat
         /\ account[s].since[d] \in Nat /\ account[s].seen[d] \in Nat
         /\ sync.raw[s].value[d] \in Nat /\ sync.raw[s].at[d] \in Nat
<1>1. /\ counter[s] \in Counts /\ carried[s] \in Counts
      /\ rows[s] \in RowType /\ account[s] \in AccountType /\ sync.raw[s] \in SampleType
    BY Fields, SyncFields
<1>2. /\ rows[s].total \in Counts /\ rows[s].lastRaw \in Counts
      /\ account[s].since \in Counts /\ account[s].seen \in Counts
      /\ sync.raw[s].value \in Counts /\ sync.raw[s].at \in Counts
    BY <1>1 DEF RowType, AccountType, SampleType
<1> QED
    BY <1>1, <1>2 DEF Counts

\* The numbers of a reset's baseline.
LEMMA BaseNumbers ==
  ASSUME TypeOK, NEW a \in Admins, NEW d \in Directions
  PROVE  reset[a].base.value[d] \in Nat /\ reset[a].base.at[d] \in Nat
<1>1. reset[a].base \in SampleType
    BY Fields DEF ResetType
<1>2. reset[a].base.value \in Counts /\ reset[a].base.at \in Counts
    BY <1>1 DEF SampleType
<1> QED
    BY <1>2 DEF Counts

\* A baseline is one of a followed client.
LEMMA BaseScope ==
  ASSUME Asking, NEW a \in Admins, reset[a].base.got
  PROVE  reset[a].client \in Scopes
BY DEF Asking, Asked, Scopes

\* Steps that only drop counters which the sync has in hand.
LEMMA Dropped ==
  ASSUME CountInv, TypeOK', UNCHANGED <<counter, carried, rows, account, reset>>,
         \A s \in Scopes : sync'.raw[s] = sync.raw[s] \/ ~sync'.raw[s].got
  PROVE  CountInv'
<1>1. Asking' /\ Counting' /\ Based'
    BY DEF CountInv, Asking, Asked, Counting, Based, Bounds
<1>2. Reading'
    BY DEF CountInv, Reading, Bounds
<1>3. Ordering'
    BY BaseScope DEF CountInv, Ordering, Ordered
<1>4. Keeping'
    BY DEF CountInv, Keeping, Kept, Fits, MissingBaseline
<1> QED
    BY <1>1, <1>2, <1>3, <1>4 DEF CountInv

\* Steps that mark rows as without a sample.
LEMMA MarkedKeeps ==
  ASSUME CountInv, TypeOK', UNCHANGED <<counter, carried, reset>>, sync'.raw = sync.raw,
         account' = Hide(rows'),
         \A s \in Scopes : rows'[s].total = rows[s].total /\ rows'[s].lastRaw = rows[s].lastRaw
  PROVE  CountInv'
<1>1. Asking' /\ Counting' /\ Based' /\ Reading' /\ Ordering'
    BY DEF CountInv, Asking, Asked, Counting, Based, Reading, Bounds, Ordering, Ordered
<1>2. ASSUME NEW s \in Scopes, account'[s].spoilt = "no"
      PROVE  /\ account'[s] = account[s] /\ account[s].spoilt = "no"
             /\ account[s].blind => MissingBaseline(rows'[s])
    <2>1. account[s] \in AccountType
        BY Fields DEF CountInv
    <2>2. account'[s] = IF account[s].blind /\ account[s].spoilt = "no" /\ ~MissingBaseline(rows'[s])
                        THEN [account[s] EXCEPT !.spoilt = "blind"] ELSE account[s]
        BY DEF Hide
    <2>3. [account[s] EXCEPT !.spoilt = "blind"].spoilt = "blind"
        BY <2>1 DEF AccountType
    <2> QED
        BY <1>2, <2>2, <2>3
<1>3. ASSUME NEW s \in Scopes, account'[s].spoilt = "no"
      PROVE  (Kept(s) /\ Fits(sync.raw[s], s))'
    <2>1. Kept(s) /\ Fits(sync.raw[s], s)
        BY <1>2, <1>3 DEF CountInv, Keeping
    <2>2. MissingBaseline(rows[s])' <=> MissingBaseline(rows'[s])
        BY DEF MissingBaseline
    <2>3. account'[s] = account[s] /\ (account[s].blind => MissingBaseline(rows'[s]))
        BY <1>2, <1>3
    <2> QED
        BY <2>1, <2>2, <2>3 DEF Kept, Fits
<1>4. Keeping'
    BY <1>3 DEF Keeping
<1> QED
    BY <1>1, <1>4 DEF CountInv

\* A counter that is read as it is now.
LEMMA ReadKeeps ==
  ASSUME CountInv, TypeOK', NEW s \in Scopes, ReadCounter(s)
  PROVE  CountInv'
<1>t. TypeOK
    BY DEF CountInv
<1>1. PICK x \in Samples(s) :
        sync' = [sync EXCEPT !.left = @ \ {s}, !.raw[s] = IF x.got THEN x ELSE NoSample]
    BY DEF ReadCounter
<1>2. x.value = counter[s] /\ x.at = carried[s] /\ x.fresh = TRUE /\ x.newer = {}
    BY <1>t, SampleTyped
<1>3. /\ sync'.raw = [sync.raw EXCEPT ![s] = IF x.got THEN x ELSE NoSample]
      /\ sync.raw \in [Scopes -> SampleType]
    BY <1>1, <1>t, Fields, SyncFields DEF SyncType
<1>4. /\ \A o \in Scopes \ {s} : sync'.raw[o] = sync.raw[o]
      /\ sync'.raw[s].got => sync'.raw[s] = x
    BY <1>3 DEF NoSample
<1>u. UNCHANGED <<counter, carried, rows, account, reset>>
    BY DEF ReadCounter, historyVars
<1>5. Asking' /\ Counting' /\ Based'
    BY <1>u DEF CountInv, Asking, Asked, Counting, Based, Bounds
<1>6. Reading'
  <2>1. ASSUME NEW o \in Scopes
        PROVE  Bounds(sync.raw[o], o)'
    <3>1. CASE o = s
      <4>1. ASSUME NEW d \in Directions
            PROVE  counter[s][d] <= carried[s][d] /\ carried[s][d] \in Nat /\ counter[s][d] \in Nat
          BY <1>t, Numbers DEF CountInv, Counting
      <4> QED
          BY <3>1, <4>1, <1>2, <1>4, <1>u DEF Bounds
    <3>2. CASE o # s
        BY <3>2, <1>4, <1>u DEF CountInv, Reading, Bounds
    <3> QED
        BY <3>1, <3>2
  <2> QED
      BY <2>1 DEF Reading
<1>7. Ordering'
  <2>1. ASSUME NEW a \in Admins, reset[a].base.got, sync'.raw[reset[a].client].got
        PROVE  Ordered(sync'.raw[reset[a].client], reset[a].base, a)
    <3>1. reset[a].client \in Scopes
        BY <2>1, BaseScope DEF CountInv
    <3>2. CASE reset[a].client = s
      <4>1. ASSUME NEW d \in Directions
            PROVE  /\ carried[s][d] >= reset[a].base.at[d]
                   /\ counter[s][d] + reset[a].base.at[d] <= carried[s][d] + reset[a].base.value[d]
        <5>1. carried[s][d] \in Nat /\ counter[s][d] \in Nat /\ reset[a].base.at[d] \in Nat
            BY <1>t, Numbers, BaseNumbers
        <5> QED
            BY <5>1, <2>1, <3>2 DEF CountInv, Based, Bounds
      <4> QED
          BY <2>1, <3>2, <4>1, <1>2, <1>4 DEF Ordered
    <3>3. CASE reset[a].client # s
        BY <2>1, <3>1, <3>3, <1>4 DEF CountInv, Ordering
    <3> QED
        BY <3>2, <3>3
  <2> QED
      BY <2>1, <1>u DEF Ordering, Ordered
<1>8. Keeping'
  <2>1. ASSUME NEW o \in Scopes, account[o].spoilt = "no"
        PROVE  Kept(o)' /\ Fits(sync.raw[o], o)'
    <3>1. Kept(o) /\ Fits(sync.raw[o], o)
        BY <2>1 DEF CountInv, Keeping
    <3>2. Kept(o)'
        BY <3>1, <1>u DEF Kept, MissingBaseline
    <3>3. CASE o = s
      <4>1. ASSUME NEW d \in Directions
            PROVE  /\ carried[s][d] >= account[s].seen[d]
                   /\ account[s].blind \/
                        counter[s][d] + account[s].seen[d] <= carried[s][d] + rows[s].lastRaw[d]
        <5>1. carried[s][d] \in Nat /\ account[s].seen[d] \in Nat
            BY <1>t, Numbers
        <5> QED
            BY <5>1, <3>1, <3>3 DEF Kept
      <4> QED
          BY <3>2, <3>3, <4>1, <1>2, <1>4, <1>u DEF Fits
    <3>4. CASE o # s
        BY <3>1, <3>2, <3>4, <1>4, <1>u DEF Fits
    <3> QED
        BY <3>3, <3>4
  <2> QED
      BY <2>1, <1>u DEF Keeping
<1> QED
    BY <1>5, <1>6, <1>7, <1>8 DEF CountInv

\* What Apply does to a row and its account.
LEMMA AppliedRow ==
  ASSUME TypeOK, NEW s \in Scopes
  PROVE  /\ ~sync.raw[s].got => AppliedRows[s] = rows[s]
         /\ sync.raw[s].got =>
              /\ AppliedRows[s].lastRaw = sync.raw[s].value
              /\ Accounted(s, AppliedRows).since = account[s].since
              /\ Accounted(s, AppliedRows).seen = sync.raw[s].at
              /\ Accounted(s, AppliedRows).blind = FALSE
              /\ Accounted(s, AppliedRows).spoilt = "no" =>
                   /\ account[s].spoilt = "no"
                   /\ \A d \in Directions : AppliedRows[s].total[d] <=
                          rows[s].total[d] + Delta(rows[s], sync.raw[s].value)[d]
<1> DEFINE x == sync.raw[s]
           one == SampledRows[s]
           t == AppliedRows
           a == [account[s] EXCEPT !.seen = x.at, !.blind = FALSE]
           b == [d \in Directions |-> x.at[d] - rows[s].total[d]]
<1>1. /\ rows[s] \in RowType /\ x \in SampleType /\ account[s] \in AccountType
      /\ x.value \in Counts /\ x.at \in Counts
    BY Fields, SyncFields DEF SampleType
<1>2. ~x.got => AppliedRows[s] = rows[s]
    BY DEF AppliedRows, Reconciled, Polluted, SampledRows, Got
<1>3. ASSUME x.got
      PROVE  /\ t[s].lastRaw = x.value
             /\ Accounted(s, t).since = account[s].since /\ Accounted(s, t).seen = x.at
             /\ Accounted(s, t).blind = FALSE
             /\ Accounted(s, t).spoilt = "no" =>
                  /\ account[s].spoilt = "no"
                  /\ \A d \in Directions : t[s].total[d] <= rows[s].total[d] + Delta(rows[s], x.value)[d]
  <2>1. one = Sampled(rows[s], x.value, s \notin sync.resets)
      BY <1>3 DEF SampledRows, Got
  <2>2. /\ one \in RowType /\ one.status = "ok" /\ one.lastRaw = x.value
        /\ \A d \in Directions : one.total[d] = rows[s].total[d] + Delta(rows[s], x.value)[d]
    <3> DEFINE later == s \notin sync.resets
    <3>1. later \in BOOLEAN
        OBVIOUS
    <3> HIDE DEF later, one, x
    <3>2. one = Sampled(rows[s], x.value, later)
        BY <2>1 DEF later, one, x
    <3> QED
        BY <1>1, <3>1, <3>2, SampledTyped
  <2>3. /\ a \in AccountType /\ a.since = account[s].since /\ a.seen = x.at /\ a.blind = FALSE
        /\ a.spoilt = account[s].spoilt
    <3> HIDE DEF x
    <3> QED
        BY <1>1 DEF AccountType
  <2>4. CASE Polluted(SampledRows, sync.raw, s)
    <3>1. t[s] = [one EXCEPT !.total = SampledRows[InboundOf[s]].total, !.window = FALSE,
                             !.status = "partial"]
        BY <2>4 DEF AppliedRows, Reconciled
    <3>2. t[s].status = "partial" /\ t[s].lastRaw = x.value
        BY <2>2, <3>1 DEF RowType
    <3>3. Accounted(s, t) =
            [a EXCEPT !.exact = FALSE, !.spoilt = IF Raised(s, t) THEN "raised" ELSE a.spoilt]
        BY <3>2 DEF Accounted
    <3> HIDE DEF a
    <3>4. /\ Accounted(s, t).since = a.since /\ Accounted(s, t).seen = a.seen
          /\ Accounted(s, t).blind = a.blind
          /\ Accounted(s, t).spoilt = IF Raised(s, t) THEN "raised" ELSE a.spoilt
        BY <2>3, <3>3 DEF AccountType
    <3>5. t[s].total \in Counts /\ rows[s].total \in Counts /\ Delta(rows[s], x.value) \in Counts
        BY <1>1, AppliedTyped, DeltaTyped DEF RowType
    <3>6. ASSUME ~Raised(s, t), NEW d \in Directions
          PROVE  t[s].total[d] <= rows[s].total[d] + Delta(rows[s], x.value)[d]
      <4>1. ~(t[s].total[d] > rows[s].total[d] + Delta(rows[s], x.value)[d])
          BY <3>6 DEF Raised
      <4>2. t[s].total[d] \in Nat /\ rows[s].total[d] \in Nat /\ Delta(rows[s], x.value)[d] \in Nat
          BY <3>5 DEF Counts
      <4> HIDE DEF t, x
      <4> QED
          BY <4>1, <4>2
    <3> QED
        BY <2>3, <3>2, <3>4, <3>6
  <2>5. CASE ~Polluted(SampledRows, sync.raw, s)
    <3>1. t[s] = one
        BY <2>5 DEF AppliedRows, Reconciled
    <3>2. Accounted(s, t) = [a EXCEPT !.exact = x.fresh, !.base = b]
          \/ Accounted(s, t) = [a EXCEPT !.exact = a.exact /\ x.fresh]
        BY <2>2, <3>1 DEF Accounted
    <3>3. one.total \in Counts
        BY <2>2 DEF RowType
    <3>4. \A d \in Directions : one.total[d] <= rows[s].total[d] + Delta(rows[s], x.value)[d]
      <4>1. ASSUME NEW d \in Directions
            PROVE  one.total[d] <= rows[s].total[d] + Delta(rows[s], x.value)[d]
        <5>1. one.total[d] \in Nat /\ one.total[d] = rows[s].total[d] + Delta(rows[s], x.value)[d]
            BY <2>2, <3>3 DEF Counts
        <5> HIDE DEF one
        <5> QED
            BY <5>1
      <4> QED
          BY <4>1
    <3> HIDE DEF a, b
    <3>5. /\ Accounted(s, t).since = a.since /\ Accounted(s, t).seen = a.seen
          /\ Accounted(s, t).blind = a.blind /\ Accounted(s, t).spoilt = a.spoilt
        BY <2>3, <3>2 DEF AccountType
    <3> QED
        BY <2>2, <2>3, <3>1, <3>4, <3>5
  <2> QED
      BY <2>4, <2>5
<1> QED
    BY <1>2, <1>3

\* The write of a sync's samples.
LEMMA ApplyKeeps ==
  ASSUME CountInv, TypeOK', Apply
  PROVE  CountInv'
<1>t. TypeOK
    BY DEF CountInv
<1>n. \A s \in Scopes : ~sync'.raw[s].got
    BY DEF Apply, NoSync, NoSamples, NoSample
<1>1. CASE UNCHANGED <<rows, account>>
    BY <1>1, <1>n, Dropped DEF Apply
<1>2. CASE /\ rows' = AppliedRows
           /\ account' = [s \in Scopes |->
                 IF s \in Got(sync.raw) THEN Accounted(s, AppliedRows) ELSE account[s]]
  <2>u. UNCHANGED <<counter, carried, reset>>
      BY DEF Apply
  <2>1. Asking' /\ Counting' /\ Based' /\ Reading'
      BY <1>n, <2>u DEF CountInv, Asking, Asked, Counting, Based, Reading, Bounds
  <2>2. Ordering'
      BY <1>n, <2>u, BaseScope DEF CountInv, Ordering
  <2>3. ASSUME NEW s \in Scopes, account'[s].spoilt = "no"
        PROVE  Kept(s)'
    <3>1. CASE ~sync.raw[s].got
      <4>1. rows'[s] = rows[s] /\ account'[s] = account[s]
          BY <1>t, <1>2, <3>1, AppliedRow DEF Got
      <4> QED
          BY <2>3, <2>u, <4>1 DEF CountInv, Keeping, Kept, MissingBaseline
    <3>2. CASE sync.raw[s].got
      <4> DEFINE x == sync.raw[s]
                 u == Delta(rows[s], x.value)
      <4>1. /\ rows'[s].lastRaw = x.value /\ account'[s].since = account[s].since
            /\ account'[s].seen = x.at /\ account'[s].blind = FALSE
            /\ account[s].spoilt = "no"
            /\ \A d \in Directions : rows'[s].total[d] <= rows[s].total[d] + u[d]
          BY <1>t, <1>2, <2>3, <3>2, AppliedRow DEF Got
      <4>2. Kept(s) /\ Fits(x, s) /\ Bounds(x, s)
          BY <4>1 DEF CountInv, Keeping, Reading
      <4>3. rows[s] \in RowType /\ x.value \in Counts
          BY <1>t, Fields, SyncFields DEF SampleType
      <4>4. ASSUME NEW d \in Directions
            PROVE  /\ rows'[s].total[d] + account'[s].since[d] <= account'[s].seen[d]
                   /\ account'[s].seen[d] <= carried'[s][d]
                   /\ counter'[s][d] + account'[s].seen[d] <= carried'[s][d] + rows'[s].lastRaw[d]
        <5>1. /\ rows[s].total[d] \in Nat /\ rows[s].lastRaw[d] \in Nat
              /\ account[s].since[d] \in Nat /\ account[s].seen[d] \in Nat
              /\ x.value[d] \in Nat /\ x.at[d] \in Nat
            BY <1>t, Numbers
        <5>2. rows'[s].total[d] \in Nat
            BY Fields, <1>t, AppliedTyped, <1>2 DEF RowType, Counts
        <5>3. u[d] = IF Unsampled(rows[s]) \/ x.value[d] < rows[s].lastRaw[d] THEN 0
                     ELSE x.value[d] - rows[s].lastRaw[d]
            BY <4>3, DeltaTyped
        <5>4. /\ rows[s].total[d] + account[s].since[d] <= account[s].seen[d]
              /\ x.at[d] >= account[s].seen[d]
              /\ Unsampled(rows[s]) \/ x.value[d] + account[s].seen[d] <= x.at[d] + rows[s].lastRaw[d]
            BY <3>2, <4>2 DEF Kept, Fits, Unsampled
        <5>5. x.at[d] <= carried[s][d] /\ counter[s][d] + x.at[d] <= carried[s][d] + x.value[d]
            BY <3>2, <4>2 DEF Bounds
        <5> HIDE DEF x, u
        <5>6. rows[s].total[d] + u[d] + account[s].since[d] <= x.at[d]
            BY <5>1, <5>3, <5>4
        <5>7. u[d] \in Nat
            BY <5>1, <5>3
        <5> QED
            BY <2>u, <4>1, <5>1, <5>2, <5>5, <5>6, <5>7
      <4> QED
          BY <4>1, <4>4 DEF Kept
    <3> QED
        BY <3>1, <3>2
  <2>4. Keeping'
      BY <1>n, <2>3 DEF Keeping, Fits
  <2> QED
      BY <2>1, <2>2, <2>4 DEF CountInv
<1> QED
    BY <1>1, <1>2 DEF Apply, AppliedRows, SampledRows

\* A reset that begins.
LEMMA BeginKeeps ==
  ASSUME CountInv, TypeOK', NEW a \in Admins, NEW c \in Clients, ResetBegin(a, c)
  PROVE  CountInv'
<1>t. TypeOK
    BY DEF CountInv
<1>1. /\ reset' = [reset EXCEPT ![a] = [NoReset EXCEPT !.pc = "query", !.client = c]]
      /\ reset \in [Admins -> ResetType]
    BY <1>t, Fields DEF ResetBegin
<1>2. /\ \A o \in Admins \ {a} : reset'[o] = reset[o]
      /\ reset'[a].pc = "query" /\ reset'[a].client = c
      /\ ~reset'[a].base.got /\ reset'[a].base.value = Zero
    BY <1>1 DEF NoReset, NoSample
<1>u. UNCHANGED <<counter, carried, rows, account, sync>>
    BY DEF ResetBegin, historyVars
<1>3. Asking'
    BY <1>2 DEF CountInv, Asking, Asked
<1>4. Counting' /\ Reading' /\ Keeping'
    BY <1>u DEF CountInv, Counting, Reading, Bounds, Keeping, Kept, Fits, MissingBaseline
<1>5. Based' /\ Ordering'
    BY <1>2, <1>u DEF CountInv, Based, Bounds, Ordering, Ordered
<1> QED
    BY <1>3, <1>4, <1>5 DEF CountInv

\* A reset that asks the cores for its baseline.
LEMMA QueryKeeps ==
  ASSUME CountInv, TypeOK', NEW a \in Admins, ResetQuery(a)
  PROVE  CountInv'
<1> DEFINE c == reset[a].client
<1>t. TypeOK
    BY DEF CountInv
<1>c. c \in Clients /\ c \in Scopes
    BY DEF CountInv, Asking, Asked, ResetQuery, Scopes
<1>u. UNCHANGED <<counter, carried, rows, account>>
    BY DEF ResetQuery, historyVars
<1>0. reset \in [Admins -> ResetType]
    BY <1>t, Fields
<1>1. /\ \A o \in Admins \ {a} : reset'[o] = reset[o]
      /\ reset'[a].pc = "write" /\ reset'[a].client = c
      /\ ~reset'[a].base.got => reset'[a].base.value = Zero
      /\ reset'[a].base.got =>
            reset'[a].base.value = counter[c] /\ reset'[a].base.at = carried[c]
  <2>1. CASE reset' = [reset EXCEPT ![a].pc = "write"]
    <3>1. ~reset[a].base.got /\ reset[a].base.value = Zero
        BY DEF CountInv, Asking, Asked, ResetQuery
    <3> QED
        BY <1>0, <2>1, <3>1 DEF ResetType
  <2>2. CASE ~(reset' = [reset EXCEPT ![a].pc = "write"])
    <3>1. PICK x \in Samples(c) :
            reset' = [reset EXCEPT ![a].pc = "write", ![a].base = IF x.got THEN x ELSE NoSample]
        BY <2>2 DEF ResetQuery
    <3> DEFINE b == IF x.got THEN x ELSE NoSample
               v == [reset[a] EXCEPT !.pc = "write", !.base = b]
    <3>2. reset' = [reset EXCEPT ![a] = v]
        BY <3>1
    <3>3. /\ ~b.got => b.value = Zero
          /\ b.got => b.value = counter[c] /\ b.at = carried[c]
        BY <1>t, <1>c, SampleTyped DEF NoSample
    <3> HIDE DEF b
    <3>4. v.pc = "write" /\ v.client = c /\ v.base = b
        BY <1>0 DEF ResetType
    <3> HIDE DEF v, c
    <3> QED
        BY <1>0, <3>2, <3>3, <3>4
  <2> QED
      BY <2>1, <2>2
<1>2. /\ \A s \in Scopes \ {c} : sync'.raw[s] = sync.raw[s]
      /\ sync'.raw[c].got = sync.raw[c].got /\ sync'.raw[c].value = sync.raw[c].value
      /\ sync'.raw[c].at = sync.raw[c].at /\ sync'.raw[c].fresh = sync.raw[c].fresh
      /\ sync.raw[c].got => sync'.raw[c].newer = sync.raw[c].newer \cup {a}
  <2> DEFINE x == [sync.raw[c] EXCEPT !.newer = IF sync.raw[c].got THEN sync.raw[c].newer \cup {a}
                                                ELSE sync.raw[c].newer]
  <2>1. sync' = [sync EXCEPT !.raw[c] = x] /\ sync \in SyncType
      BY <1>t, Fields DEF ResetQuery
  <2>2. /\ x.got = sync.raw[c].got /\ x.value = sync.raw[c].value /\ x.at = sync.raw[c].at
        /\ x.fresh = sync.raw[c].fresh
        /\ sync.raw[c].got => x.newer = sync.raw[c].newer \cup {a}
      BY <1>t, <1>c, SyncFields DEF SampleType
  <2> HIDE DEF x, c
  <2>3. sync'.raw = [sync.raw EXCEPT ![c] = x] /\ sync.raw \in [Scopes -> SampleType]
      BY <2>1, <1>t, SyncFields DEF SyncType
  <2> QED
      BY <2>2, <2>3, <1>c
<1> HIDE DEF c
<1>d. c = reset[a].client
    BY DEF c
<1>3. Asking'
    BY <1>1, <1>c DEF CountInv, Asking, Asked
<1>4. Counting' /\ Reading'
    BY <1>2, <1>u DEF CountInv, Counting, Reading, Bounds
<1>5. ASSUME NEW d \in Directions
      PROVE  /\ carried[c][d] \in Nat /\ counter[c][d] \in Nat /\ counter[c][d] <= carried[c][d]
             /\ sync.raw[c].value[d] \in Nat /\ sync.raw[c].at[d] \in Nat
    BY <1>t, <1>c, Numbers DEF CountInv, Counting
<1>6. Based'
  <2>1. reset'[a].base.got => Bounds(reset'[a].base, c)
      BY <1>1, <1>5 DEF Bounds
  <2> QED
      BY <2>1, <1>1, <1>u DEF CountInv, Based, Bounds
<1>7. Ordering'
  <2>1. ASSUME NEW o \in Admins, reset'[o].base.got, sync'.raw[reset'[o].client].got
        PROVE  Ordered(sync'.raw[reset'[o].client], reset'[o].base, o)
    <3>1. CASE o = a
      <4>1. /\ reset'[a].client = c /\ sync.raw[c].got /\ a \in sync'.raw[c].newer
            /\ reset'[a].base.value = counter[c] /\ reset'[a].base.at = carried[c]
          BY <2>1, <3>1, <1>1, <1>2
      <4>2. ASSUME NEW d \in Directions, sync.raw[c].fresh, sync.raw[c].at = carried[c]
            PROVE  sync.raw[c].value[d] <= counter[c][d]
        <5>1. counter[c][d] + sync.raw[c].at[d] = carried[c][d] + sync.raw[c].value[d]
            BY <4>1, <4>2, <1>c DEF CountInv, Reading, Bounds
        <5>2. sync.raw[c].at[d] = carried[c][d]
            BY <4>2
        <5> QED
            BY <5>1, <5>2, <1>5
      <4> QED
          BY <3>1, <4>1, <4>2, <1>2 DEF Ordered
    <3>2. CASE o # a
      <4>1. reset'[o] = reset[o]
          BY <3>2, <1>1
      <4>2. reset[o].base.got /\ reset[o].client \in Scopes
          BY <2>1, <4>1, BaseScope DEF CountInv
      <4>3. sync.raw[reset[o].client].got
          BY <2>1, <4>1, <4>2, <1>2
      <4>4. Ordered(sync.raw[reset[o].client], reset[o].base, o)
          BY <4>2, <4>3 DEF CountInv, Ordering
      <4>5. CASE reset[o].client = c
        <5>1. o \in sync'.raw[c].newer <=> o \in sync.raw[c].newer
            BY <3>2, <4>3, <4>5, <1>2
        <5> QED
            BY <4>1, <4>4, <4>5, <5>1, <1>2 DEF Ordered
      <4>6. CASE reset[o].client # c
          BY <4>1, <4>2, <4>4, <4>6, <1>2
      <4> QED
          BY <4>5, <4>6
    <3> QED
        BY <3>1, <3>2
  <2> QED
      BY <2>1 DEF Ordering, Ordered
<1>8. Keeping'
  <2>1. ASSUME NEW s \in Scopes, account[s].spoilt = "no"
        PROVE  Kept(s)' /\ Fits(sync.raw[s], s)'
    <3>1. Kept(s) /\ Fits(sync.raw[s], s)
        BY <2>1 DEF CountInv, Keeping
    <3>2. /\ sync'.raw[s].got = sync.raw[s].got /\ sync'.raw[s].value = sync.raw[s].value
          /\ sync'.raw[s].at = sync.raw[s].at
        BY <1>2
    <3> QED
        BY <3>1, <3>2, <1>u DEF Kept, Fits, MissingBaseline
  <2> QED
      BY <2>1, <1>u DEF Keeping
<1> QED
    BY <1>3, <1>4, <1>6, <1>7, <1>8 DEF CountInv

\* A reset that writes.
LEMMA WriteKeeps ==
  ASSUME CountInv, TypeOK', NEW a \in Admins, ResetWrite(a)
  PROVE  CountInv'
<1>t. TypeOK
    BY DEF CountInv
<1>c. PICK c \in Scopes : c = reset[a].client
    BY DEF CountInv, Asking, Asked, ResetWrite, Scopes
<1> DEFINE base == reset[a].base
           at == IF base.got THEN base.at ELSE carried[c]
           late == Late(a, c, at)
<1>1. /\ \A o \in Admins \ {a} : reset'[o] = reset[o]
      /\ reset'[a].pc = "idle" /\ ~reset'[a].base.got /\ reset'[a].base.value = Zero
  <2>1. reset' = [reset EXCEPT ![a] = NoReset] /\ reset \in [Admins -> ResetType]
      BY <1>t, Fields DEF ResetWrite
  <2> QED
      BY <2>1 DEF NoReset, NoSample
<1>2. sync'.raw = sync.raw
  <2>1. sync \in SyncType
      BY <1>t, Fields
  <2>2. sync' = sync \/ \E rs : sync' = [sync EXCEPT !.resets = sync.resets \cup rs]
      BY DEF ResetWrite
  <2> QED
      BY <2>1, <2>2 DEF SyncType
<1>3. \/ UNCHANGED <<rows, account>>
      \/ /\ rows' = [rows EXCEPT ![c] = ResetRow(base)]
         /\ account' = [account EXCEPT ![c] =
              [since |-> at, base |-> at, seen |-> at, exact |-> base.fresh /\ ~late,
               blind |-> ~base.got, spoilt |-> IF late THEN "late" ELSE "no"]]
    BY <1>c DEF ResetWrite
<1>u. UNCHANGED <<counter, carried>>
    BY DEF ResetWrite
<1>4. Asking'
    BY <1>1 DEF CountInv, Asking, Asked
<1>5. Counting' /\ Reading'
    BY <1>2, <1>u DEF CountInv, Counting, Reading, Bounds
<1>6. Based' /\ Ordering'
    BY <1>1, <1>2, <1>u DEF CountInv, Based, Bounds, Ordering, Ordered
<1>7. ASSUME NEW s \in Scopes, account'[s].spoilt = "no",
             rows'[s] = rows[s], account'[s] = account[s]
      PROVE  Kept(s)' /\ Fits(sync.raw[s], s)'
    BY <1>2, <1>7, <1>u DEF CountInv, Keeping, Kept, Fits, MissingBaseline
<1>8. ASSUME rows' = [rows EXCEPT ![c] = ResetRow(base)],
             account' = [account EXCEPT ![c] =
               [since |-> at, base |-> at, seen |-> at, exact |-> base.fresh /\ ~late,
                blind |-> ~base.got, spoilt |-> IF late THEN "late" ELSE "no"]],
             account'[c].spoilt = "no"
      PROVE  Kept(c)' /\ Fits(sync.raw[c], c)'
  <2> DEFINE x == sync.raw[c]
  <2>1. /\ rows'[c] = ResetRow(base) /\ ~late
        /\ account'[c].since = at /\ account'[c].seen = at /\ (account'[c].blind <=> ~base.got)
      BY <1>8, <1>t, Fields
  <2>2. /\ rows'[c].total = Zero /\ rows'[c].lastRaw = base.value
        /\ ~base.got => MissingBaseline(rows'[c])
    <3>1. ~base.got => base.value = Zero
        BY <1>c DEF CountInv, Asking, Asked
    <3> HIDE DEF base
    <3>2. /\ ResetRow(base).total = Zero /\ ResetRow(base).lastRaw = base.value
          /\ ResetRow(base).window = FALSE /\ ResetRow(base).message = "baseline"
          /\ ~base.got => ResetRow(base).status = "unavailable"
        BY DEF ResetRow, NoRow
    <3> QED
        BY <2>1, <3>1, <3>2 DEF MissingBaseline
  <2>3. Bounds(base, c) /\ Bounds(x, c) /\ (base.got /\ x.got => Ordered(x, base, a))
      BY <1>c DEF CountInv, Based, Reading, Ordering
  <2>4. ~late
      BY <2>1
  <2>5. x.got => (x.at = at /\ x.fresh) \/ (base.got /\ a \notin x.newer)
    <3>1. late = (x.got /\ (x.at # at \/ ~x.fresh) /\ (a \in x.newer \/ ~base.got))
        BY DEF Late
    <3> QED
        BY <2>4, <3>1
  <2>6. base.got => at = base.at
      OBVIOUS
  <2>7. ~base.got => at = carried[c]
      OBVIOUS
  <2> HIDE DEF late, at, base, x
  <2>8. ASSUME NEW d \in Directions
        PROVE  /\ counter[c][d] \in Nat /\ carried[c][d] \in Nat
               /\ base.value[d] \in Nat /\ base.at[d] \in Nat
               /\ x.value[d] \in Nat /\ x.at[d] \in Nat
      BY <1>t, <1>c, Numbers, BaseNumbers DEF base, x
  <2>9. Kept(c)'
    <3>1. ASSUME NEW d \in Directions
          PROVE  /\ Zero[d] + at[d] <= at[d] /\ at[d] <= carried[c][d]
                 /\ base.got => counter[c][d] + at[d] <= carried[c][d] + base.value[d]
      <4>1. CASE base.got
          BY <2>3, <2>6, <2>8, <4>1 DEF Bounds, Zero
      <4>2. CASE ~base.got
          BY <2>7, <2>8, <4>2 DEF Zero
      <4> QED
          BY <4>1, <4>2
    <3>2. MissingBaseline(rows[c])' <=> MissingBaseline(rows'[c])
        BY DEF MissingBaseline
    <3>3. /\ account'[c].since = at /\ account'[c].seen = at /\ rows'[c].total = Zero
          /\ rows'[c].lastRaw = base.value /\ counter' = counter /\ carried' = carried
        BY <2>1, <2>2, <1>u
    <3>4. /\ account'[c].blind => MissingBaseline(rows[c])'
          /\ account'[c].blind \/ base.got
        BY <2>1, <2>2, <3>2
    <3> QED
        BY <3>1, <3>3, <3>4 DEF Kept
  <2>10. ASSUME x.got, NEW d \in Directions
         PROVE  /\ x.at[d] >= at[d]
                /\ base.got => x.value[d] + at[d] <= x.at[d] + base.value[d]
    <3>1. CASE base.got /\ a \notin x.newer
        BY <2>3, <2>6, <2>10, <3>1 DEF Ordered
    <3>2. CASE base.got /\ a \in x.newer
      <4>1. x.at = at /\ x.fresh /\ at = base.at
          BY <2>5, <2>6, <2>10, <3>2
      <4>2. x.value[d] <= base.value[d]
          BY <2>3, <2>10, <3>2, <4>1 DEF Ordered
      <4> QED
          BY <4>1, <4>2, <2>8
    <3>3. CASE ~base.got
      <4>1. x.at = at
          BY <2>5, <2>10, <3>3
      <4> QED
          BY <3>3, <4>1, <2>8
    <3> QED
        BY <3>1, <3>2, <3>3
  <2>11. Fits(sync.raw[c], c)'
    <3>1. /\ account'[c].seen = at /\ rows'[c].lastRaw = base.value
          /\ account'[c].blind \/ base.got
        BY <2>1, <2>2
    <3>2. sync'.raw[c] = x
        BY <1>2 DEF x
    <3> QED
        BY <2>10, <3>1, <3>2 DEF Fits
  <2> QED
      BY <2>9, <2>11
<1>9. Keeping'
  <2>1. ASSUME NEW s \in Scopes, account'[s].spoilt = "no"
        PROVE  Kept(s)' /\ Fits(sync.raw[s], s)'
    <3>1. CASE rows'[s] = rows[s] /\ account'[s] = account[s]
        BY <1>7, <2>1, <3>1
    <3>2. CASE ~(rows'[s] = rows[s] /\ account'[s] = account[s])
      <4>1. /\ rows' = [rows EXCEPT ![c] = ResetRow(base)]
            /\ account' = [account EXCEPT ![c] =
                 [since |-> at, base |-> at, seen |-> at, exact |-> base.fresh /\ ~late,
                  blind |-> ~base.got, spoilt |-> IF late THEN "late" ELSE "no"]]
          BY <1>3, <3>2
      <4>2. s = c
          BY <1>t, <3>2, <4>1, Fields
      <4> HIDE DEF base, at, late
      <4>3. account'[c].spoilt = "no"
          BY <2>1, <4>2
      <4>4. Kept(c)' /\ Fits(sync.raw[c], c)'
          BY <1>8, <4>1, <4>3
      <4> QED
          BY <4>2, <4>4
    <3> QED
        BY <3>1, <3>2
  <2> QED
      BY <2>1 DEF Keeping
<1> QED
    BY <1>4, <1>5, <1>6, <1>9 DEF CountInv

\* Traffic is carried.
LEMMA CarryKeeps ==
  ASSUME CountInv, TypeOK', NEW c \in Clients, NEW e \in Directions, Carry(c, e)
  PROVE  CountInv'
<1> DEFINE more(s, d) == IF s \in {c, InboundOf[c]} /\ d = e THEN 1 ELSE 0
<1>t. TypeOK
    BY DEF CountInv
<1>1. ASSUME NEW s \in Scopes, NEW d \in Directions
      PROVE  /\ counter'[s][d] = counter[s][d] + more(s, d)
             /\ carried'[s][d] = carried[s][d] + more(s, d)
             /\ more(s, d) \in {0, 1}
  <2>1. counter[s] \in Counts /\ carried[s] \in Counts
      BY <1>t, Fields
  <2>2. /\ counter'[s] = IF s \in {c, InboundOf[c]}
                         THEN [counter[s] EXCEPT ![e] = counter[s][e] + 1] ELSE counter[s]
        /\ carried'[s] = IF s \in {c, InboundOf[c]}
                         THEN [carried[s] EXCEPT ![e] = carried[s][e] + 1] ELSE carried[s]
      BY DEF Carry
  <2>3. counter[s][d] \in Nat /\ carried[s][d] \in Nat
      BY <1>t, Numbers
  <2> QED
      BY <2>1, <2>2, <2>3 DEF Counts
<1> HIDE DEF more
<1>u. UNCHANGED <<rows, sync, reset, account>>
    BY DEF Carry
<1>2. ASSUME NEW x \in SampleType, NEW s \in Scopes, Bounds(x, s)
      PROVE  x.got => \A d \in Directions :
                /\ x.at[d] <= carried'[s][d] /\ x.value[d] <= x.at[d]
                /\ counter'[s][d] + x.at[d] <= carried'[s][d] + x.value[d]
                /\ x.fresh => counter'[s][d] + x.at[d] = carried'[s][d] + x.value[d]
  <2>1. ASSUME x.got, NEW d \in Directions
        PROVE  /\ x.at[d] <= carried'[s][d] /\ x.value[d] <= x.at[d]
               /\ counter'[s][d] + x.at[d] <= carried'[s][d] + x.value[d]
               /\ x.fresh => counter'[s][d] + x.at[d] = carried'[s][d] + x.value[d]
    <3>1. /\ counter[s][d] \in Nat /\ carried[s][d] \in Nat
          /\ x.at[d] \in Nat /\ x.value[d] \in Nat
        BY <1>t, Numbers DEF SampleType, Counts
    <3>2. /\ x.at[d] <= carried[s][d] /\ x.value[d] <= x.at[d]
          /\ counter[s][d] + x.at[d] <= carried[s][d] + x.value[d]
          /\ x.fresh => counter[s][d] + x.at[d] = carried[s][d] + x.value[d]
        BY <1>2, <2>1 DEF Bounds
    <3> QED
        BY <1>1, <3>1, <3>2
  <2> QED
      BY <2>1
<1>3. Asking' /\ Ordering'
    BY <1>u DEF CountInv, Asking, Asked, Ordering, Ordered
<1>4. Counting'
  <2>1. ASSUME NEW s \in Scopes, NEW d \in Directions
        PROVE  counter'[s][d] <= carried'[s][d]
    <3>1. counter[s][d] \in Nat /\ carried[s][d] \in Nat /\ counter[s][d] <= carried[s][d]
        BY <1>t, Numbers DEF CountInv, Counting
    <3> QED
        BY <1>1, <3>1
  <2> QED
      BY <2>1 DEF Counting
<1>5. Reading'
  <2>1. ASSUME NEW s \in Scopes
        PROVE  sync.raw[s] \in SampleType /\ Bounds(sync.raw[s], s)
      BY <1>t, SyncFields DEF CountInv, Reading
  <2> QED
      BY <1>2, <1>u, <2>1 DEF Reading, Bounds
<1>6. Based'
  <2>1. ASSUME NEW a \in Admins, reset[a].base.got
        PROVE  /\ reset[a].base \in SampleType /\ reset[a].client \in Scopes
               /\ Bounds(reset[a].base, reset[a].client)
      BY <1>t, <2>1, Fields, BaseScope DEF CountInv, Based, ResetType
  <2> QED
      BY <1>2, <1>u, <2>1 DEF Based, Bounds
<1>7. Keeping'
  <2>1. ASSUME NEW s \in Scopes, account[s].spoilt = "no"
        PROVE  Kept(s)' /\ Fits(sync.raw[s], s)'
    <3>1. Kept(s) /\ Fits(sync.raw[s], s)
        BY <2>1 DEF CountInv, Keeping
    <3>2. Fits(sync.raw[s], s)'
        BY <3>1, <1>u DEF Fits
    <3>3. ASSUME NEW d \in Directions
          PROVE  /\ account[s].seen[d] <= carried'[s][d]
                 /\ account[s].blind \/
                      counter'[s][d] + account[s].seen[d] <= carried'[s][d] + rows[s].lastRaw[d]
      <4>1. /\ counter[s][d] \in Nat /\ carried[s][d] \in Nat
            /\ account[s].seen[d] \in Nat /\ rows[s].lastRaw[d] \in Nat
          BY <1>t, Numbers
      <4>2. /\ account[s].seen[d] <= carried[s][d]
            /\ account[s].blind \/
                  counter[s][d] + account[s].seen[d] <= carried[s][d] + rows[s].lastRaw[d]
          BY <3>1 DEF Kept
      <4> QED
          BY <1>1, <4>1, <4>2
    <3>4. Kept(s)'
        BY <3>1, <3>3, <1>u DEF Kept, MissingBaseline
    <3> QED
        BY <3>2, <3>4
  <2> QED
      BY <2>1, <1>u DEF Keeping
<1> QED
    BY <1>3, <1>4, <1>5, <1>6, <1>7 DEF CountInv

\* A core starts anew.
LEMMA CoreRestartKeeps ==
  ASSUME CountInv, TypeOK', NEW e \in {"xray", "singbox"}, CoreRestart(e)
  PROVE  CountInv'
<1>t. TypeOK
    BY DEF CountInv
<1>u. UNCHANGED <<rows, carried>>
    BY DEF CoreRestart
<1>1. ASSUME NEW s \in Scopes
      PROVE  /\ sync'.raw[s].got = sync.raw[s].got /\ sync'.raw[s].value = sync.raw[s].value
             /\ sync'.raw[s].at = sync.raw[s].at /\ sync'.raw[s].newer = sync.raw[s].newer
             /\ sync'.raw[s].fresh => sync.raw[s].fresh /\ s \notin EngineScopes(e)
  <2> DEFINE raw == [o \in Scopes |->
               [sync.raw[o] EXCEPT !.fresh = sync.raw[o].fresh /\ o \notin EngineScopes(e)]]
  <2>1. sync' = [sync EXCEPT !.raw = raw] /\ sync \in SyncType
      BY <1>t, Fields DEF CoreRestart
  <2>2. raw[s] = [sync.raw[s] EXCEPT !.fresh = sync.raw[s].fresh /\ s \notin EngineScopes(e)]
      OBVIOUS
  <2> HIDE DEF raw
  <2>3. sync'.raw = raw
      BY <2>1 DEF SyncType
  <2>4. sync.raw[s] \in SampleType
      BY <1>t, SyncFields
  <2> QED
      BY <2>2, <2>3, <2>4 DEF SampleType
<1>2. ASSUME NEW a \in Admins
      PROVE  /\ reset'[a].pc = reset[a].pc /\ reset'[a].client = reset[a].client
             /\ reset'[a].base.got = reset[a].base.got
             /\ reset'[a].base.value = reset[a].base.value /\ reset'[a].base.at = reset[a].base.at
             /\ reset'[a].base.fresh => reset[a].base.fresh /\ reset[a].client \notin EngineScopes(e)
  <2> DEFINE b == [reset[a].base EXCEPT
               !.fresh = reset[a].base.fresh /\ reset[a].client \notin EngineScopes(e)]
  <2>1. reset'[a] = [reset[a] EXCEPT !.base = b] /\ reset[a] \in ResetType
      BY <1>t, Fields DEF CoreRestart
  <2>2. reset[a].base \in SampleType
      BY <2>1 DEF ResetType
  <2>3. /\ b.got = reset[a].base.got /\ b.value = reset[a].base.value /\ b.at = reset[a].base.at
        /\ b.fresh => reset[a].base.fresh /\ reset[a].client \notin EngineScopes(e)
      BY <2>2 DEF SampleType
  <2> HIDE DEF b
  <2> QED
      BY <2>1, <2>3 DEF ResetType
<1>3. ASSUME NEW s \in Scopes
      PROVE  /\ account'[s].since = account[s].since /\ account'[s].seen = account[s].seen
             /\ account'[s].blind = account[s].blind /\ account'[s].spoilt = account[s].spoilt
  <2>1. account[s] \in AccountType
      BY <1>t, Fields
  <2>2. account'[s] = [account[s] EXCEPT !.exact = account[s].exact /\ s \notin EngineScopes(e)]
      BY DEF CoreRestart
  <2> QED
      BY <2>1, <2>2 DEF AccountType
<1>4. ASSUME NEW s \in Scopes, NEW d \in Directions
      PROVE  /\ counter'[s][d] = IF s \in EngineScopes(e) THEN 0 ELSE counter[s][d]
             /\ counter[s][d] \in Nat /\ carried[s][d] \in Nat
    BY <1>t, Numbers DEF CoreRestart, Zero
<1>5. Asking'
    BY <1>2 DEF CountInv, Asking, Asked
<1>6. Counting'
  <2>1. ASSUME NEW s \in Scopes, NEW d \in Directions
        PROVE  counter'[s][d] <= carried[s][d]
      BY <1>4 DEF CountInv, Counting
  <2> QED
      BY <2>1, <1>u DEF Counting
<1>7. ASSUME NEW x \in SampleType, NEW s \in Scopes, Bounds(x, s), NEW y,
             y.got = x.got, y.value = x.value, y.at = x.at,
             y.fresh => x.fresh /\ s \notin EngineScopes(e)
      PROVE  y.got => \A d \in Directions :
                /\ y.at[d] <= carried[s][d] /\ y.value[d] <= y.at[d]
                /\ counter'[s][d] + y.at[d] <= carried[s][d] + y.value[d]
                /\ y.fresh => counter'[s][d] + y.at[d] = carried[s][d] + y.value[d]
  <2>1. ASSUME x.got, NEW d \in Directions
        PROVE  /\ x.at[d] <= carried[s][d] /\ x.value[d] <= x.at[d]
               /\ counter'[s][d] + x.at[d] <= carried[s][d] + x.value[d]
               /\ x.fresh /\ s \notin EngineScopes(e) =>
                      counter'[s][d] + x.at[d] = carried[s][d] + x.value[d]
    <3>1. x.at[d] \in Nat /\ x.value[d] \in Nat
        BY DEF SampleType, Counts
    <3>2. /\ x.at[d] <= carried[s][d] /\ x.value[d] <= x.at[d]
          /\ counter[s][d] + x.at[d] <= carried[s][d] + x.value[d]
          /\ x.fresh => counter[s][d] + x.at[d] = carried[s][d] + x.value[d]
        BY <1>7, <2>1 DEF Bounds
    <3> QED
        BY <1>4, <3>1, <3>2
  <2> QED
      BY <1>7, <2>1
<1>8. Reading'
  <2>1. ASSUME NEW s \in Scopes
        PROVE  sync.raw[s] \in SampleType /\ Bounds(sync.raw[s], s)
      BY <1>t, SyncFields DEF CountInv, Reading
  <2> QED
      BY <1>1, <1>7, <1>u, <2>1 DEF Reading, Bounds
<1>9. Based'
  <2>1. ASSUME NEW a \in Admins, reset[a].base.got
        PROVE  /\ reset[a].base \in SampleType /\ reset[a].client \in Scopes
               /\ Bounds(reset[a].base, reset[a].client)
      BY <1>t, <2>1, Fields, BaseScope DEF CountInv, Based, ResetType
  <2> QED
      BY <1>2, <1>7, <1>u, <2>1 DEF Based, Bounds
<1>10. Ordering'
  <2>1. ASSUME NEW a \in Admins, reset'[a].base.got, sync'.raw[reset'[a].client].got
        PROVE  Ordered(sync'.raw[reset'[a].client], reset'[a].base, a)
    <3>1. reset[a].base.got /\ reset[a].client \in Scopes
        BY <1>2, <2>1, BaseScope DEF CountInv
    <3>2. Ordered(sync.raw[reset[a].client], reset[a].base, a)
        BY <1>1, <1>2, <2>1, <3>1 DEF CountInv, Ordering
    <3> QED
        BY <1>1, <1>2, <3>1, <3>2 DEF Ordered
  <2> QED
      BY <2>1 DEF Ordering, Ordered
<1>11. Keeping'
  <2>1. ASSUME NEW s \in Scopes, account'[s].spoilt = "no"
        PROVE  Kept(s)' /\ Fits(sync.raw[s], s)'
    <3>1. Kept(s) /\ Fits(sync.raw[s], s)
        BY <1>3, <2>1 DEF CountInv, Keeping
    <3>2. Fits(sync.raw[s], s)'
        BY <3>1, <1>1, <1>3, <1>u DEF Fits
    <3>3. ASSUME NEW d \in Directions
          PROVE  account[s].blind \/
                      counter'[s][d] + account[s].seen[d] <= carried[s][d] + rows[s].lastRaw[d]
      <4>1. account[s].seen[d] \in Nat /\ rows[s].lastRaw[d] \in Nat
          BY <1>t, Numbers
      <4>2. /\ account[s].seen[d] <= carried[s][d]
            /\ account[s].blind \/
                  counter[s][d] + account[s].seen[d] <= carried[s][d] + rows[s].lastRaw[d]
          BY <3>1 DEF Kept
      <4> QED
          BY <1>4, <4>1, <4>2
    <3>4. Kept(s)'
        BY <3>1, <3>3, <1>3, <1>u DEF Kept, MissingBaseline
    <3> QED
        BY <3>2, <3>4
  <2> QED
      BY <2>1 DEF Keeping
<1> QED
    BY <1>5, <1>6, <1>8, <1>9, <1>10, <1>11 DEF CountInv

\* A reset that is abandoned has no baseline yet, and leaves none.
LEMMA AbandonKeeps ==
  ASSUME CountInv, TypeOK', NEW a \in Admins, ResetAbandoned(a)
  PROVE  CountInv'
<1>1. reset \in [Admins -> ResetType]
    BY Fields DEF CountInv
<1>2. /\ \A o \in Admins \ {a} : reset'[o] = reset[o]
      /\ reset'[a].pc = "idle" /\ ~reset'[a].base.got /\ reset'[a].base.value = Zero
      /\ UNCHANGED <<counter, carried, rows, account, sync>>
    BY <1>1 DEF ResetAbandoned, NoReset, NoSample, historyVars
<1>3. Asking' /\ Counting' /\ Reading' /\ Based' /\ Ordering'
    BY <1>2 DEF CountInv, Asking, Asked, Counting, Reading, Based, Bounds, Ordering, Ordered
<1>4. Keeping'
    BY <1>2 DEF CountInv, Keeping, Kept, Fits, MissingBaseline
<1> QED
    BY <1>3, <1>4 DEF CountInv

\* The panel starts anew: nothing is in hand.
LEMMA PanelRestartKeeps ==
  ASSUME CountInv, TypeOK', PanelRestart
  PROVE  CountInv'
<1>1. /\ \A s \in Scopes : ~sync'.raw[s].got
      /\ \A a \in Admins : /\ reset'[a].pc = "idle" /\ ~reset'[a].base.got
                           /\ reset'[a].base.value = Zero
      /\ UNCHANGED <<counter, carried, rows, account>>
    BY DEF PanelRestart, NoSync, NoSamples, NoSample, NoReset, historyVars
<1>2. Asking' /\ Counting' /\ Reading' /\ Based' /\ Ordering'
    BY <1>1 DEF CountInv, Asking, Asked, Counting, Reading, Based, Bounds, Ordering
<1>3. Keeping'
    BY <1>1 DEF CountInv, Keeping, Kept, Fits, MissingBaseline
<1> QED
    BY <1>2, <1>3 DEF CountInv

\* The invariant holds initially.
LEMMA InitCounts == Init => CountInv
<1> SUFFICES ASSUME Init PROVE CountInv
    OBVIOUS
<1>1. TypeOK
  <2>1. /\ counter \in [Scopes -> Counts] /\ carried \in [Scopes -> Counts]
        /\ rows \in [Scopes -> RowType] /\ sync \in SyncType /\ reset \in [Admins -> ResetType]
      BY Values DEF Init
  <2>2. account \in [Scopes -> AccountType]
    <3>1. Zero \in Counts /\ Zero \in [Directions -> Int]
        BY Values DEF Zero
    <3> QED
        BY <3>1 DEF Init, AccountType
  <2>3. client \in [sync : ClientKinds, web : ClientKinds]
      BY DEF Init, StartClients, ClientKinds
  <2>4. enabled \subseteq Scopes /\ count \in [bytes : Nat, resets : Nat, faults : Nat]
      BY DEF Init
  <2>5. endpoint \in [Engines -> Endpoints]
      BY DEF Init, Engines
  <2> QED
      BY <2>1, <2>2, <2>3, <2>4, <2>5 DEF TypeOK
<1>2. /\ \A s \in Scopes : ~sync.raw[s].got
      /\ \A a \in Admins : reset[a].pc = "idle" /\ ~reset[a].base.got /\ reset[a].base.value = Zero
    BY DEF Init, NoSync, NoSamples, NoSample, NoReset
<1>3. ASSUME NEW s \in Scopes, NEW d \in Directions
      PROVE  /\ counter[s][d] = 0 /\ carried[s][d] = 0 /\ rows[s].total[d] = 0
             /\ rows[s].lastRaw[d] = 0 /\ account[s].since[d] = 0 /\ account[s].seen[d] = 0
    BY DEF Init, NoRow, Zero
<1>4. \A s \in Scopes : account[s].blind = FALSE
    BY DEF Init
<1>5. Asking /\ Reading /\ Based /\ Ordering
    BY <1>2 DEF Asking, Asked, Reading, Based, Bounds, Ordering
<1>6. Counting
    BY <1>3 DEF Counting
<1>7. Keeping
    BY <1>2, <1>3, <1>4 DEF Keeping, Kept, Fits
<1> QED
    BY <1>1, <1>5, <1>6, <1>7 DEF CountInv

\* Every step preserves the types.
LEMMA NextType ==
  ASSUME TypeOK, Asking, [Next]_vars
  PROVE  TypeOK'
<1>1. CASE UNCHANGED vars
    BY <1>1 DEF TypeOK, vars, historyVars
<1> QED
    BY <1>1, SyncStepType, ResetStepType, EnvironmentType DEF Next

\* Every step preserves the invariant.
LEMMA NextCounts == CountInv /\ [Next]_vars => CountInv'
<1> SUFFICES ASSUME CountInv, [Next]_vars PROVE CountInv'
    OBVIOUS
<1>t. TypeOK /\ TypeOK' /\ sync \in SyncType
    BY NextType, Fields DEF CountInv
<1>1. CASE SyncBegin
  <2>1. \A s \in Scopes : ~sync'.raw[s].got
      BY <1>1 DEF SyncBegin, NoSync, NoSamples, NoSample
  <2> QED
      BY <1>1, <1>t, <2>1, Dropped DEF SyncBegin, historyVars
<1>2. CASE QueryAnswers
  <2>1. sync'.raw = sync.raw
      BY <1>2, <1>t DEF QueryAnswers, SyncType
  <2> QED
      BY <1>2, <1>t, <2>1, Dropped DEF QueryAnswers, historyVars
<1>3. CASE QueryFails
  <2> DEFINE raw == [s \in Scopes |->
                        IF s \in EngineScopes(sync.engine) THEN NoSample ELSE sync.raw[s]]
  <2>1. PICK m : sync' = [sync EXCEPT !.pc = "mark", !.status = "unavailable",
                                      !.message = m, !.left = {},
                                      !.late = @ \/ Waits(sync.engine, client.sync), !.raw = raw]
      BY <1>3 DEF QueryFails
  <2>2. \A s \in Scopes : raw[s] = sync.raw[s] \/ ~raw[s].got
      BY DEF NoSample
  <2> HIDE DEF raw
  <2>3. sync'.raw = raw
      BY <2>1, <1>t DEF SyncType
  <2> QED
      BY <1>3, <1>t, <2>2, <2>3, Dropped DEF QueryFails, historyVars
<1>4. CASE PickClient
  <2>1. sync'.raw = sync.raw
      BY <1>4, <1>t DEF PickClient, SyncType
  <2> QED
      BY <1>4, <1>t, <2>1, Dropped DEF PickClient, historyVars
<1>5. CASE Mark \/ MarkDown
  <2>1. sync'.raw = sync.raw
      BY <1>5, <1>t DEF Mark, MarkDown, SyncType
  <2>2. ASSUME NEW s \in Scopes
        PROVE  rows'[s].total = rows[s].total /\ rows'[s].lastRaw = rows[s].lastRaw
    <3>1. rows[s] \in RowType
        BY <1>t, Fields
    <3>2. /\ Marked(rows[s], sync.status, sync.message).total = rows[s].total
          /\ Marked(rows[s], sync.status, sync.message).lastRaw = rows[s].lastRaw
        BY <3>1 DEF Marked, RowType
    <3>3. rows'[s] \in {rows[s], Marked(rows[s], sync.status, sync.message)}
        BY <1>5 DEF Mark, MarkDown
    <3> QED
        BY <3>2, <3>3
  <2> QED
      BY <1>5, <1>t, <2>1, <2>2, MarkedKeeps DEF Mark, MarkDown
<1>6. ASSUME NEW s \in Scopes, Toggle(s)
      PROVE  CountInv'
    BY <1>6, <1>t, Dropped DEF Toggle, historyVars
<1>11. ASSUME NEW e \in {"xray", "singbox"}, NEW how \in Endpoints, EndpointChanges(e, how)
       PROVE  CountInv'
    BY <1>11, <1>t, Dropped DEF EndpointChanges, historyVars
<1>7. CASE UNCHANGED vars
    BY <1>7, <1>t, Dropped DEF vars, historyVars
<1>8. CASE SyncStep
    BY <1>8, <1>1, <1>2, <1>3, <1>4, <1>5, <1>t, ApplyKeeps, ReadKeeps DEF SyncStep
<1>9. ASSUME NEW a \in Admins, ResetStep(a)
      PROVE  CountInv'
    BY <1>9, <1>t, BeginKeeps, QueryKeeps, AbandonKeeps, WriteKeeps DEF ResetStep
<1>10. CASE Environment
    BY <1>10, <1>6, <1>11, <1>t, CarryKeeps, CoreRestartKeeps, PanelRestartKeeps DEF Environment
<1> QED
    BY <1>7, <1>8, <1>9, <1>10 DEF Next

\* The invariant holds in every behaviour.
LEMMA CountInvariance == Spec => []CountInv
BY InitCounts, NextCounts, PTL DEF Spec

\* The values of the rows, the counters and the local variables of syncs and
\* resets keep to their types.
THEOREM TypeCorrect == Spec => []TypeOK
<1>1. CountInv => TypeOK
    BY DEF CountInv
<1> QED
    BY <1>1, CountInvariance, PTL

\* No total exceeds what its scope has carried since the last reset, whatever
\* fails or restarts, save for the two orders that CountsOnlySinceReset names.
THEOREM NothingFromBeforeReset == Spec => []CountsOnlySinceReset
<1>1. CountInv => CountsOnlySinceReset
  <2> SUFFICES ASSUME CountInv, NEW s \in Scopes, account[s].spoilt = "no", NEW d \in Directions
               PROVE  rows[s].total[d] <= carried[s][d] - account[s].since[d]
      BY DEF CountsOnlySinceReset, AtMostSinceReset
  <2>1. /\ rows[s].total[d] \in Nat /\ carried[s][d] \in Nat
        /\ account[s].since[d] \in Nat /\ account[s].seen[d] \in Nat
      BY Numbers DEF CountInv
  <2>2. /\ rows[s].total[d] + account[s].since[d] <= account[s].seen[d]
        /\ account[s].seen[d] <= carried[s][d]
      BY DEF CountInv, Keeping, Kept
  <2> QED
      BY <2>1, <2>2
<1> QED
    BY <1>1, CountInvariance, PTL

\* No step lowers a total, save for a reset of that client and for the repair
\* of a client that has more than its inbound.
THEOREM TotalsOnlyGrow == Spec => UsageIsKept
<1> DEFINE Falls(s, d) == rows'[s].total[d] < rows[s].total[d]
           Excused(s) == rows'[s].status = "partial"
                         \/ \E a \in Admins : reset[a].pc = "write" /\ reset[a].client = s
<1>1. ASSUME CountInv, [Next]_vars, NEW s \in Scopes, NEW d \in Directions, Falls(s, d)
      PROVE  Excused(s)
  <2>t. TypeOK /\ rows[s].total[d] \in Nat /\ rows[s] \in RowType
      BY <1>1, Numbers, Fields DEF CountInv
  <2>c. rows' # rows
      BY <1>1, <2>t
  <2>1. CASE Apply
    <3>1. rows'[s] = AppliedRows[s]
        BY <2>1, <2>c DEF Apply, AppliedRows, SampledRows
    <3>2. AppliedRows[s].status = "partial" \/ AppliedRows[s] = SampledRows[s]
      <4>1. SampledRows[s] \in RowType
          BY <2>t, AppliedTyped
      <4>2. CASE Polluted(SampledRows, sync.raw, s)
        <5>1. AppliedRows[s] = [SampledRows[s] EXCEPT !.total = SampledRows[InboundOf[s]].total,
                                    !.window = FALSE, !.status = "partial"]
            BY <4>2 DEF AppliedRows, Reconciled
        <5> QED
            BY <4>1, <5>1 DEF RowType
      <4>3. CASE ~Polluted(SampledRows, sync.raw, s)
          BY <4>3 DEF AppliedRows, Reconciled
      <4> QED
          BY <4>2, <4>3
    <3>3. SampledRows[s].total[d] >= rows[s].total[d]
      <4>1. CASE s \in Got(sync.raw)
        <5> DEFINE raw == sync.raw[s].value
                   later == s \notin sync.resets
        <5>1. raw \in Counts /\ later \in BOOLEAN
            BY <2>t, SyncFields DEF SampleType
        <5>2. SampledRows[s] = Sampled(rows[s], raw, later)
            BY <4>1 DEF SampledRows
        <5> HIDE DEF raw, later
        <5>3. SampledRows[s].total[d] = rows[s].total[d] + Delta(rows[s], raw)[d]
            BY <2>t, <5>1, <5>2, SampledTyped
        <5>4. Delta(rows[s], raw)[d] \in Nat
            BY <2>t, <5>1, DeltaTyped DEF Counts
        <5> QED
            BY <2>t, <5>3, <5>4
      <4>2. CASE s \notin Got(sync.raw)
          BY <2>t, <4>2 DEF SampledRows
      <4> QED
          BY <4>1, <4>2
    <3>4. SampledRows[s].total[d] \in Nat
        BY <2>t, AppliedTyped DEF RowType, Counts
    <3>5. CASE AppliedRows[s] = SampledRows[s]
        BY <1>1, <2>t, <3>1, <3>3, <3>4, <3>5
    <3> QED
        BY <3>1, <3>2, <3>5
  <2>2. CASE Mark \/ MarkDown
    <3>1. rows'[s] \in {rows[s], Marked(rows[s], sync.status, sync.message)}
        BY <2>2 DEF Mark, MarkDown
    <3>2. Marked(rows[s], sync.status, sync.message).total = rows[s].total
        BY <2>t DEF Marked, RowType
    <3>3. rows'[s].total[d] = rows[s].total[d]
        BY <3>1, <3>2
    <3> QED
        BY <1>1, <2>t, <3>3
  <2>3. ASSUME NEW a \in Admins, ResetWrite(a)
        PROVE  Excused(s)
    <3>1. reset[a].pc = "write" /\ rows' = [rows EXCEPT ![reset[a].client] = ResetRow(reset[a].base)]
        BY <2>3, <2>c DEF ResetWrite
    <3>2. CASE reset[a].client # s
      <4>1. rows'[s] = rows[s]
          BY <2>t, <3>1, <3>2, Fields
      <4> QED
          BY <1>1, <2>t, <4>1
    <3> QED
        BY <3>1, <3>2
  <2>4. ASSUME NEW a \in Admins, ResetStep(a)
        PROVE  Excused(s)
      BY <2>3, <2>4, <2>c DEF ResetStep, ResetQuery, ResetAbandoned, ResetBegin
  <2>5. CASE SyncStep
      BY <2>1, <2>2, <2>5, <2>c
         DEF SyncStep, SyncBegin, QueryAnswers, QueryFails, PickClient, ReadCounter
  <2>6. ~Environment /\ ~UNCHANGED vars
      BY <2>c DEF Environment, Carry, CoreRestart, EndpointChanges, PanelRestart, Toggle, vars
  <2> QED
      BY <1>1, <2>4, <2>5, <2>6 DEF Next
<1>2. CountInv /\ [Next]_vars => [\A s \in Scopes, d \in Directions :
                                     Falls(s, d) => Excused(s)]_vars
    BY <1>1
<1> QED
    BY <1>2, CountInvariance, PTL DEF Spec, UsageIsKept

-----------------------------------------------------------------------------
(* The totals are exact *)

\* An account that is exact holds by the byte: the total is what was carried
\* from the baseline to the last sample, the core has been running since then,
\* and no counter in hand is older than that sample.
Exact(s) == account[s].exact => \A d \in Directions :
    /\ rows[s].total[d] + account[s].base[d] = account[s].seen[d]
    /\ account[s].seen[d] <= carried[s][d]
    /\ counter[s][d] + account[s].seen[d] = carried[s][d] + rows[s].lastRaw[d]
    /\ sync.raw[s].got => account[s].seen[d] <= sync.raw[s].at[d]

\* A baseline that is as fresh as its core is one.
Baselines == \A a \in Admins : reset[a].base.fresh => reset[a].base.got

ExactInv == Baselines /\ \A s \in Scopes : Exact(s)

\* What an account counts from is a number, before the first byte or after.
LEMMA BaseOfAccount ==
  ASSUME TypeOK, NEW s \in Scopes, NEW d \in Directions
  PROVE  account[s].base[d] \in Int /\ account[s].exact \in BOOLEAN
BY Fields DEF AccountType

\* Steps that leave the counts alone and take up no counter.
LEMMA AloneExact ==
  ASSUME ExactInv, UNCHANGED <<counter, carried>>, Baselines',
         \A s \in Scopes :
            /\ rows'[s].total = rows[s].total /\ rows'[s].lastRaw = rows[s].lastRaw
            /\ account'[s].exact = account[s].exact /\ account'[s].base = account[s].base
            /\ account'[s].seen = account[s].seen
            /\ sync'.raw[s].got => sync.raw[s].got /\ sync'.raw[s].at = sync.raw[s].at
  PROVE  ExactInv'
BY DEF ExactInv, Exact

\* A counter that is read is not older than any sample.
LEMMA ReadExact ==
  ASSUME ExactInv, TypeOK, NEW s \in Scopes, ReadCounter(s)
  PROVE  ExactInv'
<1>1. PICK x \in Samples(s) :
        sync' = [sync EXCEPT !.left = @ \ {s}, !.raw[s] = IF x.got THEN x ELSE NoSample]
    BY DEF ReadCounter
<1>2. x.at = carried[s]
    BY SampleTyped
<1>3. /\ sync'.raw = [sync.raw EXCEPT ![s] = IF x.got THEN x ELSE NoSample]
      /\ sync.raw \in [Scopes -> SampleType]
    BY <1>1, Fields, SyncFields DEF SyncType
<1>4. /\ \A o \in Scopes \ {s} : sync'.raw[o] = sync.raw[o]
      /\ sync'.raw[s].got => sync'.raw[s].at = carried[s]
    BY <1>2, <1>3 DEF NoSample
<1>5. UNCHANGED <<counter, carried, rows, account, reset>>
    BY DEF ReadCounter, historyVars
<1>6. ASSUME NEW o \in Scopes
      PROVE  Exact(o)'
  <2>1. CASE o = s
      BY <1>4, <1>5, <2>1 DEF ExactInv, Exact
  <2>2. CASE o # s
      BY <1>4, <1>5, <2>2 DEF ExactInv, Exact
  <2> QED
      BY <2>1, <2>2
<1> QED
    BY <1>5, <1>6 DEF ExactInv, Baselines

\* What Apply makes of an account that is exact afterwards: it starts with this
\* sample, or it was exact and the sample is of the same run of the core.
LEMMA ExactRow ==
  ASSUME TypeOK, NEW s \in Scopes, sync.raw[s].got, Accounted(s, AppliedRows).exact
  PROVE  /\ sync.raw[s].fresh
         /\ \A d \in Directions : AppliedRows[s].total[d] =
                rows[s].total[d] + Delta(rows[s], sync.raw[s].value)[d]
         /\ \/ /\ Starts(s)
               /\ \A d \in Directions :
                     Accounted(s, AppliedRows).base[d] = sync.raw[s].at[d] - rows[s].total[d]
            \/ /\ ~Starts(s) /\ account[s].exact
               /\ Accounted(s, AppliedRows).base = account[s].base
<1> DEFINE x == sync.raw[s]
           one == SampledRows[s]
           t == AppliedRows
           a == [account[s] EXCEPT !.seen = x.at, !.blind = FALSE]
           b == [d \in Directions |-> x.at[d] - rows[s].total[d]]
           later == s \notin sync.resets
<1>1. /\ rows[s] \in RowType /\ x \in SampleType /\ account[s] \in AccountType
      /\ x.value \in Counts /\ x.at \in Counts /\ rows[s].total \in Counts
    BY Fields, SyncFields DEF SampleType, RowType
<1>2. one = Sampled(rows[s], x.value, later)
    BY DEF SampledRows, Got
<1>3. later \in BOOLEAN
    OBVIOUS
<1>4. b \in [Directions -> Int]
  <2>1. ASSUME NEW d \in Directions
        PROVE  x.at[d] - rows[s].total[d] \in Int
      BY <1>1 DEF Counts
  <2> QED
      BY <2>1
<1>5. /\ a \in AccountType /\ a.exact = account[s].exact /\ a.base = account[s].base
  <2> HIDE DEF x
  <2> QED
      BY <1>1 DEF AccountType
<1>6. CASE Polluted(SampledRows, sync.raw, s)
  <2> DEFINE raised == IF Raised(s, t) THEN "raised" ELSE a.spoilt
  <2>1. one \in RowType
    <3> HIDE DEF later, one, x
    <3> QED
        BY <1>1, <1>2, <1>3, SampledTyped
  <2>2. t[s] = [one EXCEPT !.total = SampledRows[InboundOf[s]].total, !.window = FALSE,
                           !.status = "partial"]
      BY <1>6 DEF AppliedRows, Reconciled
  <2>3. t[s].status = "partial"
      BY <2>1, <2>2 DEF RowType
  <2>4. Accounted(s, t) = [a EXCEPT !.exact = FALSE, !.spoilt = raised]
      BY <2>3 DEF Accounted
  <2> HIDE DEF a, raised
  <2>5. Accounted(s, t).exact = FALSE
      BY <1>5, <2>4 DEF AccountType
  <2> QED
      BY <2>5
<1>7. CASE ~Polluted(SampledRows, sync.raw, s)
  <2>1. t[s] = one
      BY <1>7 DEF AppliedRows, Reconciled
  <2>2. /\ one.status = "ok"
        /\ \A d \in Directions : one.total[d] = rows[s].total[d] + Delta(rows[s], x.value)[d]
    <3> HIDE DEF later, one, x
    <3> QED
        BY <1>1, <1>2, <1>3, SampledTyped
  <2>3. Accounted(s, t) = IF Starts(s) THEN [a EXCEPT !.exact = x.fresh, !.base = b]
                          ELSE [a EXCEPT !.exact = a.exact /\ x.fresh]
      BY <2>1, <2>2 DEF Accounted
  <2>4. \A d \in Directions : b[d] = x.at[d] - rows[s].total[d]
      OBVIOUS
  <2>5. CASE Starts(s)
    <3> HIDE DEF a, b
    <3>1. Accounted(s, t).exact = x.fresh /\ Accounted(s, t).base = b
        BY <1>5, <2>3, <2>5 DEF AccountType
    <3> QED
        BY <2>1, <2>2, <2>4, <2>5, <3>1
  <2>6. CASE ~Starts(s)
    <3> HIDE DEF a
    <3>1. Accounted(s, t).exact = (a.exact /\ x.fresh) /\ Accounted(s, t).base = a.base
        BY <1>5, <2>3, <2>6 DEF AccountType
    <3> QED
        BY <1>5, <2>1, <2>2, <2>6, <3>1
  <2> QED
      BY <2>5, <2>6
<1> QED
    BY <1>6, <1>7

\* The write of a sync's samples.
LEMMA ApplyExact ==
  ASSUME CountInv, ExactInv, Apply
  PROVE  ExactInv'
<1>t. TypeOK
    BY DEF CountInv
<1>n. \A s \in Scopes : ~sync'.raw[s].got
    BY DEF Apply, NoSync, NoSamples, NoSample
<1>u. UNCHANGED <<counter, carried, reset>> /\ Baselines'
    BY DEF Apply, ExactInv, Baselines
<1>1. CASE UNCHANGED <<rows, account>>
    BY <1>1, <1>n, <1>u, AloneExact
<1>2. CASE /\ rows' = AppliedRows
           /\ account' = [s \in Scopes |->
                 IF s \in Got(sync.raw) THEN Accounted(s, AppliedRows) ELSE account[s]]
  <2>1. ASSUME NEW s \in Scopes, ~sync.raw[s].got
        PROVE  Exact(s)'
    <3>1. rows'[s] = rows[s] /\ account'[s] = account[s]
        BY <1>t, <1>2, <2>1, AppliedRow DEF Got
    <3> QED
        BY <3>1, <1>n, <1>u DEF ExactInv, Exact
  <2>2. ASSUME NEW s \in Scopes, sync.raw[s].got, account'[s].exact, NEW d \in Directions
        PROVE  /\ rows'[s].total[d] + account'[s].base[d] = account'[s].seen[d]
               /\ account'[s].seen[d] <= carried[s][d]
               /\ counter[s][d] + account'[s].seen[d] = carried[s][d] + rows'[s].lastRaw[d]
    <3> DEFINE x == sync.raw[s]
               total == rows[s].total[d]
               last == rows[s].lastRaw[d]
               seen == account[s].seen[d]
               base == account[s].base[d]
               newTotal == rows'[s].total[d]
               newLast == rows'[s].lastRaw[d]
               newSeen == account'[s].seen[d]
               newBase == account'[s].base[d]
               xValue == x.value[d]
               xAt == x.at[d]
               carriedNow == carried[s][d]
               counterNow == counter[s][d]
               u == Delta(rows[s], x.value)[d]
    <3>1. account'[s] = Accounted(s, AppliedRows) /\ rows'[s] = AppliedRows[s]
        BY <1>2, <2>2 DEF Got
    <3>2. newLast = xValue /\ newSeen = xAt
        BY <1>t, <2>2, <3>1, AppliedRow
    <3>3. /\ x.fresh /\ newTotal = total + u
          /\ \/ Starts(s) /\ newBase = xAt - total
             \/ ~Starts(s) /\ account[s].exact /\ newBase = base
        BY <1>t, <2>2, <3>1, ExactRow
    <3>4. xAt <= carriedNow /\ counterNow + xAt = carriedNow + xValue
        BY <2>2, <3>3 DEF CountInv, Reading, Bounds
    <3>5. /\ total \in Nat /\ last \in Nat /\ seen \in Nat /\ base \in Int
          /\ xValue \in Nat /\ xAt \in Nat /\ counterNow \in Nat /\ carriedNow \in Nat
        BY <1>t, Numbers, BaseOfAccount
    <3>6. u = IF Unsampled(rows[s]) \/ xValue < last THEN 0 ELSE xValue - last
      <4>1. rows[s] \in RowType /\ x.value \in Counts
          BY <1>t, Fields, SyncFields DEF SampleType
      <4> QED
          BY <4>1, DeltaTyped
    <3> SUFFICES newTotal + newBase = newSeen /\ newSeen <= carriedNow /\ counterNow + newSeen = carriedNow + newLast
        OBVIOUS
    <3>7. CASE Starts(s) /\ newBase = xAt - total
      <4>1. u = 0
          BY <3>6, <3>7 DEF Starts
      <4> HIDE DEF x, total, last, seen, base, newTotal, newLast, newSeen, newBase, xValue, xAt, carriedNow, counterNow, u
      <4> QED
          BY <3>2, <3>3, <3>4, <3>5, <3>7, <4>1
    <3>8. CASE ~Starts(s) /\ account[s].exact /\ newBase = base
      <4>1. ASSUME NEW e \in Directions
            PROVE  /\ counter[s][e] + account[s].seen[e] = carried[s][e] + rows[s].lastRaw[e]
                   /\ account[s].seen[e] <= x.at[e]
                   /\ x.value[e] = rows[s].lastRaw[e] + x.at[e] - account[s].seen[e]
        <5>1. /\ counter[s][e] + account[s].seen[e] = carried[s][e] + rows[s].lastRaw[e]
              /\ account[s].seen[e] <= x.at[e]
            BY <2>2, <3>8 DEF ExactInv, Exact
        <5>2. counter[s][e] + x.at[e] = carried[s][e] + x.value[e]
            BY <2>2, <3>3 DEF CountInv, Reading, Bounds
        <5>3. /\ rows[s].lastRaw[e] \in Nat /\ account[s].seen[e] \in Nat
              /\ x.value[e] \in Nat /\ x.at[e] \in Nat
              /\ counter[s][e] \in Nat /\ carried[s][e] \in Nat
            BY <1>t, Numbers
        <5> QED
            BY <5>1, <5>2, <5>3
      <4>2. ~Unsampled(rows[s])
        <5>1. ASSUME Unsampled(rows[s]), NEW e \in Directions
              PROVE  x.value[e] = x.at[e] - account[s].seen[e]
          <6>1. rows[s].lastRaw = Zero
              BY <5>1 DEF Unsampled, MissingBaseline, NoRow
          <6>2. rows[s].lastRaw[e] = 0
              BY <6>1 DEF Zero
          <6>3. x.at[e] \in Nat /\ account[s].seen[e] \in Nat
              BY <1>t, Numbers
          <6> QED
              BY <4>1, <6>2, <6>3
        <5> QED
            BY <3>8, <5>1 DEF Starts
      <4>3. /\ total + base = seen /\ seen <= xAt /\ xValue = last + xAt - seen
          BY <2>2, <3>8, <4>1 DEF ExactInv, Exact
      <4> HIDE DEF x, total, last, seen, base, newTotal, newLast, newSeen, newBase, xValue, xAt, carriedNow, counterNow, u
      <4>4. u = xAt - seen
          BY <3>5, <3>6, <4>2, <4>3
      <4> QED
          BY <3>2, <3>3, <3>4, <3>5, <3>8, <4>3, <4>4
    <3> QED
        BY <3>3, <3>7, <3>8
  <2>3. ASSUME NEW s \in Scopes
        PROVE  Exact(s)'
      BY <1>n, <1>u, <2>1, <2>2 DEF Exact
  <2> QED
      BY <1>u, <2>3 DEF ExactInv
<1> QED
    BY <1>1, <1>2 DEF Apply, AppliedRows, SampledRows

\* A reset that asks the cores for its baseline.
LEMMA QueryExact ==
  ASSUME CountInv, ExactInv, NEW a \in Admins, ResetQuery(a)
  PROVE  ExactInv'
<1> DEFINE c == reset[a].client
<1>t. TypeOK
    BY DEF CountInv
<1>c. c \in Scopes
    BY DEF CountInv, Asking, Asked, ResetQuery, Scopes
<1>u. UNCHANGED <<counter, carried, rows, account>>
    BY DEF ResetQuery, historyVars
<1>0. reset \in [Admins -> ResetType]
    BY <1>t, Fields
<1>1. Baselines'
  <2>1. CASE reset' = [reset EXCEPT ![a].pc = "write"]
    <3>1. \A o \in Admins : reset'[o].base = reset[o].base
        BY <1>0, <2>1 DEF ResetType
    <3> QED
        BY <3>1 DEF ExactInv, Baselines
  <2>2. CASE ~(reset' = [reset EXCEPT ![a].pc = "write"])
    <3>1. PICK x \in Samples(c) :
            reset' = [reset EXCEPT ![a].pc = "write", ![a].base = IF x.got THEN x ELSE NoSample]
        BY <2>2 DEF ResetQuery
    <3> DEFINE b == IF x.got THEN x ELSE NoSample
               v == [reset[a] EXCEPT !.pc = "write", !.base = b]
    <3>2. reset' = [reset EXCEPT ![a] = v]
        BY <3>1
    <3>3. b.fresh => b.got
        BY DEF NoSample
    <3> HIDE DEF b
    <3>4. v.base = b
        BY <1>0 DEF ResetType
    <3> HIDE DEF v, c
    <3>5. /\ reset'[a].base = b
          /\ \A o \in Admins \ {a} : reset'[o] = reset[o]
        BY <1>0, <3>2, <3>4
    <3> QED
        BY <3>3, <3>5 DEF ExactInv, Baselines
  <2> QED
      BY <2>1, <2>2
<1>2. \A s \in Scopes : sync'.raw[s].got = sync.raw[s].got /\ sync'.raw[s].at = sync.raw[s].at
  <2> DEFINE x == [sync.raw[c] EXCEPT !.newer = IF sync.raw[c].got THEN sync.raw[c].newer \cup {a}
                                                ELSE sync.raw[c].newer]
  <2>1. sync' = [sync EXCEPT !.raw[c] = x] /\ sync \in SyncType
      BY <1>t, Fields DEF ResetQuery
  <2>2. x.got = sync.raw[c].got /\ x.at = sync.raw[c].at
      BY <1>t, <1>c, SyncFields DEF SampleType
  <2> HIDE DEF x, c
  <2>3. sync'.raw = [sync.raw EXCEPT ![c] = x] /\ sync.raw \in [Scopes -> SampleType]
      BY <2>1, <1>t, SyncFields DEF SyncType
  <2> QED
      BY <2>2, <2>3, <1>c
<1> QED
    BY <1>1, <1>2, <1>u, AloneExact

\* A reset that writes: the account starts at its baseline.
LEMMA WriteExact ==
  ASSUME CountInv, ExactInv, NEW a \in Admins, ResetWrite(a)
  PROVE  ExactInv'
<1>t. TypeOK
    BY DEF CountInv
<1>c. PICK c \in Scopes : c = reset[a].client
    BY DEF CountInv, Asking, Asked, ResetWrite, Scopes
<1> DEFINE base == reset[a].base
           x == sync.raw[c]
           at == IF base.got THEN base.at ELSE carried[c]
           late == Late(a, c, at)
<1>1. Baselines'
  <2>1. reset' = [reset EXCEPT ![a] = NoReset] /\ reset \in [Admins -> ResetType]
      BY <1>t, Fields DEF ResetWrite
  <2>2. /\ \A o \in Admins \ {a} : reset'[o] = reset[o]
        /\ reset'[a].base.fresh = FALSE
      BY <2>1 DEF NoReset, NoSample
  <2> QED
      BY <2>2 DEF ExactInv, Baselines
<1>2. sync'.raw = sync.raw
  <2>1. sync \in SyncType
      BY <1>t, Fields
  <2>2. sync' = sync \/ \E rs : sync' = [sync EXCEPT !.resets = sync.resets \cup rs]
      BY DEF ResetWrite
  <2> QED
      BY <2>1, <2>2 DEF SyncType
<1>u. UNCHANGED <<counter, carried>>
    BY DEF ResetWrite
<1>3. CASE UNCHANGED <<rows, account>>
    BY <1>1, <1>2, <1>3, <1>u, AloneExact
<1>4. CASE /\ rows' = [rows EXCEPT ![c] = ResetRow(base)]
           /\ account' = [account EXCEPT ![c] =
                [since |-> at, base |-> at, seen |-> at, exact |-> base.fresh /\ ~late,
                 blind |-> ~base.got, spoilt |-> IF late THEN "late" ELSE "no"]]
  <2>1. ASSUME account'[c].exact, NEW d \in Directions
        PROVE  /\ rows'[c].total[d] + account'[c].base[d] = account'[c].seen[d]
               /\ account'[c].seen[d] <= carried[c][d]
               /\ counter[c][d] + account'[c].seen[d] = carried[c][d] + rows'[c].lastRaw[d]
               /\ x.got => account'[c].seen[d] <= x.at[d]
    <3>1. /\ rows'[c] = ResetRow(base) /\ base.fresh /\ ~late
          /\ account'[c].base = at /\ account'[c].seen = at
        BY <1>4, <1>t, <2>1, Fields
    <3>2. base.got /\ at = base.at
        BY <3>1 DEF ExactInv, Baselines
    <3>3. rows'[c].total[d] = 0 /\ rows'[c].lastRaw = base.value
      <4> HIDE DEF base
      <4>1. ResetRow(base).total = Zero /\ ResetRow(base).lastRaw = base.value
          BY DEF ResetRow, NoRow
      <4> QED
          BY <3>1, <4>1 DEF Zero
    <3>4. base.at[d] <= carried[c][d] /\ counter[c][d] + base.at[d] = carried[c][d] + base.value[d]
        BY <1>c, <3>1, <3>2 DEF CountInv, Based, Bounds
    <3>5. base.at[d] \in Nat /\ x.at[d] \in Nat
        BY <1>t, <1>c, Numbers, BaseNumbers
    <3>6. ASSUME x.got
          PROVE  base.at[d] <= x.at[d]
      <4>1. late = (x.got /\ (x.at # at \/ ~x.fresh) /\ (a \in x.newer \/ ~base.got))
          BY DEF Late
      <4>2. x.at = base.at \/ a \notin x.newer
          BY <3>1, <3>2, <3>6, <4>1
      <4>3. Ordered(x, base, a)
          BY <1>c, <3>2, <3>6 DEF CountInv, Ordering
      <4> HIDE DEF x, base
      <4> QED
          BY <3>5, <4>2, <4>3 DEF Ordered
    <3> HIDE DEF x, base, at
    <3> QED
        BY <3>1, <3>2, <3>3, <3>4, <3>5, <3>6
  <2>2. ASSUME NEW s \in Scopes
        PROVE  Exact(s)'
    <3>1. CASE s = c
      <4> HIDE DEF x
      <4> QED
        BY <1>2, <1>u, <2>1, <3>1 DEF Exact, x
    <3>2. CASE s # c
      <4>1. rows'[s] = rows[s] /\ account'[s] = account[s]
          BY <1>4, <3>2
      <4> QED
          BY <1>2, <1>u, <4>1 DEF ExactInv, Exact
    <3> QED
        BY <3>1, <3>2
  <2> QED
      BY <1>1, <2>2 DEF ExactInv
<1> QED
    BY <1>3, <1>4, <1>c DEF ResetWrite

\* Traffic is carried.
LEMMA CarryExact ==
  ASSUME CountInv, ExactInv, NEW c \in Clients, NEW e \in Directions, Carry(c, e)
  PROVE  ExactInv'
<1> DEFINE more(s, d) == IF s \in {c, InboundOf[c]} /\ d = e THEN 1 ELSE 0
<1>t. TypeOK
    BY DEF CountInv
<1>1. ASSUME NEW s \in Scopes, NEW d \in Directions
      PROVE  /\ counter'[s][d] = counter[s][d] + more(s, d)
             /\ carried'[s][d] = carried[s][d] + more(s, d)
             /\ more(s, d) \in {0, 1}
  <2>1. counter[s] \in Counts /\ carried[s] \in Counts
      BY <1>t, Fields
  <2>2. /\ counter'[s] = IF s \in {c, InboundOf[c]}
                         THEN [counter[s] EXCEPT ![e] = counter[s][e] + 1] ELSE counter[s]
        /\ carried'[s] = IF s \in {c, InboundOf[c]}
                         THEN [carried[s] EXCEPT ![e] = carried[s][e] + 1] ELSE carried[s]
      BY DEF Carry
  <2>3. counter[s][d] \in Nat /\ carried[s][d] \in Nat
      BY <1>t, Numbers
  <2> QED
      BY <2>1, <2>2, <2>3 DEF Counts
<1> HIDE DEF more
<1>u. UNCHANGED <<rows, sync, reset, account>>
    BY DEF Carry
<1>2. ASSUME NEW s \in Scopes, account[s].exact, NEW d \in Directions
      PROVE  /\ account[s].seen[d] <= carried'[s][d]
             /\ counter'[s][d] + account[s].seen[d] = carried'[s][d] + rows[s].lastRaw[d]
  <2>1. /\ counter[s][d] \in Nat /\ carried[s][d] \in Nat
        /\ account[s].seen[d] \in Nat /\ rows[s].lastRaw[d] \in Nat
      BY <1>t, Numbers
  <2>2. /\ account[s].seen[d] <= carried[s][d]
        /\ counter[s][d] + account[s].seen[d] = carried[s][d] + rows[s].lastRaw[d]
      BY <1>2 DEF ExactInv, Exact
  <2> QED
      BY <1>1, <2>1, <2>2
<1>3. ASSUME NEW s \in Scopes
      PROVE  Exact(s)'
    BY <1>2, <1>u DEF ExactInv, Exact
<1> QED
    BY <1>3, <1>u DEF ExactInv, Baselines

\* A core starts anew: its scopes are not exact until they are sampled again.
LEMMA CoreRestartExact ==
  ASSUME CountInv, ExactInv, NEW e \in {"xray", "singbox"}, CoreRestart(e)
  PROVE  ExactInv'
<1>t. TypeOK
    BY DEF CountInv
<1>u. UNCHANGED <<rows, carried>>
    BY DEF CoreRestart
<1>1. ASSUME NEW s \in Scopes
      PROVE  sync'.raw[s].got = sync.raw[s].got /\ sync'.raw[s].at = sync.raw[s].at
  <2> DEFINE raw == [o \in Scopes |->
               [sync.raw[o] EXCEPT !.fresh = sync.raw[o].fresh /\ o \notin EngineScopes(e)]]
  <2>1. sync' = [sync EXCEPT !.raw = raw] /\ sync \in SyncType
      BY <1>t, Fields DEF CoreRestart
  <2>2. raw[s] = [sync.raw[s] EXCEPT !.fresh = sync.raw[s].fresh /\ s \notin EngineScopes(e)]
      OBVIOUS
  <2> HIDE DEF raw
  <2>3. sync'.raw = raw
      BY <2>1 DEF SyncType
  <2>4. sync.raw[s] \in SampleType
      BY <1>t, SyncFields
  <2> QED
      BY <2>2, <2>3, <2>4 DEF SampleType
<1>2. ASSUME NEW a \in Admins
      PROVE  /\ reset'[a].base.got = reset[a].base.got
             /\ reset'[a].base.fresh => reset[a].base.fresh
  <2> DEFINE b == [reset[a].base EXCEPT
               !.fresh = reset[a].base.fresh /\ reset[a].client \notin EngineScopes(e)]
  <2>1. reset'[a] = [reset[a] EXCEPT !.base = b] /\ reset[a] \in ResetType
      BY <1>t, Fields DEF CoreRestart
  <2>2. reset[a].base \in SampleType
      BY <2>1 DEF ResetType
  <2>3. b.got = reset[a].base.got /\ (b.fresh => reset[a].base.fresh)
      BY <2>2 DEF SampleType
  <2> HIDE DEF b
  <2> QED
      BY <2>1, <2>3 DEF ResetType
<1>3. ASSUME NEW s \in Scopes
      PROVE  /\ account'[s].seen = account[s].seen /\ account'[s].base = account[s].base
             /\ account'[s].exact => account[s].exact /\ s \notin EngineScopes(e)
  <2>1. account[s] \in AccountType
      BY <1>t, Fields
  <2>2. account'[s] = [account[s] EXCEPT !.exact = account[s].exact /\ s \notin EngineScopes(e)]
      BY DEF CoreRestart
  <2> QED
      BY <2>1, <2>2 DEF AccountType
<1>4. \A s \in Scopes : s \notin EngineScopes(e) => counter'[s] = counter[s]
    BY DEF CoreRestart
<1>5. ASSUME NEW s \in Scopes
      PROVE  Exact(s)'
    BY <1>1, <1>3, <1>4, <1>u DEF ExactInv, Exact
<1> QED
    BY <1>2, <1>5 DEF ExactInv, Baselines

\* Steps of the sync that neither read counters nor write samples.
LEMMA SyncExact ==
  ASSUME CountInv, ExactInv,
         SyncBegin \/ QueryAnswers \/ QueryFails \/ PickClient \/ Mark \/ MarkDown
  PROVE  ExactInv'
<1>t. TypeOK /\ sync \in SyncType
    BY Fields DEF CountInv
<1>u. UNCHANGED <<counter, carried, reset>> /\ Baselines'
    BY DEF SyncBegin, QueryAnswers, QueryFails, PickClient, Mark, MarkDown, historyVars,
           ExactInv, Baselines
<1>1. CASE SyncBegin
  <2>1. \A s \in Scopes : ~sync'.raw[s].got
      BY <1>1 DEF SyncBegin, NoSync, NoSamples, NoSample
  <2> QED
      BY <1>1, <1>u, <2>1, AloneExact DEF SyncBegin, historyVars
<1>2. CASE QueryAnswers \/ PickClient
  <2>1. sync'.raw = sync.raw
      BY <1>2, <1>t DEF QueryAnswers, PickClient, SyncType
  <2> QED
      BY <1>2, <1>u, <2>1, AloneExact DEF QueryAnswers, PickClient, historyVars
<1>3. CASE QueryFails
  <2> DEFINE raw == [s \in Scopes |->
                        IF s \in EngineScopes(sync.engine) THEN NoSample ELSE sync.raw[s]]
  <2>1. PICK m : sync' = [sync EXCEPT !.pc = "mark", !.status = "unavailable",
                                      !.message = m, !.left = {},
                                      !.late = @ \/ Waits(sync.engine, client.sync), !.raw = raw]
      BY <1>3 DEF QueryFails
  <2>2. \A s \in Scopes : raw[s] = sync.raw[s] \/ ~raw[s].got
      BY DEF NoSample
  <2> HIDE DEF raw
  <2>3. sync'.raw = raw
      BY <2>1, <1>t DEF SyncType
  <2> QED
      BY <1>3, <1>u, <2>2, <2>3, AloneExact DEF QueryFails, historyVars
<1>4. CASE Mark \/ MarkDown
  <2>1. sync'.raw = sync.raw
      BY <1>4, <1>t DEF Mark, MarkDown, SyncType
  <2>2. ASSUME NEW s \in Scopes
        PROVE  rows'[s].total = rows[s].total /\ rows'[s].lastRaw = rows[s].lastRaw
    <3>1. rows[s] \in RowType
        BY <1>t, Fields
    <3>2. /\ Marked(rows[s], sync.status, sync.message).total = rows[s].total
          /\ Marked(rows[s], sync.status, sync.message).lastRaw = rows[s].lastRaw
        BY <3>1 DEF Marked, RowType
    <3>3. rows'[s] \in {rows[s], Marked(rows[s], sync.status, sync.message)}
        BY <1>4 DEF Mark, MarkDown
    <3> QED
        BY <3>2, <3>3
  <2>3. ASSUME NEW s \in Scopes
        PROVE  /\ account'[s].exact = account[s].exact /\ account'[s].base = account[s].base
               /\ account'[s].seen = account[s].seen
    <3>1. account[s] \in AccountType
        BY <1>t, Fields
    <3>2. account'[s] \in {account[s], [account[s] EXCEPT !.spoilt = "blind"]}
        BY <1>4 DEF Mark, MarkDown, Hide
    <3> QED
        BY <3>1, <3>2 DEF AccountType
  <2> QED
      BY <1>u, <2>1, <2>2, <2>3, AloneExact
<1> QED
    BY <1>1, <1>2, <1>3, <1>4

\* Every step preserves the invariant.
LEMMA NextExact == CountInv /\ ExactInv /\ [Next]_vars => ExactInv'
<1> SUFFICES ASSUME CountInv, ExactInv, [Next]_vars PROVE ExactInv'
    OBVIOUS
<1>t. TypeOK /\ reset \in [Admins -> ResetType]
    BY Fields DEF CountInv
<1>1. CASE UNCHANGED vars
    BY <1>1, AloneExact DEF vars, historyVars, ExactInv, Baselines
<1>2. CASE SyncStep
    BY <1>2, <1>t, SyncExact, ApplyExact, ReadExact DEF SyncStep
<1>3. ASSUME NEW a \in Admins, NEW c \in Clients, ResetBegin(a, c)
      PROVE  ExactInv'
  <2>1. /\ \A o \in Admins \ {a} : reset'[o] = reset[o]
        /\ reset'[a].base.fresh = FALSE
      BY <1>3, <1>t DEF ResetBegin, NoReset, NoSample
  <2>2. Baselines'
      BY <2>1 DEF ExactInv, Baselines
  <2> QED
      BY <1>3, <2>2, AloneExact DEF ResetBegin, historyVars
<1>8. ASSUME NEW a \in Admins, ResetAbandoned(a)
      PROVE  ExactInv'
  <2>1. /\ \A o \in Admins \ {a} : reset'[o] = reset[o]
        /\ reset'[a].base.fresh = FALSE
      BY <1>8, <1>t DEF ResetAbandoned, NoReset, NoSample
  <2>2. Baselines'
      BY <2>1 DEF ExactInv, Baselines
  <2> QED
      BY <1>8, <2>2, AloneExact DEF ResetAbandoned, historyVars
<1>4. ASSUME NEW a \in Admins, ResetStep(a)
      PROVE  ExactInv'
    BY <1>3, <1>4, <1>8, QueryExact, WriteExact DEF ResetStep
<1>5. CASE PanelRestart
  <2>1. /\ \A s \in Scopes : ~sync'.raw[s].got
        /\ \A a \in Admins : ~reset'[a].base.fresh
      BY <1>5 DEF PanelRestart, NoSync, NoSamples, NoSample, NoReset
  <2>2. Baselines'
      BY <2>1 DEF Baselines
  <2> QED
      BY <1>5, <2>1, <2>2, AloneExact DEF PanelRestart, historyVars
<1>6. ASSUME NEW s \in Scopes, Toggle(s)
      PROVE  ExactInv'
    BY <1>6, AloneExact DEF Toggle, historyVars, ExactInv, Baselines
<1>9. ASSUME NEW e \in {"xray", "singbox"}, NEW how \in Endpoints, EndpointChanges(e, how)
      PROVE  ExactInv'
    BY <1>9, AloneExact DEF EndpointChanges, historyVars, ExactInv, Baselines
<1>7. CASE Environment
    BY <1>5, <1>6, <1>7, <1>9, CarryExact, CoreRestartExact DEF Environment
<1> QED
    BY <1>1, <1>2, <1>4, <1>7 DEF Next

\* TotalsAreExact: no byte is counted twice or left out, whatever syncs fail and
\* whatever resets come between, as long as the core runs.
THEOREM TotalsStayExact == Spec => []TotalsAreExact
<1>1. Init => ExactInv
  <2> SUFFICES ASSUME Init PROVE ExactInv
      OBVIOUS
  <2>1. /\ \A a \in Admins : reset[a].base.fresh = FALSE
        /\ \A s \in Scopes : account[s].exact = FALSE
      BY DEF Init, NoReset, NoSample
  <2> QED
      BY <2>1 DEF ExactInv, Exact, Baselines
<1>2. CountInv /\ ExactInv => TotalsAreExact
  <2> SUFFICES ASSUME CountInv, ExactInv, NEW s \in Scopes, account[s].exact, NEW d \in Directions
               PROVE  rows[s].total[d] = account[s].seen[d] - account[s].base[d]
      BY DEF TotalsAreExact
  <2>1. rows[s].total[d] + account[s].base[d] = account[s].seen[d]
      BY DEF ExactInv, Exact
  <2>2. rows[s].total[d] \in Nat /\ account[s].seen[d] \in Nat /\ account[s].base[d] \in Int
      BY Numbers, BaseOfAccount DEF CountInv
  <2> QED
      BY <2>1, <2>2
<1> QED
    BY <1>1, <1>2, CountInvariance, NextExact, PTL DEF Spec

=============================================================================
