------------------------- MODULE LoginLimiterProofs -------------------------
(***************************************************************************)
(* Proofs about LoginLimiter, for any requests, users, limit and times.    *)
(***************************************************************************)
EXTENDS LoginLimiter, TLAPS

Locals == [pc : Places, user : Users \cup {NoOne}, i : {1, 2},
           for : {"allow", "fail", "reset"}, cut : Int,
           read : Rows, entry : Entries, era : Nat]

\* An active request works on a key of the limiter.
LEMMA KeyIsKey ==
  ASSUME TypeOK, NEW r \in Requests, req[r].pc # "idle"
  PROVE  Key(r) \in Keys /\ Address \in Keys /\ req[r].user \in Keys
<1>1. req[r].user \in Users /\ req[r].i \in {1, 2}
    BY DEF TypeOK, Proper
<1> QED
    BY <1>1 DEF Key, KeysOf, Keys

\* The constant records and times are of their types.
LEMMA Values ==
  /\ ZeroTime \in Int /\ NoEntry \in Entries /\ NoRow \in Rows
  /\ Idle \in Locals
  /\ \A t \in Int : Stored(t) \in Int
BY TimesAssumption DEF ZeroTime, NoEntry, NoRow, Idle, Locals, Entries, Rows, Places, Stored

ReqTyped == req \in [Requests -> Locals] /\ \A r \in Requests : Proper(req[r])

\* The parts of the type invariant.
LEMMA Fields ==
  ASSUME TypeOK
  PROVE  /\ now \in Int /\ memory \in [Keys -> Entries] /\ table \in [Keys -> Rows]
         /\ tally \in [Keys -> Nat] /\ era \in [Keys -> Nat] /\ tableEra \in [Keys -> Nat]
         /\ ReqTyped
BY DEF TypeOK, ReqTyped, Locals

\* A request's variables may change to others of their types.
LEMMA Becomes ==
  ASSUME TypeOK, NEW r \in Requests, NEW v \in Locals, Proper(v), req' = [req EXCEPT ![r] = v]
  PROVE  ReqTyped'
BY Fields DEF ReqTyped

\* A request that goes on keeps its type ...
LEMMA GoType ==
  ASSUME TypeOK, NEW r \in Requests, req[r].pc # "idle", NEW p \in Places, Go(r, p),
         req[r].for = "reset" => p \in {"persist", "lookup", "write", "unlock"}
  PROVE  ReqTyped'
<1> DEFINE v == [req[r] EXCEPT !.pc = p]
<1>1. req[r] \in Locals /\ Proper(req[r])
    BY Fields DEF ReqTyped
<1>2. v \in Locals /\ Proper(v)
    BY <1>1 DEF Locals, Proper
<1>3. req' = [req EXCEPT ![r] = v]
    BY DEF Go
<1> HIDE DEF v
<1> QED
    BY <1>2, <1>3, Becomes

\* ... also on to its other key ...
LEMMA NextKeyType ==
  ASSUME TypeOK, NEW r \in Requests, req[r].pc # "idle",
         NEW p \in Places, NEW q \in Places, NextKey(r, p, q),
         req[r].for = "reset" => {p, q} \subseteq {"persist", "lookup", "write", "unlock"}
  PROVE  ReqTyped'
<1> DEFINE v == [req[r] EXCEPT !.i = 3 - req[r].i, !.pc = IF req[r].i = 1 THEN p ELSE q,
                               !.read = NoRow, !.entry = NoEntry, !.era = 0]
<1>1. req[r] \in Locals /\ Proper(req[r])
    BY Fields DEF ReqTyped
<1>2. 3 - req[r].i \in {1, 2} /\ (IF req[r].i = 1 THEN p ELSE q) \in Places
    BY <1>1 DEF Locals
<1>3. v \in Locals /\ v.user = req[r].user /\ v.for = req[r].for /\ v.pc \in {p, q}
    BY <1>1, <1>2, Values DEF Locals
<1>4. req' = [req EXCEPT ![r] = v]
    BY DEF NextKey
<1> HIDE DEF v
<1>5. Proper(v)
    BY <1>1, <1>3 DEF Proper
<1> QED
    BY <1>3, <1>4, <1>5, Becomes

\* ... or out of the limiter.
LEMMA LeaveType ==
  ASSUME TypeOK, NEW r \in Requests, Leave(r)
  PROVE  ReqTyped'
<1>1. Proper(Idle)
    BY DEF Idle, Proper
<1> QED
    BY <1>1, Values, Becomes DEF Leave

\* Every step of a request preserves the types.
LEMMA StepType ==
  ASSUME TypeOK, NEW r \in Requests, Step(r)
  PROVE  TypeOK'
<1> USE DEF At, Places, historyVars, limiterVars
<1>r. req[r] \in Locals /\ Proper(req[r])
    BY Fields DEF ReqTyped
<1>k. req[r].pc # "idle" => Key(r) \in Keys /\ Address \in Keys /\ req[r].user \in Keys
    BY KeyIsKey
<1>t. /\ now \in Int /\ memory \in [Keys -> Entries] /\ table \in [Keys -> Rows]
      /\ tally \in [Keys -> Nat] /\ era \in [Keys -> Nat] /\ tableEra \in [Keys -> Nat]
    BY Fields
<1>f. req[r].pc \in {"load", "read", "mark"} => req[r].for \in {"allow", "fail"}
    BY <1>r DEF Locals, Proper
<1>g. req[r].pc \notin {"idle", "persist", "lookup", "write", "unlock"} => req[r].for # "reset"
    BY <1>r DEF Proper
<1>1. ASSUME ReqTyped',
             now' \in Nat, memory' \in [Keys -> Entries], loaded' \subseteq Keys,
             nextPrune' \in Int, persister' \in Requests \cup {NoOne},
             table' \in [Keys -> Rows], tally' \in [Keys -> Nat], era' \in [Keys -> Nat],
             tableEra' \in [Keys -> Nat], count' \in [logins : Nat, restarts : Nat]
      PROVE  TypeOK'
    BY <1>1 DEF TypeOK, ReqTyped, Locals
<1> USE DEF ReqTyped
<1>2. CASE MaybePrune(r)
  <2>1. CASE now < nextPrune
      BY <1>2, <2>1, <1>1, <1>g, GoType DEF MaybePrune, TypeOK
  <2>2. CASE ~(now < nextPrune)
    <3> DEFINE v == [req[r] EXCEPT !.pc = "delete rows", !.cut = now - 2 * Cooldown]
    <3>1. req' = [req EXCEPT ![r] = v] /\ req[r].pc = "prune"
        BY <1>2, <2>2 DEF MaybePrune
    <3>2. now - 2 * Cooldown \in Int /\ now + PruneInterval \in Int
        BY <1>t, TimesAssumption
    <3>3. v \in Locals /\ Proper(v)
        BY <1>r, <3>1, <3>2 DEF Locals, Proper
    <3> HIDE DEF v
    <3>4. ReqTyped'
        BY <3>1, <3>3, Becomes
    <3> QED
        BY <1>2, <2>2, <3>2, <3>4, <1>1 DEF MaybePrune, TypeOK
  <2> QED
      BY <2>1, <2>2
<1>3. CASE PruneRows(r)
  <2>1. ReqTyped'
      BY <1>3, GoType, <1>g DEF PruneRows
  <2>2. table' \in [Keys -> Rows]
      BY <1>3, <1>t, Values DEF PruneRows
  <2> QED
      BY <1>3, <2>1, <2>2, <1>1 DEF PruneRows, TypeOK
<1>4. CASE ForgetLoaded(r)
    BY <1>4, GoType, <1>g, <1>1 DEF ForgetLoaded, TypeOK
<1>5. CASE Load(r)
  <2>1. ReqTyped'
      BY <1>5, GoType, NextKeyType, <1>f, <1>g DEF Load
  <2> QED
      BY <1>5, <2>1, <1>1 DEF Load, TypeOK
<1>6. CASE Read(r)
  <2>1. CASE NextKey(r, "load", req[r].for)
    <3>1. ReqTyped'
        BY <1>6, <2>1, NextKeyType, <1>f DEF Read
    <3> QED
        BY <1>6, <3>1, <1>1 DEF Read, TypeOK
  <2>2. CASE req' = [req EXCEPT ![r].read = table[Key(r)],
                                ![r].pc = IF table[Key(r)] = NoRow THEN "mark" ELSE "seed"]
    <3> DEFINE v == [req[r] EXCEPT !.read = table[Key(r)],
                                   !.pc = IF table[Key(r)] = NoRow THEN "mark" ELSE "seed"]
    <3>1. req' = [req EXCEPT ![r] = v] /\ req[r].pc = "read"
        BY <1>6, <2>2 DEF Read
    <3>2. table[Key(r)] \in Rows
        BY <3>1, <1>k, <1>t
    <3>3. v \in Locals /\ Proper(v)
        BY <1>r, <3>1, <3>2 DEF Locals, Proper
    <3> HIDE DEF v
    <3>4. ReqTyped'
        BY <3>1, <3>3, Becomes
    <3> QED
        BY <1>6, <3>4, <1>1 DEF Read, TypeOK
  <2> QED
      BY <1>6, <2>1, <2>2 DEF Read
<1>7. CASE Seed(r)
  <2>1. ReqTyped' /\ Key(r) \in Keys
      BY <1>7, GoType, <1>g, <1>k DEF Seed
  <2>2. req[r].read \in Rows
      BY <1>r DEF Locals
  <2>3. memory' \in [Keys -> Entries] /\ era' \in [Keys -> Nat]
    <3>1. CASE Expired(req[r].read)
        BY <1>7, <2>1, <3>1, <1>t DEF Seed
    <3>2. CASE ~Expired(req[r].read)
      <4> DEFINE e == [memory[Key(r)] EXCEPT
                         !.failures = larger(req[r].read.failures, memory[Key(r)].failures),
                         !.blockedAt = larger(req[r].read.blockedAt, memory[Key(r)].blockedAt)]
      <4>1. memory' = [memory EXCEPT ![Key(r)] = e] /\ era' = era
          BY <1>7, <3>2 DEF Seed
      <4>2. e \in Entries
        <5>1. memory[Key(r)] \in [failures : Nat, blockedAt : Int]
            BY <2>1, <1>t DEF Entries
        <5>2. req[r].read.failures \in Nat /\ req[r].read.blockedAt \in Int
            BY <2>2 DEF Rows
        <5> QED
            BY <5>1, <5>2 DEF Entries, larger
      <4> HIDE DEF e
      <4> QED
          BY <4>1, <4>2, <1>t
    <3> QED
        BY <3>1, <3>2
  <2> QED
      BY <1>7, <2>1, <2>3, <1>1 DEF Seed, TypeOK
<1>8. CASE MarkLoaded(r)
  <2>1. ReqTyped'
      BY <1>8, NextKeyType, <1>f DEF MarkLoaded
  <2> QED
      BY <1>8, <1>k, <2>1, <1>1 DEF MarkLoaded, TypeOK
<1>9. CASE Decide(r)
  <2>1. ReqTyped'
      BY <1>9, GoType, <1>g, LeaveType DEF Decide
  <2>2. memory' \in [Keys -> Entries] /\ era' \in [Keys -> Nat]
      BY <1>9, <1>t, Values DEF Decide, Forget
  <2> QED
      BY <1>9, <2>1, <2>2, <1>1 DEF Decide, TypeOK
<1>10. CASE WrongPassword(r)
  <2> DEFINE v == [req[r] EXCEPT !.pc = "load", !.for = "fail"]
  <2>1. req' = [req EXCEPT ![r] = v] /\ req[r].pc = "verify"
      BY <1>10 DEF WrongPassword
  <2>2. v \in Locals /\ Proper(v)
      BY <1>r, <2>1 DEF Locals, Proper
  <2> HIDE DEF v
  <2>3. ReqTyped'
      BY <2>1, <2>2, Becomes
  <2> QED
      BY <1>10, <2>3, <1>1 DEF WrongPassword, TypeOK
<1>11. CASE RecordFailure(r)
  <2>1. ReqTyped'
      BY <1>11, GoType, <1>g DEF RecordFailure
  <2>2. memory' \in [Keys -> Entries] /\ tally' \in [Keys -> Nat]
      BY <1>11, <1>t DEF RecordFailure, Entries
  <2> QED
      BY <1>11, <2>1, <2>2, <1>1 DEF RecordFailure, TypeOK
<1>12. CASE Reset(r)
  <2> DEFINE v == [req[r] EXCEPT !.pc = "persist", !.for = "reset"]
  <2>1. req' = [req EXCEPT ![r] = v] /\ req[r].pc = "verify"
      BY <1>12 DEF Reset
  <2>2. v \in Locals /\ Proper(v)
      BY <1>r, <2>1 DEF Locals, Proper
  <2> HIDE DEF v
  <2>3. ReqTyped'
      BY <2>1, <2>2, Becomes
  <2>4. memory' \in [Keys -> Entries] /\ era' \in [Keys -> Nat]
      BY <1>12, <1>t, Values DEF Reset, Forget
  <2> QED
      BY <1>12, <2>3, <2>4, <1>1 DEF Reset, TypeOK
<1>13. CASE LockPersist(r)
  <2> DEFINE v == [req[r] EXCEPT !.pc = "lookup", !.cut = now]
  <2>1. req' = [req EXCEPT ![r] = v] /\ req[r].pc = "persist"
      BY <1>13 DEF LockPersist
  <2>2. v \in Locals /\ Proper(v)
      BY <1>r, <1>t, <2>1 DEF Locals, Proper
  <2> HIDE DEF v
  <2>3. ReqTyped'
      BY <2>1, <2>2, Becomes
  <2> QED
      BY <1>13, <2>3, <1>1 DEF LockPersist, TypeOK
<1>14. CASE Lookup(r)
  <2> DEFINE v == [req[r] EXCEPT !.entry = memory[Key(r)], !.era = era[Key(r)], !.pc = "write"]
  <2>1. req' = [req EXCEPT ![r] = v] /\ req[r].pc = "lookup"
      BY <1>14 DEF Lookup
  <2>2. memory[Key(r)] \in Entries /\ era[Key(r)] \in Nat
      BY <2>1, <1>k, <1>t
  <2>3. v \in Locals /\ Proper(v)
      BY <1>r, <2>1, <2>2 DEF Locals, Proper
  <2> HIDE DEF v
  <2>4. ReqTyped'
      BY <2>1, <2>3, Becomes
  <2> QED
      BY <1>14, <2>4, <1>1 DEF Lookup, TypeOK
<1>15. CASE Write(r)
  <2>1. ReqTyped' /\ Key(r) \in Keys
      BY <1>15, <1>k, NextKeyType, <1>r DEF Write, Locals, Proper
  <2>2. req[r].entry \in Entries /\ Stored(req[r].entry.blockedAt) \in Int
        /\ Stored(req[r].cut) \in Int /\ req[r].era \in Nat
      BY <1>r, Values DEF Locals, Entries
  <2>3. [failures |-> req[r].entry.failures, blockedAt |-> Stored(req[r].entry.blockedAt),
         updatedAt |-> Stored(req[r].cut)] \in Rows
      BY <2>2 DEF Rows, Entries
  <2>4. table' \in [Keys -> Rows] /\ tableEra' \in [Keys -> Nat]
    <3>1. CASE UNCHANGED <<table, tableEra>>
        BY <3>1, <1>t
    <3>2. ASSUME NEW row \in Rows, Put(Key(r), row, req[r].era)
          PROVE  table' \in [Keys -> Rows] /\ tableEra' \in [Keys -> Nat]
        BY <3>2, <2>1, <2>2, <1>t DEF Put
    <3> QED
        BY <1>15, <2>3, <3>1, <3>2, Values DEF Write
  <2> QED
      BY <1>15, <2>1, <2>4, <1>1 DEF Write, TypeOK
<1>16. CASE Unlock(r)
    BY <1>16, LeaveType, <1>1 DEF Unlock, TypeOK
<1> QED
    BY <1>2, <1>3, <1>4, <1>5, <1>6, <1>7, <1>8, <1>9, <1>10, <1>11, <1>12, <1>13, <1>14,
       <1>15, <1>16 DEF Step

\* Every step preserves the types.
LEMMA TypeStep == TypeOK /\ [Next]_vars => TypeOK'
<1> SUFFICES ASSUME TypeOK, [Next]_vars PROVE TypeOK'
    OBVIOUS
<1> USE DEF limiterVars, historyVars
<1>1. ASSUME NEW r \in Requests, NEW u \in Users, Begin(r, u) PROVE TypeOK'
  <2> DEFINE v == [Idle EXCEPT !.pc = "prune", !.user = u]
  <2>1. v \in Locals /\ Proper(v)
      BY Values DEF Idle, Locals, Places, Proper
  <2>2. req' = [req EXCEPT ![r] = v]
      BY <1>1 DEF Begin
  <2> HIDE DEF v
  <2>3. ReqTyped'
      BY <2>1, <2>2, Becomes
  <2> QED
      BY <1>1, <2>3 DEF Begin, TypeOK, ReqTyped, Locals
<1>2. CASE Tick
    BY <1>2 DEF Tick, TypeOK
<1>3. CASE Restart
  <2>1. ReqTyped'
      BY <1>3, Values DEF Restart, ReqTyped, Idle, Proper
  <2> QED
      BY <1>3, <2>1, Values DEF Restart, TypeOK, ReqTyped, Locals
<1>4. CASE UNCHANGED vars
    BY <1>4 DEF vars, TypeOK
<1> QED
    BY <1>1, <1>2, <1>3, <1>4, StepType DEF Next

\* Type correctness of the limiter, whatever the errors, prunes and restarts.
THEOREM TypeCorrect == Spec => []TypeOK
<1>1. Init => TypeOK
    BY Values DEF Init, TypeOK, Locals, Idle, Proper
<1> QED
    BY <1>1, TypeStep, PTL DEF Spec

-----------------------------------------------------------------------------
(* CountsAreReal *)

\* Copies that requests hold of a count are real as well.
RealInv ==
    /\ TypeOK
    /\ CountsAreReal
    /\ \A r \in Requests : req[r].pc # "idle" =>
          req[r].read.failures <= tally[Key(r)] /\ req[r].entry.failures <= tally[Key(r)]

\* The key a request works on depends on its own variables only.
LEMMA SameKey ==
  ASSUME NEW r \in Requests, req'[r].user = req[r].user, req'[r].i = req[r].i
  PROVE  Key(r)' = Key(r)
BY DEF Key

\* What a step does to its request, to the others, to the counts and their copies.
LEMMA StepCounts ==
  ASSUME RealInv, NEW r \in Requests, Step(r)
  PROVE  RealInv'
<1> USE DEF At, historyVars, limiterVars
<1>t. TypeOK /\ TypeOK'
    BY StepType DEF RealInv
<1>r. /\ req \in [Requests -> Locals] /\ req' \in [Requests -> Locals]
      /\ req[r].pc # "idle" => Key(r) \in Keys
      /\ \A s \in Requests : req[s].pc # "idle" => Key(s) \in Keys
      /\ memory \in [Keys -> Entries] /\ table \in [Keys -> Rows] /\ tally \in [Keys -> Nat]
    BY <1>t, Fields, KeyIsKey DEF TypeOK, ReqTyped, Locals
<1>z. NoEntry.failures = 0 /\ NoRow.failures = 0 /\ Idle.pc = "idle"
    BY DEF NoEntry, NoRow, Idle
<1> DEFINE Held(s) == req[s].pc # "idle" =>
              req[s].read.failures <= tally[Key(s)] /\ req[s].entry.failures <= tally[Key(s)]
<1>h. \A s \in Requests : Held(s)
    BY DEF RealInv
<1>o. \A s \in Requests : s # r => req'[s] = req[s]
  <2> USE <1>r
  <2>1. CASE MaybePrune(r) \/ PruneRows(r) \/ ForgetLoaded(r) \/ Load(r) \/ Read(r)
      BY <2>1 DEF MaybePrune, PruneRows, ForgetLoaded, Load, Read, Go, NextKey
  <2>2. CASE Seed(r) \/ MarkLoaded(r) \/ Decide(r) \/ WrongPassword(r) \/ RecordFailure(r)
      BY <2>2 DEF Seed, MarkLoaded, Decide, WrongPassword, RecordFailure, Go, NextKey, Leave
  <2>3. CASE Reset(r) \/ LockPersist(r) \/ Lookup(r) \/ Write(r) \/ Unlock(r)
      BY <2>3 DEF Reset, LockPersist, Lookup, Write, Unlock, NextKey, Leave
  <2> QED
      BY <2>1, <2>2, <2>3 DEF Step
\* It is enough that the tallies do not fall and the counts of this step are real.
<1>1. ASSUME \A k \in Keys : tally'[k] >= tally[k], CountsAreReal', Held(r)'
      PROVE  RealInv'
  <2>1. ASSUME NEW s \in Requests, s # r PROVE Held(s)'
    <3>1. req'[s] = req[s] /\ Held(s) /\ Key(s)' = Key(s) /\ req[s] \in Locals
        BY <1>o, <2>1, <1>h, SameKey, <1>r
    <3>2. CASE req[s].pc # "idle"
      <4>1. /\ Key(s) \in Keys /\ tally'[Key(s)] >= tally[Key(s)]
            /\ tally'[Key(s)] \in Nat /\ tally[Key(s)] \in Nat
            /\ req[s].read.failures \in Nat /\ req[s].entry.failures \in Nat
          BY <3>1, <3>2, <1>1, <1>r, <1>t DEF TypeOK, Locals, Rows, Entries
      <4> QED
          BY <3>1, <3>2, <4>1
    <3> QED
        BY <3>1, <3>2
  <2> QED
      BY <1>1, <2>1, <1>t DEF RealInv
<1>n. ASSUME NEW p, NEW q, NextKey(r, p, q)
      PROVE  req'[r].read.failures = 0 /\ req'[r].entry.failures = 0
    BY <1>n, <1>r, <1>z DEF NextKey
<1>g. ASSUME NEW p, Go(r, p)
      PROVE  /\ req'[r].read = req[r].read /\ req'[r].entry = req[r].entry
             /\ Key(r)' = Key(r)
    BY <1>g, <1>r, SameKey DEF Go, Locals
<1>p. \A s \in Requests : req'[s].pc # "idle" => Key(s)' \in Keys
  <2>1. \A s \in Requests : req'[s].pc # "idle" => req'[s].user \in Users /\ req'[s].i \in {1, 2}
      BY <1>t DEF TypeOK, Proper
  <2> QED
      BY <2>1 DEF Key, KeysOf, Keys
<1>q. CountsAreReal
    BY DEF RealInv
\* A step that changes neither counts nor tallies, and takes no copy.
<1>2. ASSUME UNCHANGED <<memory, table, tally>>,
             \/ \E p, q \in Places : NextKey(r, p, q)
             \/ req[r].pc # "idle" /\ \E p \in Places : Go(r, p)
             \/ Leave(r)
             \/ /\ req'[r].read = req[r].read /\ req'[r].entry = req[r].entry
                /\ Key(r)' = Key(r) /\ req[r].pc # "idle"
             \/ req'[r].read.failures = 0 /\ req'[r].entry.failures = 0
      PROVE  RealInv'
  <2>1. CountsAreReal' /\ \A k \in Keys : tally'[k] >= tally[k]
      BY <1>2, <1>q, <1>r DEF CountsAreReal
  <2>2. Held(r)'
    <3>1. CASE Leave(r)
        BY <3>1, <1>z, <1>r DEF Leave
    <3>2. CASE req'[r].read.failures = 0 /\ req'[r].entry.failures = 0
        BY <3>2, <1>2, <1>r, <1>p
    <3>3. CASE /\ req'[r].read = req[r].read /\ req'[r].entry = req[r].entry
               /\ Key(r)' = Key(r) /\ req[r].pc # "idle"
        BY <3>3, <1>2, <1>h
    <3> QED
        BY <1>2, <1>n, <1>g, <3>1, <3>2, <3>3
  <2> QED
      BY <1>1, <2>1, <2>2
<1> HIDE DEF Held
<1>f. req[r].for \in Places \/ req[r].pc \notin {"load", "read", "mark"}
    BY <1>t, <1>r DEF TypeOK, Proper, Locals, Places
<1> USE DEF Places
<1>3. CASE MaybePrune(r) \/ ForgetLoaded(r) \/ Load(r) \/ MarkLoaded(r) \/ WrongPassword(r)
           \/ LockPersist(r) \/ Unlock(r)
  <2>1. CASE MaybePrune(r)
    <3>1. CASE now < nextPrune
        BY <2>1, <3>1, <1>2 DEF MaybePrune
    <3>2. CASE ~(now < nextPrune)
      <4> DEFINE v == [req[r] EXCEPT !.pc = "delete rows", !.cut = now - 2 * Cooldown]
      <4>1. /\ req' = [req EXCEPT ![r] = v] /\ req[r].pc # "idle"
            /\ UNCHANGED <<memory, table, tally>>
          BY <2>1, <3>2 DEF MaybePrune
      <4>2. /\ v.read = req[r].read /\ v.entry = req[r].entry
            /\ v.user = req[r].user /\ v.i = req[r].i
          BY <1>r DEF Locals
      <4> HIDE DEF v
      <4> QED
          BY <4>1, <4>2, <1>2, <1>r, SameKey
    <3> QED
        BY <3>1, <3>2
  <2>2. CASE ForgetLoaded(r)
      BY <2>2, <1>2 DEF ForgetLoaded
  <2>3. CASE Load(r)
      BY <2>3, <1>2, <1>f DEF Load
  <2>4. CASE MarkLoaded(r)
      BY <2>4, <1>2, <1>f DEF MarkLoaded
  <2>5. CASE WrongPassword(r)
    <3> DEFINE v == [req[r] EXCEPT !.pc = "load", !.for = "fail"]
    <3>1. /\ req' = [req EXCEPT ![r] = v] /\ req[r].pc # "idle"
          /\ UNCHANGED <<memory, table, tally>>
        BY <2>5 DEF WrongPassword
    <3>2. /\ v.read = req[r].read /\ v.entry = req[r].entry
          /\ v.user = req[r].user /\ v.i = req[r].i
        BY <1>r DEF Locals
    <3> HIDE DEF v
    <3> QED
        BY <3>1, <3>2, <1>2, <1>r, SameKey
  <2>6. CASE LockPersist(r)
    <3> DEFINE v == [req[r] EXCEPT !.pc = "lookup", !.cut = now]
    <3>1. /\ req' = [req EXCEPT ![r] = v] /\ req[r].pc # "idle"
          /\ UNCHANGED <<memory, table, tally>>
        BY <2>6 DEF LockPersist
    <3>2. /\ v.read = req[r].read /\ v.entry = req[r].entry
          /\ v.user = req[r].user /\ v.i = req[r].i
        BY <1>r DEF Locals
    <3> HIDE DEF v
    <3> QED
        BY <3>1, <3>2, <1>2, <1>r, SameKey
  <2>7. CASE Unlock(r)
      BY <2>7, <1>2 DEF Unlock
  <2> QED
      BY <1>3, <2>1, <2>2, <2>3, <2>4, <2>5, <2>6, <2>7
<1>4. CASE PruneRows(r)
  <2>1. UNCHANGED <<memory, tally>> /\ \A k \in Keys : table'[k] \in {table[k], NoRow}
      BY <1>4 DEF PruneRows
  <2>2. CountsAreReal' /\ \A k \in Keys : tally'[k] >= tally[k]
      BY <2>1, <1>q, <1>r, <1>z DEF CountsAreReal
  <2>3. req[r].pc # "idle" /\ tally' = tally /\ \E p \in {"forget", "load"} : Go(r, p)
      BY <1>4 DEF PruneRows
  <2>4. Held(r)'
      BY <2>3, <1>g, <1>h DEF Held
  <2> QED
      BY <1>1, <2>2, <2>4
<1>5. CASE Read(r)
  <2>1. CASE NextKey(r, "load", req[r].for)
      BY <1>5, <2>1, <1>2, <1>f DEF Read
  <2>2. CASE req' = [req EXCEPT ![r].read = table[Key(r)],
                                ![r].pc = IF table[Key(r)] = NoRow THEN "mark" ELSE "seed"]
    <3> DEFINE v == [req[r] EXCEPT !.read = table[Key(r)],
                                   !.pc = IF table[Key(r)] = NoRow THEN "mark" ELSE "seed"]
    <3>1. req' = [req EXCEPT ![r] = v] /\ req[r].pc # "idle" /\ UNCHANGED <<memory, table, tally>>
        BY <1>5, <2>2 DEF Read
    <3>2. /\ v.read = table[Key(r)] /\ v.entry = req[r].entry
          /\ v.user = req[r].user /\ v.i = req[r].i
        BY <1>r DEF Locals
    <3> HIDE DEF v
    <3>3. Key(r)' = Key(r) /\ req'[r].read = table[Key(r)] /\ req'[r].entry = req[r].entry
        BY <3>1, <3>2, <1>r, SameKey
    <3>4. Held(r)'
        BY <3>1, <3>3, <1>h, <1>q, <1>r DEF Held, CountsAreReal
    <3>5. CountsAreReal' /\ \A k \in Keys : tally'[k] >= tally[k]
        BY <3>1, <1>q, <1>r DEF CountsAreReal
    <3> QED
        BY <3>4, <3>5, <1>1
  <2> QED
      BY <1>5, <2>1, <2>2 DEF Read
<1>6. CASE Seed(r)
  <2>1. req[r].pc # "idle" /\ UNCHANGED <<table, tally>> /\ Go(r, "mark")
      BY <1>6 DEF Seed
  <2>2. Held(r)'
      BY <2>1, <1>g, <1>h DEF Held
  <2>3. \A k \in Keys : memory'[k].failures <= tally[k]
    <3>1. CASE memory' = memory
        BY <3>1, <1>q DEF CountsAreReal
    <3>2. CASE memory' # memory
      <4> DEFINE e == [memory[Key(r)] EXCEPT
                         !.failures = larger(req[r].read.failures, memory[Key(r)].failures),
                         !.blockedAt = larger(req[r].read.blockedAt, memory[Key(r)].blockedAt)]
      <4>1. memory' = [memory EXCEPT ![Key(r)] = e]
          BY <1>6, <3>2 DEF Seed
      <4>2. e.failures = larger(req[r].read.failures, memory[Key(r)].failures)
          BY <2>1, <1>r DEF Entries
      <4> HIDE DEF e
      <4>3. e.failures <= tally[Key(r)]
          BY <4>2, <2>1, <1>h, <1>q, <1>r DEF larger, Held, CountsAreReal
      <4> QED
          BY <4>1, <4>3, <2>1, <1>q, <1>r DEF CountsAreReal
    <3> QED
        BY <3>1, <3>2
  <2> QED
      BY <2>1, <2>2, <2>3, <1>1, <1>q, <1>r DEF CountsAreReal
<1>7. CASE Decide(r)
  <2>1. req[r].pc # "idle" /\ UNCHANGED <<table, tally>> /\ (Go(r, "verify") \/ Leave(r))
      BY <1>7 DEF Decide
  <2>2. Held(r)'
      BY <2>1, <1>g, <1>h, <1>z, <1>r DEF Held, Leave
  <2>3. \A k \in Keys : memory'[k].failures <= tally[k]
      BY <1>7, <1>z, <1>q, <1>r DEF Decide, Forget, CountsAreReal
  <2> QED
      BY <2>1, <2>2, <2>3, <1>1, <1>q, <1>r DEF CountsAreReal
<1>8. CASE RecordFailure(r)
  <2>1. req[r].pc # "idle" /\ UNCHANGED table /\ Go(r, "persist")
      BY <1>8 DEF RecordFailure
  <2>2. \A k \in Keys : tally'[k] >= tally[k] /\ memory'[k].failures <= tally'[k]
    <3> SUFFICES ASSUME NEW k \in Keys
                 PROVE  tally'[k] >= tally[k] /\ memory'[k].failures <= tally'[k]
        OBVIOUS
    <3>1. /\ memory[k].failures \in Nat /\ tally[k] \in Nat
          /\ memory[k].failures <= tally[k]
        BY <1>q, <1>r DEF CountsAreReal, Entries
    <3>2. CASE k \in {Address, req[r].user}
      <4>1. memory'[k].failures = memory[k].failures + 1 /\ tally'[k] = tally[k] + 1
          BY <1>8, <3>2 DEF RecordFailure
      <4> QED
          BY <3>1, <4>1
    <3>3. CASE k \notin {Address, req[r].user}
      <4>1. memory'[k] = memory[k] /\ tally'[k] = tally[k]
          BY <1>8, <3>3 DEF RecordFailure
      <4> QED
          BY <3>1, <4>1
    <3> QED
        BY <3>2, <3>3
  <2>3. CountsAreReal'
    <3>1. \A k \in Keys : tally'[k] \in Nat /\ tally[k] \in Nat /\ table[k].failures \in Nat
        BY <1>r, <1>t DEF TypeOK, Rows
    <3> QED
        BY <2>1, <2>2, <3>1, <1>q DEF CountsAreReal
  <2>4. Held(r)'
    <3>1. /\ Key(r) \in Keys /\ tally'[Key(r)] >= tally[Key(r)]
          /\ tally'[Key(r)] \in Nat /\ tally[Key(r)] \in Nat
          /\ req[r].read.failures \in Nat /\ req[r].entry.failures \in Nat
        BY <2>1, <2>2, <1>r, <1>t DEF TypeOK, Rows, Entries
    <3> QED
        BY <2>1, <3>1, <1>g, <1>h DEF Held
  <2> QED
      BY <2>2, <2>3, <2>4, <1>1
<1>9. CASE Reset(r)
  <2> DEFINE v == [req[r] EXCEPT !.pc = "persist", !.for = "reset"]
  <2>1. req' = [req EXCEPT ![r] = v] /\ req[r].pc # "idle" /\ UNCHANGED <<table, tally>>
      BY <1>9 DEF Reset
  <2>2. v.read = req[r].read /\ v.entry = req[r].entry /\ v.user = req[r].user /\ v.i = req[r].i
      BY <1>r DEF Locals
  <2> HIDE DEF v
  <2>3. Held(r)'
      BY <2>1, <2>2, <1>h, <1>r, SameKey DEF Held
  <2>4. \A k \in Keys : memory'[k].failures <= tally[k]
      BY <1>9, <1>z, <1>q, <1>r DEF Reset, Forget, CountsAreReal
  <2> QED
      BY <2>1, <2>3, <2>4, <1>1, <1>q, <1>r DEF CountsAreReal
<1>10. CASE Lookup(r)
  <2> DEFINE v == [req[r] EXCEPT !.entry = memory[Key(r)], !.era = era[Key(r)], !.pc = "write"]
  <2>1. req' = [req EXCEPT ![r] = v] /\ req[r].pc # "idle" /\ UNCHANGED <<memory, table, tally>>
      BY <1>10 DEF Lookup
  <2>2. v.read = req[r].read /\ v.entry = memory[Key(r)] /\ v.user = req[r].user /\ v.i = req[r].i
      BY <1>r DEF Locals
  <2> HIDE DEF v
  <2>3. Key(r)' = Key(r) /\ req'[r].read = req[r].read /\ req'[r].entry = memory[Key(r)]
      BY <2>1, <2>2, <1>r, SameKey
  <2>4. Held(r)'
      BY <2>1, <2>3, <1>h, <1>q, <1>r DEF Held, CountsAreReal
  <2>5. CountsAreReal' /\ \A k \in Keys : tally'[k] >= tally[k]
      BY <2>1, <1>q, <1>r DEF CountsAreReal
  <2> QED
      BY <2>4, <2>5, <1>1
<1>11. CASE Write(r)
  <2>1. /\ req[r].pc # "idle" /\ UNCHANGED <<memory, tally>> /\ NextKey(r, "lookup", "unlock")
        /\ Key(r) \in Keys
      BY <1>11, <1>r DEF Write
  <2>2. Held(r)'
      BY <2>1, <1>n, <1>p, <1>r DEF Held
  <2>3. \A k \in Keys : table'[k].failures <= tally[k]
    <3>1. CASE UNCHANGED <<table, tableEra>>
        BY <3>1, <1>q DEF CountsAreReal
    <3>2. ASSUME NEW row, row.failures <= tally[Key(r)], Put(Key(r), row, req[r].era)
          PROVE  \A k \in Keys : table'[k].failures <= tally[k]
        BY <3>2, <2>1, <1>q, <1>r DEF Put, CountsAreReal
    <3>3. NoRow.failures <= tally[Key(r)] /\ req[r].entry.failures <= tally[Key(r)]
        BY <2>1, <1>z, <1>h, <1>r DEF Held
    <3> QED
        BY <1>11, <3>1, <3>2, <3>3 DEF Write
  <2> QED
      BY <2>1, <2>2, <2>3, <1>1, <1>q, <1>r DEF CountsAreReal
<1> QED
    BY <1>3, <1>4, <1>5, <1>6, <1>7, <1>8, <1>9, <1>10, <1>11 DEF Step

\* No login is ever charged with failures nobody made.
THEOREM CountsStayReal == Spec => []CountsAreReal
<1>1. Init => RealInv
    BY Values DEF Init, RealInv, TypeOK, CountsAreReal, NoEntry, NoRow, Idle, Locals, Proper
<1>2. RealInv /\ [Next]_vars => RealInv'
  <2> SUFFICES ASSUME RealInv, [Next]_vars PROVE RealInv'
      OBVIOUS
  <2>1. TypeOK' /\ req \in [Requests -> Locals]
      BY TypeStep, Fields DEF RealInv, ReqTyped
  <2>2. ASSUME NEW r \in Requests, NEW u \in Users, Begin(r, u) PROVE RealInv'
    <3> DEFINE v == [Idle EXCEPT !.pc = "prune", !.user = u]
    <3>1. req' = [req EXCEPT ![r] = v] /\ UNCHANGED <<memory, table, tally>>
        BY <2>2 DEF Begin, limiterVars, historyVars
    <3>2. v.read.failures = 0 /\ v.entry.failures = 0 /\ v.user = u /\ v.i = 1
        BY DEF Idle, NoRow, NoEntry
    <3> HIDE DEF v
    <3>3. Key(r)' \in Keys /\ tally \in [Keys -> Nat]
        BY <2>1, <2>2, <3>1, <3>2, Fields DEF RealInv, Key, KeysOf, Keys
    <3>4. \A s \in Requests : s # r => req'[s] = req[s] /\ Key(s)' = Key(s)
        BY <2>1, <3>1, SameKey
    <3>5. req'[r].read.failures = 0 /\ req'[r].entry.failures = 0
        BY <2>1, <3>1, <3>2
    <3> QED
        BY <2>1, <3>1, <3>3, <3>4, <3>5 DEF RealInv, CountsAreReal
  <2>3. CASE Tick
      BY <2>1, <2>3 DEF Tick, limiterVars, historyVars, RealInv, CountsAreReal, Key
  <2>4. CASE Restart
    <3>1. \A k \in Keys : memory'[k].failures = 0
        BY <2>4 DEF Restart, NoEntry
    <3>2. \A r \in Requests : req'[r].pc = "idle"
        BY <2>4 DEF Restart, Idle
    <3> QED
        BY <2>1, <2>4, <3>1, <3>2, Fields DEF Restart, historyVars, RealInv, CountsAreReal
  <2>5. CASE UNCHANGED vars
      BY <2>1, <2>5 DEF vars, limiterVars, historyVars, RealInv, CountsAreReal, Key
  <2> QED
      BY <2>2, <2>3, <2>4, <2>5, StepCounts DEF Next
<1>3. RealInv => CountsAreReal
    BY DEF RealInv
<1> QED
    BY <1>1, <1>2, <1>3, PTL DEF Spec

-----------------------------------------------------------------------------
(* StoredCountsNeverFall and BlocksHold *)

\* x counts all that y counts, and blocks as long as y does.
Covers(x, y) ==
    /\ x.failures >= y.failures
    /\ y.failures >= Limit => x.blockedAt >= y.blockedAt

\* Memory knows of the failures that the table has for k, or forgave them.
Mirrored(k) == era[k] > tableEra[k] \/ Covers(memory[k], table[k])

\* No block is of the future, so a new one is never older than those there are.
Past ==
    /\ \A k \in Keys : memory[k].blockedAt <= now /\ table[k].blockedAt <= now
    /\ \A r \in Requests : req[r].read.blockedAt <= now /\ req[r].entry.blockedAt <= now

\* Once a request has read a key it works on, memory mirrors the table for it,
\* whether or not a prune unloads the key.
Knows(r) ==
    /\ At(r, "seed") /\ Key(r) \notin ReadErrors =>
          Mirrored(Key(r)) \/ Covers(req[r].read, table[Key(r)])
    /\ At(r, "mark") /\ Key(r) \notin ReadErrors => Mirrored(Key(r))
    /\ req[r].pc \in {"load", "read", "seed", "mark"} /\ req[r].i = 2 /\ Address \notin ReadErrors =>
          Mirrored(Address)
    /\ req[r].pc \in {"allow", "verify", "fail", "persist", "lookup", "write"} =>
          \A k \in {Address, req[r].user} \ ReadErrors : Mirrored(k)

\* What a request is about to write covers what the table has, and memory
\* covers it, unless the one or the other was forgiven.
Writes(r) == At(r, "write") =>
    /\ req[r].era <= era[Key(r)]
    /\ era[Key(r)] > req[r].era \/ Covers(memory[Key(r)], req[r].entry)
    /\ Key(r) \notin ReadErrors =>
          req[r].era > tableEra[Key(r)] \/ Covers(req[r].entry, table[Key(r)])

Good(r) ==
    /\ Knows(r) /\ Writes(r)
    /\ req[r].pc \in {"prune", "delete rows", "forget"} => req[r].i = 1
    /\ req[r].pc \in {"lookup", "write", "unlock"} => persister = r

MirrorInv ==
    /\ TypeOK
    /\ Past
    /\ \A k \in Keys : tableEra[k] <= era[k]
    /\ \A k \in loaded \ ReadErrors : Mirrored(k)
    /\ \A r \in Requests : Good(r)

Counted(x) == x.failures \in Nat /\ x.blockedAt \in Int

\* Covering is reflexive and transitive, and everything covers an empty row.
LEMMA CoversOrder ==
  ASSUME NEW x, NEW y, NEW z, Counted(x), Counted(y), Counted(z)
  PROVE  /\ Covers(x, x)
         /\ Covers(x, y) /\ Covers(y, z) => Covers(x, z)
         /\ Covers(x, NoRow) /\ Covers(x, NoEntry)
BY LimitAssumption DEF Covers, Counted, NoRow, NoEntry

\* The table never keeps a later time than it is given.
LEMMA StoredIsEarlier == \A t \in Int : Stored(t) \in Int /\ Stored(t) <= t
<1> SUFFICES ASSUME NEW t \in Int PROVE Stored(t) \in Int /\ Stored(t) <= t
    OBVIOUS
<1>1. t % Second \in Nat
    BY TimesAssumption
<1> QED
    BY <1>1, TimesAssumption DEF Stored, ZeroTime

\* The types of counts in memory, in the table and in the requests' copies.
LEMMA AllCounted ==
  ASSUME TypeOK
  PROVE  /\ \A k \in Keys : Counted(memory[k]) /\ Counted(table[k])
                            /\ era[k] \in Nat /\ tableEra[k] \in Nat
         /\ \A r \in Requests : /\ Counted(req[r].read) /\ Counted(req[r].entry)
                                /\ req[r].era \in Nat
<1>1. /\ memory \in [Keys -> Entries] /\ table \in [Keys -> Rows]
      /\ era \in [Keys -> Nat] /\ tableEra \in [Keys -> Nat]
      /\ \A r \in Requests : req[r].read \in Rows /\ req[r].entry \in Entries /\ req[r].era \in Nat
    BY Fields DEF ReqTyped, Locals
<1> QED
    BY <1>1 DEF Counted, Entries, Rows

\* The same of the next state.
LEMMA AllCountedNext ==
  ASSUME TypeOK'
  PROVE  /\ \A k \in Keys : Counted(memory'[k]) /\ Counted(table'[k])
                            /\ era'[k] \in Nat /\ tableEra'[k] \in Nat
         /\ \A r \in Requests : req'[r] \in Locals
<1>1. /\ memory' \in [Keys -> Entries] /\ table' \in [Keys -> Rows]
      /\ era' \in [Keys -> Nat] /\ tableEra' \in [Keys -> Nat]
      /\ req' \in [Requests -> Locals]
    BY DEF TypeOK, Locals
<1> QED
    BY <1>1 DEF Counted, Entries, Rows

\* A request's step changes its own variables only.
LEMMA OwnStep ==
  ASSUME TypeOK, NEW r \in Requests, Step(r), NEW s \in Requests, s # r
  PROVE  req'[s] = req[s]
<1> USE DEF At
<1>1. req \in [Requests -> Locals]
    BY Fields DEF ReqTyped
<1>2. CASE MaybePrune(r) \/ PruneRows(r) \/ ForgetLoaded(r) \/ Load(r) \/ Read(r)
    BY <1>1, <1>2 DEF MaybePrune, PruneRows, ForgetLoaded, Load, Read, Go, NextKey
<1>3. CASE Seed(r) \/ MarkLoaded(r) \/ Decide(r) \/ WrongPassword(r) \/ RecordFailure(r)
    BY <1>1, <1>3 DEF Seed, MarkLoaded, Decide, WrongPassword, RecordFailure, Go, NextKey, Leave
<1>4. CASE Reset(r) \/ LockPersist(r) \/ Lookup(r) \/ Write(r) \/ Unlock(r)
    BY <1>1, <1>4 DEF Reset, LockPersist, Lookup, Write, Unlock, NextKey, Leave
<1> QED
    BY <1>2, <1>3, <1>4 DEF Step

\* Memory still counts for k what it counted, or k was forgiven.
Remembers(k) ==
    \/ era'[k] > era[k]
    \/ era'[k] = era[k] /\ Covers(memory'[k], memory[k])

\* The row of k lost nothing that a reader of it could miss.
Kept(k) == tableEra'[k] = tableEra[k] /\ Covers(table[k], table'[k])

\* Memory goes on to mirror a row that is kept.
LEMMA MirroredStays ==
  ASSUME TypeOK, TypeOK', NEW k \in Keys, tableEra[k] <= era[k], Mirrored(k), Remembers(k), Kept(k)
  PROVE  Mirrored(k)'
<1>1. Counted(memory[k]) /\ Counted(table[k]) /\ era[k] \in Nat /\ tableEra[k] \in Nat
    BY AllCounted
<1>2. Counted(memory'[k]) /\ Counted(table'[k]) /\ era'[k] \in Nat /\ tableEra'[k] \in Nat
    BY AllCountedNext
<1>3. CASE era[k] > tableEra[k] \/ era'[k] > era[k]
    BY <1>1, <1>2, <1>3 DEF Mirrored, Remembers, Kept
<1>4. CASE /\ Covers(memory[k], table[k]) /\ Covers(memory'[k], memory[k])
           /\ Covers(table[k], table'[k])
  <2>1. Covers(memory'[k], table[k])
      BY <1>1, <1>2, <1>4, CoversOrder
  <2>2. Covers(memory'[k], table'[k])
      BY <1>1, <1>2, <1>4, <2>1, CoversOrder
  <2> QED
      BY <2>2 DEF Mirrored
<1> QED
    BY <1>3, <1>4 DEF Mirrored, Remembers, Kept

\* What a request knows survives a step of another that remembers every key
\* and keeps every row, or writes one that memory mirrors.
LEMMA OthersStayGood ==
  ASSUME MirrorInv, TypeOK', NEW s \in Requests, req'[s] = req[s],
         \A k \in Keys : Remembers(k),
         \A k \in Keys : Kept(k) \/ (Mirrored(k)' /\ ~At(s, "write")),
         req[s].pc \in {"lookup", "write", "unlock"} => persister' = persister
  PROVE  Good(s)'
<1> USE DEF At
<1>1. TypeOK /\ Good(s)
    BY DEF MirrorInv
<1>2. \A k \in Keys : Mirrored(k) => Mirrored(k)'
    BY <1>1, MirroredStays DEF MirrorInv
<1>3. CASE req[s].pc = "idle"
    BY <1>3 DEF Good, Knows, Writes
<1>4. CASE req[s].pc # "idle"
  <2>1. Key(s) \in Keys /\ Address \in Keys /\ req[s].user \in Keys /\ Key(s)' = Key(s)
      BY <1>1, <1>4, KeyIsKey DEF Key
  <2>2. /\ Counted(memory[Key(s)]) /\ Counted(table[Key(s)])
        /\ era[Key(s)] \in Nat /\ tableEra[Key(s)] \in Nat
        /\ Counted(req[s].read) /\ Counted(req[s].entry) /\ req[s].era \in Nat
      BY <1>1, <2>1, AllCounted
  <2>3. /\ Counted(memory'[Key(s)]) /\ Counted(table'[Key(s)])
        /\ era'[Key(s)] \in Nat /\ tableEra'[Key(s)] \in Nat
      BY <2>1, AllCountedNext
  <2>4. Remembers(Key(s)) /\ (Kept(Key(s)) \/ (Mirrored(Key(s))' /\ ~At(s, "write")))
      BY <2>1
  <2>5. Knows(s)'
    <3>1. ASSUME Covers(req[s].read, table[Key(s)])
          PROVE  Mirrored(Key(s))' \/ Covers(req[s].read, table'[Key(s)])
        BY <2>2, <2>3, <2>4, <3>1, CoversOrder DEF Kept
    <3>2. /\ At(s, "seed") /\ Key(s) \notin ReadErrors =>
                Mirrored(Key(s))' \/ Covers(req[s].read, table'[Key(s)])
          /\ At(s, "mark") /\ Key(s) \notin ReadErrors => Mirrored(Key(s))'
        BY <1>1, <1>2, <2>1, <3>1 DEF Good, Knows
    <3>3. /\ (req[s].pc \in {"load", "read", "seed", "mark"} /\ req[s].i = 2
              /\ Address \notin ReadErrors) => Mirrored(Address)'
          /\ req[s].pc \in {"allow", "verify", "fail", "persist", "lookup", "write"} =>
                \A k \in {Address, req[s].user} \ ReadErrors : Mirrored(k)'
        BY <1>1, <1>2, <2>1 DEF Good, Knows
    <3> QED
        BY <2>1, <3>2, <3>3 DEF Knows
  <2>6. Writes(s)'
    <3>1. CASE At(s, "write")
      <4>1. Kept(Key(s)) /\ Writes(s)
          BY <1>1, <2>4, <3>1 DEF Good
      <4>2. req[s].era <= era'[Key(s)]
          BY <2>2, <2>3, <2>4, <3>1, <4>1 DEF Writes, Remembers
      <4>3. era'[Key(s)] > req[s].era \/ Covers(memory'[Key(s)], req[s].entry)
          BY <2>2, <2>3, <2>4, <3>1, <4>1, CoversOrder DEF Writes, Remembers
      <4>4. Key(s) \notin ReadErrors =>
              req[s].era > tableEra'[Key(s)] \/ Covers(req[s].entry, table'[Key(s)])
          BY <2>2, <2>3, <3>1, <4>1, CoversOrder DEF Writes, Kept
      <4> QED
          BY <2>1, <4>2, <4>3, <4>4 DEF Writes
    <3>2. CASE ~At(s, "write")
        BY <3>2 DEF Writes
    <3> QED
        BY <3>1, <3>2
  <2> QED
      BY <1>1, <2>5, <2>6 DEF Good
<1> QED
    BY <1>3, <1>4

\* Every step of a request keeps memory a mirror of the table.
LEMMA StepMirrors ==
  ASSUME MirrorInv, NEW r \in Requests, Step(r)
  PROVE  MirrorInv'
<1> USE DEF At, historyVars, limiterVars
<1>t. TypeOK /\ TypeOK' /\ Good(r) /\ Past
    BY StepType DEF MirrorInv
<1>r. /\ req \in [Requests -> Locals] /\ req' \in [Requests -> Locals]
      /\ req[r] \in Locals /\ Proper(req[r]) /\ req[r].i \in {1, 2}
      /\ now \in Nat
    BY <1>t, Fields DEF TypeOK, ReqTyped, Locals
<1>p. req[r].pc # "idle"
    BY DEF Step, MaybePrune, PruneRows, ForgetLoaded, Load, Read, Seed, MarkLoaded, Decide,
           WrongPassword, RecordFailure, Reset, LockPersist, Lookup, Write, Unlock
<1>k. /\ Key(r) \in Keys /\ Address \in Keys /\ req[r].user \in Keys
      /\ req[r].i = 1 => Key(r) = Address
      /\ req[r].i = 2 => Key(r) = req[r].user
    BY <1>t, <1>p, KeyIsKey DEF Key, KeysOf
<1>c. /\ \A k \in Keys : /\ Counted(memory[k]) /\ Counted(table[k])
                         /\ era[k] \in Nat /\ tableEra[k] \in Nat /\ tableEra[k] <= era[k]
      /\ Counted(req[r].read) /\ Counted(req[r].entry) /\ req[r].era \in Nat
    BY <1>t, AllCounted DEF MirrorInv
<1>d. \A k \in Keys : /\ Counted(memory'[k]) /\ Counted(table'[k])
                      /\ era'[k] \in Nat /\ tableEra'[k] \in Nat
    BY <1>t, AllCountedNext
<1>o. \A s \in Requests : s # r => req'[s] = req[s]
    BY <1>t, OwnStep
<1>z. /\ ZeroTime <= now /\ NoEntry.blockedAt = ZeroTime /\ NoRow.blockedAt = ZeroTime
      /\ NoEntry.failures = 0 /\ NoRow.failures = 0 /\ Counted(NoEntry) /\ Counted(NoRow)
      /\ Idle.pc = "idle" /\ Idle.read = NoRow /\ Idle.entry = NoEntry
    BY <1>r, TimesAssumption DEF ZeroTime, NoEntry, NoRow, Idle, Counted
\* What a step has to show.
<1>1. ASSUME \A k \in Keys : Remembers(k),
             \A k \in Keys : Kept(k) \/ (Mirrored(k)' /\ At(r, "write")),
             \/ persister' = persister
             \/ At(r, "persist") /\ persister = NoOne
             \/ At(r, "unlock"),
             Good(r)',
             \A k \in loaded' \ ReadErrors : k \in loaded \/ Mirrored(k)',
             \A k \in Keys : memory'[k].blockedAt <= now /\ table'[k].blockedAt <= now,
             req'[r].read.blockedAt <= now /\ req'[r].entry.blockedAt <= now,
             \A k \in Keys : tableEra'[k] <= era'[k],
             now' = now
      PROVE  MirrorInv'
  <2>1. ASSUME NEW s \in Requests, s # r PROVE Good(s)'
    <3>1. Good(s) /\ req'[s] = req[s] /\ s # NoOne
        BY <1>o, <2>1, NamesAssumption DEF MirrorInv
    <3>2. req[s].pc \in {"lookup", "write", "unlock"} =>
            persister = s /\ ~At(r, "write") /\ ~At(r, "unlock")
        BY <1>t, <2>1, <3>1 DEF Good
    <3>3. /\ req[s].pc \in {"lookup", "write", "unlock"} => persister' = persister
          /\ \A k \in Keys : Kept(k) \/ (Mirrored(k)' /\ ~At(s, "write"))
        BY <1>1, <3>1, <3>2
    <3> QED
        BY <1>1, <1>t, <3>1, <3>3, OthersStayGood
  <2>2. \A k \in Keys : Mirrored(k) => Mirrored(k)'
      BY <1>1, <1>t, <1>c, MirroredStays
  <2>3. \A k \in loaded' \ ReadErrors : Mirrored(k)'
      BY <1>1, <2>2, <1>t DEF MirrorInv, TypeOK
  <2>4. Past'
      BY <1>1, <1>t, <1>o DEF Past
  <2> QED
      BY <1>1, <1>t, <2>1, <2>3, <2>4 DEF MirrorInv
\* What its request has to know, by where it goes.
<1>2. ASSUME req'[r].pc \in {"allow", "verify", "fail", "persist", "lookup"},
             \A k \in {Address, req'[r].user} \ ReadErrors : Mirrored(k)',
             req'[r].pc = "lookup" => persister' = r
      PROVE  Good(r)'
    BY <1>2 DEF Good, Knows, Writes
<1>3. ASSUME req'[r].pc \in {"load", "read"},
             req'[r].i = 2 /\ Address \notin ReadErrors => Mirrored(Address)'
      PROVE  Good(r)'
    BY <1>3 DEF Good, Knows, Writes
<1>4. ASSUME \/ req'[r].pc = "idle"
             \/ req'[r].pc \in {"prune", "delete rows", "forget"} /\ req'[r].i = 1
             \/ req'[r].pc = "unlock" /\ persister' = r
      PROVE  Good(r)'
    BY <1>4 DEF Good, Knows, Writes
\* What the ways to go on leave alone.
<1>g. ASSUME NEW p, Go(r, p)
      PROVE  /\ req'[r].pc = p /\ req'[r].i = req[r].i /\ req'[r].user = req[r].user
             /\ req'[r].read = req[r].read /\ req'[r].entry = req[r].entry
             /\ Key(r)' = Key(r)
    BY <1>g, <1>r, SameKey DEF Go, Locals
<1>n. ASSUME NEW p, NEW q, NextKey(r, p, q)
      PROVE  /\ req[r].i = 1 => req'[r].pc = p /\ req'[r].i = 2
             /\ req[r].i = 2 => req'[r].pc = q /\ req'[r].i = 1
             /\ req'[r].user = req[r].user
             /\ req'[r].read = NoRow /\ req'[r].entry = NoEntry
    BY <1>n, <1>r DEF NextKey, Locals
<1>w. req[r].read.blockedAt <= now /\ req[r].entry.blockedAt <= now
    BY <1>t DEF Past
<1>m. \A k \in Keys : memory[k].blockedAt <= now /\ table[k].blockedAt <= now
    BY <1>t DEF Past
\* A step that touches neither counts nor rows.
<1>5. ASSUME UNCHANGED <<memory, table, era, tableEra>>
      PROVE  /\ \A k \in Keys : Remembers(k) /\ Kept(k)
             /\ \A k \in Keys : Mirrored(k) => Mirrored(k)'
             /\ \A k \in Keys : memory'[k].blockedAt <= now /\ table'[k].blockedAt <= now
             /\ \A k \in Keys : tableEra'[k] <= era'[k]
  <2>1. \A k \in Keys : Covers(memory[k], memory[k]) /\ Covers(table[k], table[k])
      BY <1>c, CoversOrder
  <2> QED
      BY <1>5, <2>1, <1>c, <1>m DEF Remembers, Kept, Mirrored
\* On from a key that has been read.
<1>6. ASSUME UNCHANGED <<memory, table, era, tableEra>>,
             NextKey(r, "load", req[r].for),
             req[r].pc \in {"load", "read", "mark"},
             Key(r) \notin ReadErrors => Mirrored(Key(r))
      PROVE  Good(r)'
  <2>1. req[r].for \in {"allow", "fail"}
      BY <1>6, <1>r DEF Locals, Proper
  <2>2. CASE req[r].i = 1
      BY <1>6, <2>2, <1>n, <1>k, <1>5, <1>3
  <2>3. CASE req[r].i = 2
    <3>1. Address \notin ReadErrors => Mirrored(Address)
        BY <1>6, <2>3, <1>t DEF Good, Knows
    <3>2. \A k \in {Address, req[r].user} \ ReadErrors : Mirrored(k)'
        BY <1>6, <2>3, <3>1, <1>k, <1>5
    <3> QED
        BY <1>6, <2>1, <2>3, <3>2, <1>n, <1>2
  <2> QED
      BY <2>2, <2>3, <1>r
<1>7. CASE MaybePrune(r)
  <2>1. req[r].i = 1
      BY <1>7, <1>t DEF MaybePrune, Good
  <2>2. CASE now < nextPrune
      BY <1>7, <2>1, <2>2, <1>1, <1>3, <1>5, <1>g, <1>w DEF MaybePrune
  <2>3. CASE ~(now < nextPrune)
    <3> DEFINE v == [req[r] EXCEPT !.pc = "delete rows", !.cut = now - 2 * Cooldown]
    <3>1. req' = [req EXCEPT ![r] = v]
        BY <1>7, <2>3 DEF MaybePrune
    <3>2. v.pc = "delete rows" /\ v.i = 1 /\ v.read = req[r].read /\ v.entry = req[r].entry
        BY <2>1, <1>r DEF Locals
    <3> HIDE DEF v
    <3>3. /\ req'[r].pc = "delete rows" /\ req'[r].i = 1
          /\ req'[r].read = req[r].read /\ req'[r].entry = req[r].entry
        BY <3>1, <3>2, <1>r
    <3> QED
        BY <1>7, <3>3, <1>1, <1>4, <1>5, <1>w DEF MaybePrune
  <2> QED
      BY <2>2, <2>3
<1>8. CASE PruneRows(r)
  <2>1. /\ req[r].i = 1
        /\ \/ Go(r, "forget")
           \/ Go(r, "load")
      BY <1>8, <1>t DEF PruneRows, Good
  <2>2. Good(r)'
    <3>1. CASE Go(r, "forget")
        BY <2>1, <3>1, <1>g, <1>4
    <3>2. CASE Go(r, "load")
        BY <2>1, <3>2, <1>g, <1>3
    <3> QED
        BY <2>1, <3>1, <3>2
  <2>3. /\ UNCHANGED <<now, memory, loaded, persister, era, tableEra>>
        /\ \A k \in Keys : table'[k] \in {table[k], NoRow}
      BY <1>8 DEF PruneRows
  <2>4. \A k \in Keys : Covers(memory[k], memory[k]) /\ Covers(table[k], table[k])
                        /\ Covers(table[k], NoRow)
      BY <1>c, CoversOrder
  <2>5. \A k \in Keys : Remembers(k) /\ Kept(k)
      BY <2>3, <2>4 DEF Remembers, Kept
  <2>6. \A k \in Keys : memory'[k].blockedAt <= now /\ table'[k].blockedAt <= now
      BY <2>3, <1>m, <1>z
  <2>7. req'[r].read.blockedAt <= now /\ req'[r].entry.blockedAt <= now
      BY <2>1, <1>g, <1>w
  <2> QED
      BY <2>2, <2>3, <2>5, <2>6, <2>7, <1>c, <1>1
<1>9. CASE ForgetLoaded(r)
  <2>1. req[r].i = 1
      BY <1>9, <1>t DEF ForgetLoaded, Good
  <2> QED
      BY <1>9, <2>1, <1>1, <1>3, <1>5, <1>g, <1>w DEF ForgetLoaded
<1>10. CASE Load(r)
  <2>1. CASE Key(r) \in loaded
    <3>1. Good(r)'
        BY <1>10, <2>1, <1>6 DEF Load, MirrorInv
    <3> QED
        BY <1>10, <2>1, <3>1, <1>1, <1>5, <1>n, <1>z DEF Load
  <2>2. CASE Key(r) \notin loaded
    <3>1. Good(r)'
        BY <1>10, <2>2, <1>3, <1>5, <1>g, <1>k, <1>t DEF Load, Good, Knows
    <3> QED
        BY <1>10, <2>2, <3>1, <1>1, <1>5, <1>g, <1>w DEF Load
  <2> QED
      BY <2>1, <2>2
<1>11. CASE Read(r)
  <2>1. CASE Key(r) \in ReadErrors /\ NextKey(r, "load", req[r].for)
    <3>1. Good(r)'
        BY <1>11, <2>1, <1>6 DEF Read
    <3> QED
        BY <1>11, <2>1, <3>1, <1>1, <1>5, <1>n, <1>z DEF Read
  <2>2. CASE req' = [req EXCEPT ![r].read = table[Key(r)],
                                ![r].pc = IF table[Key(r)] = NoRow THEN "mark" ELSE "seed"]
    <3> DEFINE v == [req[r] EXCEPT !.read = table[Key(r)],
                                   !.pc = IF table[Key(r)] = NoRow THEN "mark" ELSE "seed"]
    <3>1. req' = [req EXCEPT ![r] = v]
        BY <2>2
    <3>2. /\ v.pc = (IF table[Key(r)] = NoRow THEN "mark" ELSE "seed")
          /\ v.i = req[r].i /\ v.user = req[r].user
          /\ v.read = table[Key(r)] /\ v.entry = req[r].entry
        BY <1>r DEF Locals
    <3> HIDE DEF v
    <3>3. /\ req'[r].pc = (IF table[Key(r)] = NoRow THEN "mark" ELSE "seed")
          /\ req'[r].i = req[r].i /\ Key(r)' = Key(r)
          /\ req'[r].read = table[Key(r)] /\ req'[r].entry = req[r].entry
        BY <3>1, <3>2, <1>r, SameKey
    <3>4. UNCHANGED <<memory, table, era, tableEra>> /\ req[r].pc = "read"
        BY <1>11, <2>2 DEF Read
    <3>5. Covers(memory[Key(r)], NoRow) /\ Covers(table[Key(r)], table[Key(r)])
        BY <1>c, <1>k, CoversOrder
    <3>6. req[r].i = 2 /\ Address \notin ReadErrors => Mirrored(Address)'
        BY <3>4, <1>5, <1>k, <1>t DEF Good, Knows
    <3>7. CASE table[Key(r)] = NoRow
      <4>1. Mirrored(Key(r))'
          BY <3>3, <3>4, <3>5, <3>7, <1>k DEF Mirrored
      <4>2. Good(r)'
          BY <3>3, <3>6, <3>7, <4>1 DEF Good, Knows, Writes
      <4> QED
          BY <1>11, <3>3, <3>4, <4>2, <1>1, <1>5, <1>w, <1>m, <1>k DEF Read
    <3>8. CASE table[Key(r)] # NoRow
      <4>1. Covers(req'[r].read, table'[Key(r)])
          BY <3>3, <3>4, <3>5
      <4>2. Good(r)'
          BY <3>3, <3>6, <3>8, <4>1 DEF Good, Knows, Writes
      <4> QED
          BY <1>11, <3>3, <3>4, <4>2, <1>1, <1>5, <1>w, <1>m, <1>k DEF Read
    <3> QED
        BY <3>7, <3>8
  <2> QED
      BY <1>11, <2>1, <2>2 DEF Read
<1>12. CASE Seed(r)
  <2>1. /\ UNCHANGED <<now, loaded, persister, table, tableEra>> /\ Go(r, "mark")
        /\ At(r, "seed")
      BY <1>12 DEF Seed
  <2>2. \A k \in Keys : Kept(k)
      BY <2>1, <1>c, CoversOrder DEF Kept
  <2>3. \A k \in Keys : Covers(memory[k], memory[k])
      BY <1>c, CoversOrder
\* An expired row is not restored, another one is merged.
  <2>4. /\ \A k \in Keys : Remembers(k) /\ memory'[k].blockedAt <= now
        /\ \/ era'[Key(r)] > era[Key(r)]
           \/ Covers(memory'[Key(r)], req[r].read)
    <3>1. CASE Expired(req[r].read)
      <4>1. memory' = memory /\ era' = [era EXCEPT ![Key(r)] = @ + 1]
          BY <1>12, <3>1 DEF Seed
      <4>2. \A k \in Keys : era \in [Keys -> Nat] /\ era[k] \in Nat
          BY <1>t DEF TypeOK
      <4> QED
          BY <4>1, <4>2, <2>3, <1>k, <1>m DEF Remembers
    <3>2. CASE ~Expired(req[r].read)
      <4> DEFINE e == [memory[Key(r)] EXCEPT
                         !.failures = larger(req[r].read.failures, memory[Key(r)].failures),
                         !.blockedAt = larger(req[r].read.blockedAt, memory[Key(r)].blockedAt)]
      <4>1. memory' = [memory EXCEPT ![Key(r)] = e] /\ era' = era
          BY <1>12, <3>2 DEF Seed
      <4>2. /\ e.failures = larger(req[r].read.failures, memory[Key(r)].failures)
            /\ e.blockedAt = larger(req[r].read.blockedAt, memory[Key(r)].blockedAt)
        <5>1. memory[Key(r)] \in Entries
            BY <1>t, <1>k DEF TypeOK
        <5> QED
            BY <5>1 DEF Entries
      <4> HIDE DEF e
      <4>3. Covers(e, memory[Key(r)]) /\ Covers(e, req[r].read) /\ e.blockedAt <= now
          BY <4>2, <1>c, <1>k, <1>m, <1>w, <1>r, LimitAssumption DEF Counted, Covers, larger
      <4>4. memory \in [Keys -> Entries]
          BY <1>t DEF TypeOK
      <4>5. memory'[Key(r)] = e /\ \A k \in Keys : k # Key(r) => memory'[k] = memory[k]
          BY <4>1, <4>4, <1>k
      <4> QED
          BY <4>1, <4>3, <4>5, <2>3, <1>m DEF Remembers
    <3> QED
        BY <3>1, <3>2
  <2>5. \A k \in Keys : Mirrored(k) => Mirrored(k)'
      BY <2>2, <2>4, <1>t, <1>c, MirroredStays
  <2>6. Key(r) \notin ReadErrors => Mirrored(Key(r))'
    <3>1. CASE Mirrored(Key(r))
        BY <3>1, <2>5, <1>k, <2>1, <1>g
    <3>2. CASE era'[Key(r)] > era[Key(r)]
        BY <3>2, <2>1, <1>c, <1>d, <1>k, <1>g DEF Mirrored
    <3>3. CASE Covers(memory'[Key(r)], req[r].read) /\ Covers(req[r].read, table[Key(r)])
        BY <3>3, <2>1, <1>c, <1>d, <1>k, <1>g, CoversOrder DEF Mirrored
    <3> QED
        BY <2>1, <2>4, <3>1, <3>2, <3>3, <1>t DEF Good, Knows
  <2>7. Good(r)'
    <3>1. req'[r].pc = "mark" /\ req'[r].i = req[r].i /\ Key(r)' = Key(r)
        BY <2>1, <1>g
    <3>2. req[r].i = 2 /\ Address \notin ReadErrors => Mirrored(Address)'
        BY <2>1, <2>5, <1>k, <1>t DEF Good, Knows
    <3> QED
        BY <2>6, <3>1, <3>2 DEF Good, Knows, Writes
  <2>8. \A k \in Keys : tableEra'[k] <= era'[k]
      BY <2>1, <2>4, <1>c, <1>d DEF Remembers
  <2>9. \A k \in Keys : table'[k].blockedAt <= now
      BY <2>1, <1>m
  <2> QED
      BY <2>1, <2>2, <2>4, <2>7, <2>8, <2>9, <1>1, <1>g, <1>w
<1>13. CASE MarkLoaded(r)
  <2>1. /\ UNCHANGED <<memory, table, era, tableEra, now, persister>>
        /\ NextKey(r, "load", req[r].for) /\ loaded' = loaded \cup {Key(r)}
        /\ Key(r) \notin ReadErrors => Mirrored(Key(r))
      BY <1>13, <1>t DEF MarkLoaded, Good, Knows
  <2>2. Good(r)'
      BY <1>13, <2>1, <1>6 DEF MarkLoaded
  <2>3. \A k \in loaded' \ ReadErrors : k \in loaded \/ Mirrored(k)'
      BY <2>1, <1>5, <1>k
  <2> QED
      BY <2>1, <2>2, <2>3, <1>1, <1>5, <1>n, <1>z
\* The failures of some keys are forgiven in memory.
<1>f. ASSUME NEW ks, Forget(ks), UNCHANGED <<table, tableEra>>
      PROVE  /\ \A k \in Keys : Remembers(k) /\ Kept(k) /\ memory'[k].blockedAt <= now
             /\ \A k \in Keys : tableEra'[k] <= era'[k] /\ table'[k].blockedAt <= now
             /\ \A k \in Keys : Mirrored(k) => Mirrored(k)'
  <2>1. \A k \in Keys : Covers(memory[k], memory[k]) /\ Covers(table[k], table[k])
      BY <1>c, CoversOrder
  <2>2. \A k \in Keys : /\ memory'[k] \in {memory[k], NoEntry}
                        /\ \/ era'[k] = era[k] + 1
                           \/ era'[k] = era[k] /\ memory'[k] = memory[k]
      BY <1>f DEF Forget
  <2>3. \A k \in Keys : Remembers(k) /\ Kept(k)
      BY <1>f, <2>1, <2>2, <1>c DEF Remembers, Kept
  <2>4. \A k \in Keys : memory'[k].blockedAt <= now /\ tableEra'[k] <= era'[k]
      BY <1>f, <2>2, <1>c, <1>m, <1>z
  <2> QED
      BY <1>f, <2>3, <2>4, <1>m, <1>t, <1>c, MirroredStays
<1>14. CASE Decide(r)
  <2>1. /\ Forget(Drops(req[r].user)) /\ UNCHANGED <<table, tableEra, now, loaded, persister>>
        /\ Go(r, "verify") \/ Leave(r)
      BY <1>14 DEF Decide
  <2>2. Good(r)' /\ req'[r].read.blockedAt <= now /\ req'[r].entry.blockedAt <= now
    <3>1. CASE Leave(r)
      <4>1. req'[r] = Idle
          BY <3>1, <1>r DEF Leave
      <4> QED
          BY <4>1, <1>4, <1>z
    <3>2. CASE Go(r, "verify")
      <4>1. \A k \in {Address, req[r].user} \ ReadErrors : Mirrored(k)'
          BY <1>14, <2>1, <1>f, <1>k, <1>t DEF Decide, Good, Knows
      <4> QED
          BY <3>2, <4>1, <1>2, <1>g, <1>w
    <3> QED
        BY <2>1, <3>1, <3>2
  <2> QED
      BY <2>1, <2>2, <1>f, <1>1
<1>15. CASE WrongPassword(r)
  <2>1. /\ req'[r].pc = "load" /\ req'[r].i = req[r].i
        /\ req'[r].read = req[r].read /\ req'[r].entry = req[r].entry
      BY <1>15, <1>r DEF WrongPassword, Locals
  <2>2. UNCHANGED <<memory, table, era, tableEra, now, loaded, persister>> /\ At(r, "verify")
      BY <1>15 DEF WrongPassword
  <2>3. Good(r)'
      BY <2>1, <2>2, <1>3, <1>5, <1>k, <1>t DEF Good, Knows
  <2> QED
      BY <2>1, <2>2, <2>3, <1>1, <1>5, <1>w
<1>16. CASE RecordFailure(r)
  <2>1. /\ UNCHANGED <<table, tableEra, era, now, loaded, persister>> /\ Go(r, "persist")
        /\ At(r, "fail")
      BY <1>16 DEF RecordFailure
  <2>2. \A k \in Keys : Covers(memory'[k], memory[k]) /\ memory'[k].blockedAt <= now
    <3> SUFFICES ASSUME NEW k \in Keys
                 PROVE  Covers(memory'[k], memory[k]) /\ memory'[k].blockedAt <= now
        OBVIOUS
    <3>1. Counted(memory[k]) /\ memory[k].blockedAt <= now
        BY <1>c, <1>m
    <3>2. CASE k \notin {Address, req[r].user}
      <4>1. memory'[k] = memory[k]
          BY <1>16, <3>2 DEF RecordFailure
      <4> QED
          BY <3>1, <4>1, CoversOrder
    <3>3. CASE k \in {Address, req[r].user}
      <4>1. /\ memory'[k].failures = memory[k].failures + 1
            /\ memory'[k].blockedAt = IF memory[k].failures + 1 >= Limit THEN now
                                      ELSE memory[k].blockedAt
          BY <1>16, <3>3 DEF RecordFailure
      <4> QED
          BY <3>1, <4>1, <1>r, LimitAssumption DEF Covers, Counted
    <3> QED
        BY <3>2, <3>3
  <2>3. \A k \in Keys : Remembers(k) /\ Kept(k)
      BY <2>1, <2>2, <1>c, CoversOrder DEF Remembers, Kept
  <2>4. \A k \in Keys : Mirrored(k) => Mirrored(k)'
      BY <2>3, <1>t, <1>c, MirroredStays
  <2>5. Good(r)'
    <3>1. req'[r].pc = "persist" /\ req'[r].user = req[r].user
        BY <2>1, <1>g
    <3>2. \A k \in {Address, req[r].user} \ ReadErrors : Mirrored(k)'
        BY <2>1, <2>4, <1>k, <1>t DEF Good, Knows
    <3> QED
        BY <3>1, <3>2, <1>2
  <2>6. \A k \in Keys : tableEra'[k] <= era'[k] /\ table'[k].blockedAt <= now
      BY <2>1, <1>c, <1>m
  <2> QED
      BY <2>1, <2>2, <2>3, <2>5, <2>6, <1>1, <1>g, <1>w
<1>17. CASE Reset(r)
  <2>1. /\ req'[r].pc = "persist" /\ req'[r].user = req[r].user
        /\ req'[r].read = req[r].read /\ req'[r].entry = req[r].entry
      BY <1>17, <1>r DEF Reset, Locals
  <2>2. /\ Forget({Address, req[r].user}) /\ At(r, "verify")
        /\ UNCHANGED <<table, tableEra, now, loaded, persister>>
      BY <1>17 DEF Reset
  <2>3. Good(r)'
      BY <2>1, <2>2, <1>f, <1>2, <1>k, <1>t DEF Good, Knows
  <2> QED
      BY <2>1, <2>2, <2>3, <1>f, <1>1, <1>w
<1>18. CASE LockPersist(r)
  <2>1. /\ req'[r].pc = "lookup" /\ req'[r].user = req[r].user
        /\ req'[r].read = req[r].read /\ req'[r].entry = req[r].entry
      BY <1>18, <1>r DEF LockPersist, Locals
  <2>2. /\ UNCHANGED <<memory, table, era, tableEra, now, loaded>> /\ At(r, "persist")
        /\ persister = NoOne /\ persister' = r
      BY <1>18 DEF LockPersist
  <2>3. Good(r)'
      BY <2>1, <2>2, <1>5, <1>2, <1>k, <1>t DEF Good, Knows
  <2> QED
      BY <2>1, <2>2, <2>3, <1>1, <1>5, <1>w
<1>19. CASE Lookup(r)
  <2> DEFINE v == [req[r] EXCEPT !.entry = memory[Key(r)], !.era = era[Key(r)], !.pc = "write"]
  <2>1. /\ req' = [req EXCEPT ![r] = v] /\ At(r, "lookup")
        /\ UNCHANGED <<memory, table, era, tableEra, now, loaded, persister>>
      BY <1>19 DEF Lookup
  <2>2. /\ v.pc = "write" /\ v.i = req[r].i /\ v.user = req[r].user
        /\ v.read = req[r].read /\ v.entry = memory[Key(r)] /\ v.era = era[Key(r)]
      BY <1>r DEF Locals
  <2> HIDE DEF v
  <2>3. /\ req'[r].pc = "write" /\ req'[r].user = req[r].user /\ Key(r)' = Key(r)
        /\ req'[r].read = req[r].read /\ req'[r].entry = memory[Key(r)]
        /\ req'[r].era = era[Key(r)]
      BY <2>1, <2>2, <1>r, SameKey
  <2>4. \A k \in {Address, req[r].user} \ ReadErrors : Mirrored(k) /\ Mirrored(k)'
      BY <2>1, <1>5, <1>k, <1>t DEF Good, Knows
  <2>5. Covers(memory[Key(r)], memory[Key(r)])
      BY <1>c, <1>k, CoversOrder
  <2>6. Key(r) \notin ReadErrors => Mirrored(Key(r))
      BY <2>4, <1>k, <1>r
  <2>7. Writes(r)'
      BY <2>1, <2>3, <2>5, <2>6, <1>c, <1>k DEF Writes, Mirrored
  <2>8. persister' = r
      BY <2>1, <1>t DEF Good
  <2>9. Good(r)'
      BY <2>3, <2>4, <2>7, <2>8 DEF Good, Knows
  <2> QED
      BY <2>1, <2>3, <2>9, <1>1, <1>5, <1>w, <1>m, <1>k
<1>20. CASE Write(r)
  <2>1. /\ UNCHANGED <<memory, era, now, loaded, persister>> /\ At(r, "write")
        /\ NextKey(r, "lookup", "unlock")
      BY <1>20 DEF Write
  <2>2. /\ persister = r /\ req[r].era <= era[Key(r)]
        /\ era[Key(r)] > req[r].era \/ Covers(memory[Key(r)], req[r].entry)
        /\ \A k \in {Address, req[r].user} \ ReadErrors : Mirrored(k)
      BY <2>1, <1>t DEF Good, Writes, Knows
  <2>3. ASSUME NEW row, Counted(row), row.blockedAt <= now, Put(Key(r), row, req[r].era),
               era[Key(r)] > req[r].era \/ Covers(memory[Key(r)], row)
        PROVE  /\ \A k \in Keys : Kept(k) \/ Mirrored(k)'
               /\ \A k \in Keys : tableEra'[k] <= era'[k] /\ table'[k].blockedAt <= now
    <3>1. table \in [Keys -> Rows] /\ tableEra \in [Keys -> Nat]
        BY <1>t DEF TypeOK
    <3>2. /\ table'[Key(r)] = row /\ tableEra'[Key(r)] = req[r].era
          /\ \A k \in Keys : k # Key(r) => table'[k] = table[k] /\ tableEra'[k] = tableEra[k]
        BY <2>3, <3>1, <1>k DEF Put
    <3>4. ASSUME NEW k \in Keys, k = Key(r) PROVE Mirrored(k)'
        BY <2>1, <2>3, <3>2, <3>4 DEF Mirrored
    <3>5. ASSUME NEW k \in Keys, k # Key(r) PROVE Kept(k)
        BY <3>2, <3>5, <1>c, CoversOrder DEF Kept
    <3> QED
        BY <2>1, <2>2, <3>2, <3>4, <3>5, <2>3, <1>c, <1>m
  <2>4. ASSUME UNCHANGED <<table, tableEra>>
        PROVE  /\ \A k \in Keys : Kept(k) \/ Mirrored(k)'
               /\ \A k \in Keys : tableEra'[k] <= era'[k] /\ table'[k].blockedAt <= now
    <3>1. UNCHANGED <<memory, table, era, tableEra>>
        BY <2>1, <2>4
    <3> QED
        BY <3>1, <1>5
  <2>5. /\ \A k \in Keys : Kept(k) \/ Mirrored(k)'
        /\ \A k \in Keys : tableEra'[k] <= era'[k] /\ table'[k].blockedAt <= now
    <3> DEFINE row == [failures |-> req[r].entry.failures,
                       blockedAt |-> Stored(req[r].entry.blockedAt),
                       updatedAt |-> Stored(req[r].cut)]
    <3>1. CASE Put(Key(r), NoRow, req[r].era)
      <4>1. Covers(memory[Key(r)], NoRow)
          BY <1>c, <1>k, CoversOrder
      <4> QED
          BY <3>1, <4>1, <2>3, <1>z
    <3>2. CASE Put(Key(r), row, req[r].era)
      <4>1. /\ Stored(req[r].entry.blockedAt) \in Int
            /\ Stored(req[r].entry.blockedAt) <= req[r].entry.blockedAt
          BY <1>c, StoredIsEarlier DEF Counted
      <4>2. row.failures = req[r].entry.failures /\ row.blockedAt = Stored(req[r].entry.blockedAt)
          OBVIOUS
      <4> HIDE DEF row
      <4>3. Counted(row) /\ row.blockedAt <= now /\ Covers(req[r].entry, row)
          BY <4>1, <4>2, <1>c, <1>w, <1>r, LimitAssumption DEF Counted, Covers
      <4>4. era[Key(r)] > req[r].era \/ Covers(memory[Key(r)], row)
          BY <4>3, <2>2, <1>c, <1>k, CoversOrder
      <4> QED
          BY <3>2, <4>3, <4>4, <2>3
    <3>3. CASE UNCHANGED <<table, tableEra>>
        BY <3>3, <2>4
    <3> QED
        BY <1>20, <3>1, <3>2, <3>3 DEF Write
  <2>6. \A k \in Keys : Remembers(k) /\ memory'[k].blockedAt <= now
      BY <2>1, <1>c, <1>m, CoversOrder DEF Remembers
  <2>7. \A k \in Keys : Mirrored(k) => Mirrored(k)'
      BY <2>5, <2>6, <1>t, <1>c, MirroredStays
  <2>8. Good(r)'
    <3>1. \A k \in {Address, req[r].user} \ ReadErrors : Mirrored(k)'
        BY <2>2, <2>7, <1>k
    <3>2. persister' = r
        BY <2>1, <2>2
    <3>3. req'[r].user = req[r].user /\ req'[r].pc \in {"lookup", "unlock"}
        BY <2>1, <1>n, <1>r
    <3> QED
        BY <3>1, <3>2, <3>3, <1>2, <1>4
  <2>9. /\ req'[r].read.blockedAt <= now /\ req'[r].entry.blockedAt <= now
        /\ \A k \in Keys : Kept(k) \/ (Mirrored(k)' /\ At(r, "write"))
      BY <2>1, <2>5, <1>n, <1>z
  <2> QED
      BY <2>1, <2>5, <2>6, <2>8, <2>9, <1>1
<1>21. CASE Unlock(r)
  <2>1. /\ UNCHANGED <<memory, table, era, tableEra, now, loaded>> /\ At(r, "unlock")
        /\ req'[r] = Idle
      BY <1>21, <1>r DEF Unlock, Leave
  <2>2. Good(r)' /\ req'[r].read.blockedAt <= now /\ req'[r].entry.blockedAt <= now
      BY <2>1, <1>4, <1>z
  <2> QED
      BY <2>1, <2>2, <1>1, <1>5
<1> QED
    BY <1>7, <1>8, <1>9, <1>10, <1>11, <1>12, <1>13, <1>14, <1>15, <1>16, <1>17, <1>18, <1>19,
       <1>20, <1>21 DEF Step

\* Memory mirrors the table in every state of the limiter.
LEMMA MirrorInvariance == Spec => []MirrorInv
<1>1. Init => MirrorInv
  <2> SUFFICES ASSUME Init PROVE MirrorInv
      OBVIOUS
  <2>1. TypeOK
      BY Values DEF Init, TypeOK, Locals, Idle, Proper
  <2>2. Counted(NoEntry) /\ ZeroTime <= 0
      BY TimesAssumption DEF Counted, NoEntry, ZeroTime
  <2>3. \A k \in Keys : Mirrored(k)
      BY <2>2, CoversOrder DEF Init, Mirrored
  <2>4. \A r \in Requests : Good(r)
      BY DEF Init, Idle, Good, Knows, Writes, At
  <2>5. Past /\ \A k \in Keys : tableEra[k] <= era[k]
      BY <2>2 DEF Init, Past, NoEntry, NoRow, Idle
  <2> QED
      BY <2>1, <2>3, <2>4, <2>5 DEF Init, MirrorInv
<1>2. MirrorInv /\ [Next]_vars => MirrorInv'
  <2> SUFFICES ASSUME MirrorInv, [Next]_vars PROVE MirrorInv'
      OBVIOUS
  <2> USE DEF limiterVars, historyVars
  <2>1. TypeOK /\ TypeOK' /\ Past /\ \A r \in Requests : Good(r)
      BY TypeStep DEF MirrorInv
  <2>2. /\ \A k \in Keys : Counted(memory[k]) /\ Counted(table[k]) /\ tableEra[k] \in Nat
        /\ \A r \in Requests : Counted(req[r].read) /\ Counted(req[r].entry)
        /\ now \in Nat /\ req \in [Requests -> Locals]
      BY <2>1, AllCounted, Fields DEF TypeOK, ReqTyped
  <2>3. /\ ZeroTime <= now /\ ZeroTime <= now + 1
        /\ NoEntry.blockedAt = ZeroTime /\ NoRow.blockedAt = ZeroTime
        /\ Idle.pc = "idle" /\ Idle.read = NoRow /\ Idle.entry = NoEntry
      BY <2>2, TimesAssumption DEF ZeroTime, NoEntry, NoRow, Idle
\* Steps that leave counts and rows alone.
  <2>4. ASSUME UNCHANGED <<memory, loaded, persister, table, era, tableEra>>,
               \A s \in Requests : \/ req'[s] = req[s]
                                   \/ /\ req'[s].pc = "prune" /\ req'[s].i = 1
                                      /\ req'[s].read = NoRow /\ req'[s].entry = NoEntry,
               now' \in {now, now + 1}
        PROVE  MirrorInv'
    <3>1. \A k \in Keys : (Mirrored(k)') = Mirrored(k)
        BY <2>4 DEF Mirrored
    <3>2. ASSUME NEW s \in Requests PROVE Good(s)'
      <4>1. CASE req'[s] = req[s]
        <5>1. Good(s)
            BY <2>1
        <5> QED
            BY <2>4, <4>1, <5>1 DEF Good, Knows, Writes, Mirrored, At, Key
      <4>2. CASE req'[s].pc = "prune" /\ req'[s].i = 1
          BY <4>2 DEF Good, Knows, Writes, At
      <4> QED
          BY <2>4, <4>1, <4>2
    <3>3. Past'
      <4>1. \A k \in Keys : memory'[k].blockedAt <= now' /\ table'[k].blockedAt <= now'
          BY <2>1, <2>2, <2>4 DEF Past, Counted
      <4>2. \A s \in Requests : req'[s].read.blockedAt <= now' /\ req'[s].entry.blockedAt <= now'
          BY <2>1, <2>2, <2>3, <2>4 DEF Past, Counted
      <4> QED
          BY <4>1, <4>2 DEF Past
    <3> QED
        BY <2>1, <2>4, <3>1, <3>2, <3>3 DEF MirrorInv, TypeOK
  <2>5. ASSUME NEW r \in Requests, NEW u \in Users, Begin(r, u) PROVE MirrorInv'
    <3> DEFINE v == [Idle EXCEPT !.pc = "prune", !.user = u]
    <3>1. /\ req' = [req EXCEPT ![r] = v]
          /\ UNCHANGED <<now, memory, loaded, persister, table, era, tableEra>>
        BY <2>5 DEF Begin
    <3>2. v.pc = "prune" /\ v.i = 1 /\ v.read = NoRow /\ v.entry = NoEntry
        BY DEF Idle
    <3> HIDE DEF v
    <3> QED
        BY <3>1, <3>2, <2>2, <2>4
  <2>6. CASE Tick
      BY <2>6, <2>4 DEF Tick
  <2>7. CASE Restart
    <3>1. /\ \A k \in Keys : memory'[k] = NoEntry /\ era'[k] = tableEra[k]
          /\ \A s \in Requests : req'[s] = Idle
          /\ loaded' = {} /\ UNCHANGED <<now, table, tableEra>>
        BY <2>7 DEF Restart
    <3>2. \A s \in Requests : Good(s)'
        BY <3>1, <2>3 DEF Good, Knows, Writes, At
    <3>3. Past'
        BY <3>1, <2>1, <2>3 DEF Past
    <3> QED
        BY <2>1, <2>2, <3>1, <3>2, <3>3 DEF MirrorInv
  <2>8. CASE UNCHANGED vars
      BY <2>8, <2>4 DEF vars
  <2> QED
      BY <2>5, <2>6, <2>7, <2>8, StepMirrors DEF Next
<1> QED
    BY <1>1, <1>2, PTL DEF Spec

\* A write lowers a stored count only when its failures were forgiven.
THEOREM StoredCountsStay == Spec => StoredCountsNeverFall
<1>1. MirrorInv /\ [Next]_vars => \A k \in Keys \ ReadErrors : ~LosesFailures(k)
  <2> SUFFICES ASSUME MirrorInv, [Next]_vars, NEW k \in Keys \ ReadErrors
               PROVE  ~LosesFailures(k)
      OBVIOUS
  <2>1. TypeOK /\ Counted(table[k])
      BY AllCounted DEF MirrorInv
  <2>2. CASE table' = table
      BY <2>1, <2>2 DEF LosesFailures, Counted
  <2>3. ASSUME NEW r \in Requests, PruneRows(r) PROVE ~LosesFailures(k)
    <3>1. table'[k] \in {table[k], NoRow}
        BY <2>3, <2>2 DEF PruneRows
    <3> QED
        BY <2>1, <3>1 DEF LosesFailures, Counted
  <2>4. ASSUME NEW r \in Requests, Write(r) PROVE ~LosesFailures(k)
    <3>1. At(r, "write") /\ req[r].pc # "idle" /\ table \in [Keys -> Rows]
          /\ tableEra \in [Keys -> Nat]
        BY <2>1, <2>4 DEF Write, At, TypeOK
    <3>2. /\ Key(r) \in Keys /\ Counted(req[r].entry) /\ req[r].era \in Nat
          /\ tableEra[k] \in Nat
        BY <2>1, <3>1, KeyIsKey, AllCounted
    <3>3. Writes(r)
        BY DEF MirrorInv, Good
    <3>4. CASE k # Key(r)
      <4>1. table'[k] = table[k]
          BY <2>4, <3>1, <3>4 DEF Write, Put
      <4> QED
          BY <2>1, <4>1 DEF LosesFailures, Counted
    <3>5. CASE k = Key(r)
      <4>1. \/ table'[k] = NoRow
            \/ /\ table'[k].failures = req[r].entry.failures
               /\ tableEra'[k] = req[r].era
            \/ table'[k] = table[k]
          BY <2>4, <3>1, <3>2, <3>5 DEF Write, Put
      <4>2. req[r].era > tableEra[k] \/ req[r].entry.failures >= table[k].failures
          BY <3>1, <3>3, <3>5 DEF Writes, Covers
      <4> QED
          BY <2>1, <3>2, <4>1, <4>2 DEF LosesFailures, Counted
    <3> QED
        BY <3>4, <3>5
  <2> QED
      BY <2>2, <2>3, <2>4 DEF Next, Step, Begin, MaybePrune, ForgetLoaded, Load, Read, Seed,
         MarkLoaded, Decide, WrongPassword, RecordFailure, Reset, LockPersist, Lookup, Unlock,
         Tick, Restart, vars
<1> QED
    BY <1>1, MirrorInvariance, PTL DEF Spec, StoredCountsNeverFall

\* No login is let through against a stored block that was not forgiven.
THEOREM StoredBlocksHold == Spec => BlocksHold
<1> DEFINE Enforced == \A r \in Requests : At(r, "allow") /\ req'[r].pc = "verify" =>
                          \A k \in {Address, req[r].user} \ ReadErrors :
                              Blocked(table[k]) => era[k] > tableEra[k]
<1>1. MirrorInv /\ [Next]_vars => Enforced
  <2> SUFFICES ASSUME MirrorInv, [Next]_vars, NEW r \in Requests,
                      At(r, "allow"), req'[r].pc = "verify",
                      NEW k \in {Address, req[r].user} \ ReadErrors, Blocked(table[k])
               PROVE  era[k] > tableEra[k]
      OBVIOUS
  <2>1. /\ TypeOK /\ req[r].pc = "allow"
        /\ req \in [Requests -> Locals] /\ now \in Nat
      BY Fields DEF MirrorInv, ReqTyped, At, TypeOK
  <2>2. /\ k \in Keys /\ Counted(memory[k]) /\ Counted(table[k])
      BY <2>1, KeyIsKey, AllCounted
  <2>3. Mirrored(k)
      BY <2>1 DEF MirrorInv, Good, Knows
\* Only its own decision lets the request through.
  <2>4. Decide(r)
    <3>1. ASSUME NEW s \in Requests, NEW u \in Users, Begin(s, u) PROVE FALSE
      <4>1. req' = [req EXCEPT ![s] = [Idle EXCEPT !.pc = "prune", !.user = u]]
          BY <3>1 DEF Begin
      <4>2. [Idle EXCEPT !.pc = "prune", !.user = u].pc = "prune"
          BY DEF Idle
      <4> QED
          BY <2>1, <4>1, <4>2
    <3>2. ASSUME NEW s \in Requests, Step(s), s # r PROVE FALSE
        BY <2>1, <3>2, OwnStep
    <3>3. CASE Tick \/ UNCHANGED vars
        BY <2>1, <3>3 DEF Tick, vars
    <3>4. CASE Restart
        BY <3>4 DEF Restart, Idle
    <3>5. CASE Step(r)
        BY <2>1, <3>5 DEF Step, MaybePrune, PruneRows, ForgetLoaded, Load, Read, Seed, MarkLoaded,
           WrongPassword, RecordFailure, Reset, LockPersist, Lookup, Write, Unlock, At
    <3> QED
        BY <3>1, <3>2, <3>3, <3>4, <3>5 DEF Next
  <2>5. ~Blocked(memory[k])
    <3>1. CASE Blocked(memory[Address]) \/ Blocked(memory[req[r].user])
      <4>1. Leave(r)
          BY <2>4, <3>1 DEF Decide
      <4> QED
          BY <2>1, <4>1 DEF Leave, Idle
    <3> QED
        BY <3>1
  <2>6. ~Covers(memory[k], table[k])
      BY <2>1, <2>2, <2>5, TimesAssumption, LimitAssumption DEF Blocked, Covers, Counted
  <2> QED
      BY <2>3, <2>6 DEF Mirrored
<1>2. MirrorInv /\ [Next]_vars => [Enforced]_vars
    BY <1>1
<1> HIDE DEF Enforced
<1> QED
    BY <1>2, MirrorInvariance, PTL DEF Spec, BlocksHold, Enforced

=============================================================================
