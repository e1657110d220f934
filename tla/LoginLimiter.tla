---------------------------- MODULE LoginLimiter ----------------------------
(***************************************************************************)
(* The login rate limiter: persistentLoginLimiter and the loginLimiter it  *)
(* wraps (internal/web/rate_limit.go, rate_limit_persistent.go), the table *)
(* behind it (internal/db/login_rate_limits.go) and loginHandler's calls.  *)
(*                                                                         *)
(* Logins of one client address run concurrently.  Each is counted under   *)
(* two keys, the address and the address with the user name.  Memory       *)
(* decides; the table mirrors it, so that blocks survive a restart.        *)
(***************************************************************************)
EXTENDS Integers, Sequences

CONSTANTS
    Requests,       \* login requests in progress at once
    Users,          \* user names they give
    Limit,          \* failureLimit
    Cooldown,       \* cooldown, in ticks of the clock
    PruneInterval,  \* loginRateLimitPruneInterval, in ticks
    Second,         \* ticks in a second; the table keeps whole seconds
    ReadErrors,     \* the keys whose reads may fail
    WriteErrors,    \* the keys whose writes may fail; prunes fail if any does
    MaxTime, MaxLogins, MaxRestarts  \* bounds

Address == "ip"
NoOne == "nobody"

ASSUME NamesAssumption == Address \notin Users /\ NoOne \notin Requests
ASSUME LimitAssumption == Limit \in Nat \ {0}
ASSUME TimesAssumption ==
    Cooldown \in Nat \ {0} /\ PruneInterval \in Nat /\ Second \in Nat \ {0}
ASSUME BoundsAssumption == MaxTime \in Nat /\ MaxLogins \in Nat /\ MaxRestarts \in Nat

VARIABLES
    now,        \* the clock
    memory,     \* entries of loginLimiter
    loaded,     \* the keys read since the start or the last prune
    nextPrune,
    persister,  \* who holds persistMu
    table,      \* login_rate_limits
    req,        \* where each request is, and its local variables
    tally,      \* history: failures ever recorded for a key
    era,        \* history: how often a key's failures in memory were forgiven
    tableEra,   \* history: the era of the count in the table
    count       \* logins and restarts so far, for the bounds

limiterVars == <<memory, loaded, nextPrune, persister>>
historyVars == <<tally, era, tableEra>>
vars == <<now, limiterVars, table, req, historyVars, count>>

Keys == {Address} \cup Users

ASSUME ErrorsAssumption == ReadErrors \subseteq Keys /\ WriteErrors \subseteq Keys

\* loginRateLimitKeys: the address first.
KeysOf(u) == <<Address, u>>

ZeroTime == -Cooldown  \* Go's zero time, at least a cooldown before any other
NoEntry == [failures |-> 0, blockedAt |-> ZeroTime]
NoRow == [failures |-> 0, blockedAt |-> ZeroTime, updatedAt |-> ZeroTime]

Idle == [pc |-> "idle", user |-> NoOne, i |-> 1, for |-> "allow", cut |-> ZeroTime,
         read |-> NoRow, entry |-> NoEntry, era |-> 0]

\* formatLoginRateLimitTime and parseLoginRateLimitTime.
Stored(t) == IF t = ZeroTime THEN ZeroTime ELSE t - (t % Second)

Blocked(e) == e.failures >= Limit /\ now - e.blockedAt < Cooldown
Expired(e) == e.failures >= Limit /\ now - e.blockedAt >= Cooldown

Init ==
    /\ now = 0
    /\ memory = [k \in Keys |-> NoEntry]
    /\ loaded = {}
    /\ nextPrune = ZeroTime
    /\ persister = NoOne
    /\ table = [k \in Keys |-> NoRow]
    /\ req = [r \in Requests |-> Idle]
    /\ tally = [k \in Keys |-> 0]
    /\ era = [k \in Keys |-> 0]
    /\ tableEra = [k \in Keys |-> 0]
    /\ count = [logins |-> 0, restarts |-> 0]

At(r, pc) == req[r].pc = pc
Key(r) == KeysOf(req[r].user)[req[r].i]
Go(r, pc) == req' = [req EXCEPT ![r].pc = pc]

\* Mutant: the key's index is not set back after the last one.
NextKeyPast(r, again, after) ==
    req' = [req EXCEPT ![r] =
        [req[r] EXCEPT !.i = req[r].i + 1, !.pc = IF req[r].i = 1 THEN again ELSE after,
                       !.read = NoRow, !.entry = NoEntry, !.era = 0]]

\* On to the request's second key, or past it.
NextKey(r, again, after) ==
    req' = [req EXCEPT ![r] =
        [req[r] EXCEPT !.i = 3 - req[r].i, !.pc = IF req[r].i = 1 THEN again ELSE after,
                       !.read = NoRow, !.entry = NoEntry, !.era = 0]]

Leave(r) == req' = [req EXCEPT ![r] = Idle]

-----------------------------------------------------------------------------
(* allow: maybePrune, load, and the decision in memory *)

Begin(r, u) ==
    /\ At(r, "idle")
    /\ count.logins < MaxLogins
    /\ count' = [count EXCEPT !.logins = @ + 1]
    /\ req' = [req EXCEPT ![r] = [Idle EXCEPT !.pc = "prune", !.user = u]]
    /\ UNCHANGED <<now, limiterVars, table, historyVars>>

\* One request per interval goes on to prune.
MaybePrune(r) ==
    /\ At(r, "prune")
    /\ IF now < nextPrune
       THEN Go(r, "load") /\ UNCHANGED nextPrune
       ELSE /\ nextPrune' = now + PruneInterval
            /\ req' = [req EXCEPT ![r].pc = "delete rows", ![r].cut = now - 2 * Cooldown]
    /\ UNCHANGED <<now, memory, loaded, persister, table, historyVars, count>>

PruneRows(r) ==
    /\ At(r, "delete rows")
    /\ \/ /\ table' = [k \in Keys |->
                IF table[k].updatedAt < Stored(req[r].cut) THEN NoRow ELSE table[k]]
          /\ Go(r, "forget")
       \/ WriteErrors # {} /\ Go(r, "load") /\ UNCHANGED table
    /\ UNCHANGED <<now, limiterVars, historyVars, count>>

ForgetLoaded(r) ==
    /\ At(r, "forget")
    /\ loaded' = {}
    /\ Go(r, "load")
    /\ UNCHANGED <<now, memory, nextPrune, persister, table, historyVars, count>>

\* load, for one key after the other; before the decision and again before a
\* failure is recorded.
Load(r) ==
    /\ At(r, "load")
    /\ IF Key(r) \in loaded THEN NextKey(r, "load", req[r].for) ELSE Go(r, "read")
    /\ UNCHANGED <<now, limiterVars, table, historyVars, count>>

Read(r) ==
    /\ At(r, "read")
    /\ \/ req' = [req EXCEPT ![r].read = table[Key(r)],
                             ![r].pc = IF table[Key(r)] = NoRow THEN "mark" ELSE "seed"]
       \/ Key(r) \in ReadErrors /\ NextKey(r, "load", req[r].for)
    /\ UNCHANGED <<now, limiterVars, table, historyVars, count>>

larger(x, y) == IF x > y THEN x ELSE y

\* Mutant: the stored failures are added to those in memory.
SeedAdds(r) ==
    LET k == Key(r)
        stored == req[r].read
    IN  /\ At(r, "seed")
        /\ IF Expired(stored)
           THEN era' = [era EXCEPT ![k] = @ + 1] /\ UNCHANGED memory
           ELSE /\ memory' = [memory EXCEPT
                      ![k].failures = @ + stored.failures,
                      ![k].blockedAt = larger(stored.blockedAt, @)]
                /\ UNCHANGED era
        /\ Go(r, "mark")
        /\ UNCHANGED <<now, loaded, nextPrune, persister, table, tally, tableEra, count>>

\* Mutant: the failures are restored, the time of the block is not.
SeedCount(r) ==
    LET k == Key(r)
        stored == req[r].read
    IN  /\ At(r, "seed")
        /\ IF Expired(stored)
           THEN era' = [era EXCEPT ![k] = @ + 1] /\ UNCHANGED memory
           ELSE /\ memory' = [memory EXCEPT ![k].failures = larger(stored.failures, @)]
                /\ UNCHANGED era
        /\ Go(r, "mark")
        /\ UNCHANGED <<now, loaded, nextPrune, persister, table, tally, tableEra, count>>

\* seed: what the table has only raises what memory has.
Seed(r) ==
    LET k == Key(r)
        stored == req[r].read
    IN  /\ At(r, "seed")
        /\ IF Expired(stored)
           THEN era' = [era EXCEPT ![k] = @ + 1] /\ UNCHANGED memory
           ELSE /\ memory' = [memory EXCEPT
                      ![k].failures = larger(stored.failures, @),
                      ![k].blockedAt = larger(stored.blockedAt, @)]
                /\ UNCHANGED era
        /\ Go(r, "mark")
        /\ UNCHANGED <<now, loaded, nextPrune, persister, table, tally, tableEra, count>>

MarkLoaded(r) ==
    /\ At(r, "mark")
    /\ loaded' = loaded \cup {Key(r)}
    /\ NextKey(r, "load", req[r].for)
    /\ UNCHANGED <<now, memory, nextPrune, persister, table, historyVars, count>>

\* loginLimiter.allow: keys in order; a block that has expired is dropped even
\* when a later key refuses the login.
Drops(u) == {k \in {Address, u} : Expired(memory[k]) /\ (k = u => ~Blocked(memory[Address]))}

Forget(ks) ==
    /\ memory' = [k \in Keys |-> IF k \in ks THEN NoEntry ELSE memory[k]]
    /\ era' = [k \in Keys |-> IF k \in ks THEN era[k] + 1 ELSE era[k]]

Decide(r) ==
    LET u == req[r].user
    IN  /\ At(r, "allow")
        /\ Forget(Drops(u))
        /\ IF Blocked(memory[Address]) \/ Blocked(memory[u]) THEN Leave(r) ELSE Go(r, "verify")
        /\ UNCHANGED <<now, loaded, nextPrune, persister, table, tally, tableEra, count>>

-----------------------------------------------------------------------------
(* The password, then recordFailure or reset, and persist *)

WrongPassword(r) ==
    /\ At(r, "verify")
    /\ req' = [req EXCEPT ![r].pc = "load", ![r].for = "fail"]
    /\ UNCHANGED <<now, limiterVars, table, historyVars, count>>

RecordFailure(r) ==
    LET ks == {Address, req[r].user}
    IN  /\ At(r, "fail")
        /\ memory' = [k \in Keys |->
              IF k \notin ks THEN memory[k]
              ELSE [failures |-> memory[k].failures + 1,
                    blockedAt |-> IF memory[k].failures + 1 >= Limit THEN now
                                  ELSE memory[k].blockedAt]]
        /\ tally' = [k \in Keys |-> IF k \in ks THEN tally[k] + 1 ELSE tally[k]]
        /\ Go(r, "persist")
        /\ UNCHANGED <<now, loaded, nextPrune, persister, table, era, tableEra, count>>

\* reset, after the right password.
Reset(r) ==
    /\ At(r, "verify")
    /\ Forget({Address, req[r].user})
    /\ req' = [req EXCEPT ![r].pc = "persist", ![r].for = "reset"]
    /\ UNCHANGED <<now, loaded, nextPrune, persister, table, tally, tableEra, count>>

\* Mutant: persistMu is not waited for.
LockPersistShared(r) ==
    /\ At(r, "persist")
    /\ persister' = r
    /\ req' = [req EXCEPT ![r].pc = "lookup", ![r].cut = now]
    /\ UNCHANGED <<now, memory, loaded, nextPrune, table, historyVars, count>>

LockPersist(r) ==
    /\ At(r, "persist")
    /\ persister = NoOne
    /\ persister' = r
    /\ req' = [req EXCEPT ![r].pc = "lookup", ![r].cut = now]
    /\ UNCHANGED <<now, memory, loaded, nextPrune, table, historyVars, count>>

Lookup(r) ==
    /\ At(r, "lookup")
    /\ req' = [req EXCEPT ![r].entry = memory[Key(r)], ![r].era = era[Key(r)], ![r].pc = "write"]
    /\ UNCHANGED <<now, limiterVars, table, historyVars, count>>

\* The row for an entry of memory, written with its own era.
Put(k, row, e) ==
    /\ table' = [table EXCEPT ![k] = row]
    /\ tableEra' = [tableEra EXCEPT ![k] = e]

\* The row is deleted, written, or left alone if the key has not been read.
Write(r) ==
    LET k == Key(r)
        e == req[r].entry
    IN  /\ At(r, "write")
        /\ \/ e = NoEntry /\ Put(k, NoRow, req[r].era)
           \/ /\ e # NoEntry /\ k \in loaded
              /\ Put(k, [failures |-> e.failures, blockedAt |-> Stored(e.blockedAt),
                         updatedAt |-> Stored(req[r].cut)], req[r].era)
           \/ e # NoEntry /\ k \notin loaded /\ UNCHANGED <<table, tableEra>>
           \/ k \in WriteErrors /\ UNCHANGED <<table, tableEra>>
        /\ NextKey(r, "lookup", "unlock")
        /\ UNCHANGED <<now, limiterVars, tally, era, count>>

Unlock(r) ==
    /\ At(r, "unlock")
    /\ persister' = NoOne
    /\ Leave(r)
    /\ UNCHANGED <<now, memory, loaded, nextPrune, table, historyVars, count>>

-----------------------------------------------------------------------------

Tick ==
    /\ now < MaxTime
    /\ now' = now + 1
    /\ UNCHANGED <<limiterVars, table, req, historyVars, count>>

\* The panel restarts: newPersistentLoginLimiter over the table as it is.  What
\* was forgiven in memory only counts again.
Restart ==
    /\ count.restarts < MaxRestarts
    /\ count' = [count EXCEPT !.restarts = @ + 1]
    /\ memory' = [k \in Keys |-> NoEntry]
    /\ loaded' = {}
    /\ nextPrune' = ZeroTime
    /\ persister' = NoOne
    /\ req' = [r \in Requests |-> Idle]
    /\ era' = tableEra
    /\ UNCHANGED <<now, table, tally, tableEra>>

Step(r) ==
    \/ MaybePrune(r) \/ PruneRows(r) \/ ForgetLoaded(r)
    \/ Load(r) \/ Read(r) \/ Seed(r) \/ MarkLoaded(r)
    \/ Decide(r) \/ WrongPassword(r) \/ RecordFailure(r) \/ Reset(r)
    \/ LockPersist(r) \/ Lookup(r) \/ Write(r) \/ Unlock(r)

Next ==
    \/ \E r \in Requests : Step(r) \/ \E u \in Users : Begin(r, u)
    \/ Tick
    \/ Restart

Spec == Init /\ [][Next]_vars

-----------------------------------------------------------------------------
(* Properties *)

Entries == [failures : Nat, blockedAt : Int]
Rows == [failures : Nat, blockedAt : Int, updatedAt : Int]
Places == {"idle", "prune", "delete rows", "forget", "load", "read", "seed", "mark", "allow",
           "verify", "fail", "persist", "lookup", "write", "unlock"}

\* An active request has a user, and one that resets persists that.
Proper(v) ==
    /\ v.pc # "idle" => v.user \in Users
    /\ v.for = "reset" => v.pc \in {"persist", "lookup", "write", "unlock"}

\* The values of the limiter's fields, the table and the requests' variables.
TypeOK ==
    /\ now \in Nat
    /\ memory \in [Keys -> Entries]
    /\ loaded \subseteq Keys
    /\ nextPrune \in Int
    /\ persister \in Requests \cup {NoOne}
    /\ table \in [Keys -> Rows]
    /\ req \in [Requests -> [pc : Places, user : Users \cup {NoOne}, i : {1, 2},
                             for : {"allow", "fail", "reset"}, cut : Int,
                             read : Rows, entry : Entries, era : Nat]]
    /\ \A r \in Requests : Proper(req[r])
    /\ tally \in [Keys -> Nat] /\ era \in [Keys -> Nat] /\ tableEra \in [Keys -> Nat]
    /\ count \in [logins : Nat, restarts : Nat]

\* A login is never charged with failures nobody made, however often counts are
\* saved, read back, merged and reread after a prune or a restart.
CountsAreReal == \A k \in Keys : memory[k].failures <= tally[k] /\ table[k].failures <= tally[k]

\* "persistentLoginLimiter keeps login blocks across restarts": no login is let
\* through against a block that the table holds, unless the failures the row
\* counts have been forgiven since it was written.
BlocksHold ==
    [][\A r \in Requests : At(r, "allow") /\ req'[r].pc = "verify" =>
          \A k \in {Address, req[r].user} \ ReadErrors :
              Blocked(table[k]) => era[k] > tableEra[k]]_vars

\* A write that lowers the stored count of k without its failures having been
\* forgiven.
LosesFailures(k) ==
    table'[k] # NoRow /\ table'[k].failures < table[k].failures /\ tableEra'[k] <= tableEra[k]

\* "the last write carries the latest state": a write lowers a stored count
\* only when the failures before it have been forgiven, however logins of the
\* key interleave and whatever fails for the other keys.
StoredCountsNeverFall == [][\A k \in Keys \ ReadErrors : ~LosesFailures(k)]_vars

\* "a failed read never lowers a stored failure count" (persist).
FailedReadsLowerNothing == [][\A k \in Keys : ~LosesFailures(k)]_vars

=============================================================================
