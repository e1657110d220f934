------------------------------ MODULE ApplyJobs ------------------------------
(***************************************************************************)
(* The core-apply job manager of internal/web/core_apply_jobs.go: jobs that*)
(* apply the generated configuration of a proxy core, each run by one      *)
(* goroutine that makes an attempt in a second goroutine, waits for its    *)
(* result or for the attempt's deadline, and retries.  Attempts of the same*)
(* manager are serialised by its one-slot semaphore applySem, attempts of  *)
(* all managers and the manual-apply handlers by the file lock apply.lock. *)
(*                                                                         *)
(* What an attempt does while it holds the lock is left to CoreSync; here  *)
(* it ends with any outcome.  The job's own context is always one that     *)
(* context.WithoutCancel made, so only an attempt's deadline cancels.      *)
(***************************************************************************)
EXTENDS Integers

CONSTANTS
    Cores,      \* the cores in play, a subset of {"xray", "singbox"}
    Managers,   \* "router", and "refresher" (the subscription refresher's own)
    MaxJobs,    \* bound on the jobs started in one life of the process
    MaxRetries  \* retries of an automatic job (3 in enqueueCoreAutoApply)

ASSUME CoresAssumption == Cores \subseteq {"xray", "singbox"}
ASSUME ManagersAssumption == Managers \subseteq {"router", "refresher"}
ASSUME MaxJobsAssumption == MaxJobs \in Nat
ASSUME MaxRetriesAssumption == MaxRetries \in Nat

VARIABLES
    status,   \* job.Status ("none": no job has this id yet)
    errCode,  \* job.Error
    slot,     \* the manager, core and origin of a job
    latest,   \* byCore of every manager
    pc,       \* where the job's goroutine is
    retry,    \* its local retryCount
    last,     \* its local result.errCode
    phase,    \* where the goroutine of an attempt is
    outcome,  \* what that goroutine returns
    expired,  \* the attempts whose context is done
    sem,      \* applySem of every manager: the attempt in it
    flock,    \* holder of apply.lock
    handler   \* core of the manual-apply request that holds apply.lock

jobVars == <<status, errCode, slot, latest, pc, retry, last>>
attemptVars == <<phase, outcome, expired>>
lockVars == <<sem, flock, handler>>
vars == <<jobVars, attemptVars, lockVars>>

Jobs == 1 .. MaxJobs
NoJob == 0
Attempts == Jobs \X (0 .. MaxRetries)
Free == <<0, 0>>      \* no attempt
Request == <<0, 1>>   \* a request handler rather than an attempt
NoCore == "none"
NoError == "none"

Active == {"queued", "running", "retrying"}
Terminal == {"succeeded", "failed"}
WorkCodes == {"ok", "transient", "fatal"}
Codes == WorkCodes \cup
    {NoError, "apply_locked", "apply_cancelled", "apply_timeout", "apply_cleanup_timeout"}

\* coreApplyErrorRetryable: the codes it lists, and by the text of their detail
\* the transient failures of the work itself.
coreApplyErrorRetryable(code) == code \in {"apply_locked", "apply_timeout", "transient"}

MaxRetriesOf(kind) == IF kind = "manual" THEN 0 ELSE MaxRetries

Current(j) == <<j, retry[j]>>
Live(a) == phase[a] \notin {"none", "ended"}

\* Mutant: a job that is queued or waits to retry does not count.
runningNow(m, c) == latest[m][c] # NoJob /\ status[latest[m][c]] = "running"

running(m, c) == latest[m][c] # NoJob /\ status[latest[m][c]] \in Active

\* Job ids are random and never reused; here they are taken in order.
Fresh(j) == status[j] = "none" /\ \A k \in Jobs : k < j => status[k] # "none"

Init ==
    /\ status = [j \in Jobs |-> "none"]
    /\ errCode = [j \in Jobs |-> NoError]
    /\ slot = [j \in Jobs |-> [mgr |-> "router", core |-> "xray", kind |-> "auto"]]
    /\ latest = [m \in Managers |-> [c \in Cores |-> NoJob]]
    /\ pc = [j \in Jobs |-> "none"]
    /\ retry = [j \in Jobs |-> 0]
    /\ last = [j \in Jobs |-> NoError]
    /\ phase = [a \in Attempts |-> "none"]
    /\ outcome = [a \in Attempts |-> NoError]
    /\ expired = {}
    /\ sem = [m \in Managers |-> Free]
    /\ flock = Free
    /\ handler = NoCore

-----------------------------------------------------------------------------
(* Starting jobs *)

\* tryStart, called with no active job of that core in that manager.
tryStart(m, c, kind, j) ==
    /\ ~running(m, c)
    /\ Fresh(j)
    /\ status' = [status EXCEPT ![j] = "queued"]
    /\ slot' = [slot EXCEPT ![j] = [mgr |-> m, core |-> c, kind |-> kind]]
    /\ latest' = [latest EXCEPT ![m][c] = j]
    /\ pc' = [pc EXCEPT ![j] = "start"]
    /\ UNCHANGED <<errCode, retry, last, attemptVars>>

\* enqueueCoreAutoApply when it starts a job; when one is active the caller
\* is given that job and nothing changes.
EnqueueAuto(m, c, j) ==
    /\ tryStart(m, c, "auto", j)
    /\ UNCHANGED lockVars

\* xrayApplyHandler and singboxApplyHandler up to the file lock, which they
\* try without waiting.  Only the Xray handler looks for an active job first.
ManualLock(c) ==
    /\ c = "xray" => ~running("router", c)
    /\ flock = Free
    /\ flock' = Request
    /\ handler' = c
    /\ UNCHANGED <<jobVars, attemptVars, sem>>

\* The rest of the handler: the job's attempt takes over the file lock ...
ManualStart(j) ==
    /\ handler # NoCore
    /\ tryStart("router", handler, "manual", j)
    /\ flock' = <<j, 0>>
    /\ handler' = NoCore
    /\ UNCHANGED sem

\* ... unless a job of the core was started in the meantime.
ManualRefuse ==
    /\ handler # NoCore
    /\ running("router", handler)
    /\ flock' = Free
    /\ handler' = NoCore
    /\ UNCHANGED <<jobVars, attemptVars, sem>>

-----------------------------------------------------------------------------
(* The job's goroutine: runCoreApplyJobWithRetry, runCoreApplyWorkWithRetry *)

\* An automatic attempt waits for applySem first; a manual one holds the file
\* lock already and goes to work at once.
FirstPhase(j) == IF slot[j].kind = "manual" THEN "work" ELSE "sem"

startAttempt(j) ==
    /\ status' = [status EXCEPT ![j] = "running"]
    /\ pc' = [pc EXCEPT ![j] = "attempt"]
    /\ phase' = [phase EXCEPT ![Current(j)] = FirstPhase(j)]
    /\ UNCHANGED <<errCode, slot, latest, retry, last, outcome, expired, lockVars>>

Run(j) == pc[j] = "start" /\ startAttempt(j)

markSucceeded(j) ==
    /\ status' = [status EXCEPT ![j] = "succeeded"]
    /\ errCode' = [errCode EXCEPT ![j] = NoError]
    /\ pc' = [pc EXCEPT ![j] = "done"]
    /\ UNCHANGED <<slot, latest, retry, last>>

markFailed(j, code) ==
    /\ status' = [status EXCEPT ![j] = "failed"]
    /\ errCode' = [errCode EXCEPT ![j] = code]
    /\ pc' = [pc EXCEPT ![j] = "done"]
    /\ UNCHANGED <<slot, latest, retry, last>>

\* Mutant: one retry too many.
MayRetryOnceMore(j, code) ==
    /\ retry[j] <= MaxRetriesOf(slot[j].kind)
    /\ coreApplyErrorRetryable(code)

MayRetry(j, code) ==
    /\ retry[j] < MaxRetriesOf(slot[j].kind)
    /\ coreApplyErrorRetryable(code)

\* What the loop does with the result of an attempt.
Conclude(j, code) ==
    /\ \/ /\ code = "ok"
          /\ markSucceeded(j)
       \/ /\ code # "ok"
          /\ ~MayRetry(j, code)
          /\ markFailed(j, code)
       \/ /\ code # "ok"
          /\ MayRetry(j, code)
          /\ pc' = [pc EXCEPT ![j] = "cleanup"]
          /\ last' = [last EXCEPT ![j] = code]
          /\ UNCHANGED <<status, errCode, slot, latest, retry>>
    /\ UNCHANGED <<attemptVars, lockVars>>

\* The select of runCoreApplyAttempt: the attempt's result, or its deadline.
\* When both are ready either may be taken.
TakeResult(j) ==
    /\ pc[j] = "attempt"
    /\ phase[Current(j)] = "ended"
    /\ Conclude(j, outcome[Current(j)])

\* Mutant: the deadline is reported as a failure of the work.
TakeTimeoutAsFailure(j) ==
    /\ pc[j] = "attempt"
    /\ Current(j) \in expired
    /\ Conclude(j, "fatal")

TakeTimeout(j) ==
    /\ pc[j] = "attempt"
    /\ Current(j) \in expired
    /\ Conclude(j, "apply_timeout")

\* Mutant: the retry does not wait for the attempt before it.
CleanedAtOnce(j) ==
    /\ pc[j] = "cleanup"
    /\ status' = [status EXCEPT ![j] = "retrying"]
    /\ errCode' = [errCode EXCEPT ![j] = last[j]]
    /\ retry' = [retry EXCEPT ![j] = @ + 1]
    /\ pc' = [pc EXCEPT ![j] = "delay"]
    /\ UNCHANGED <<slot, latest, last, attemptVars, lockVars>>

\* waitForCoreApplyAttemptCleanup: the attempt's goroutine has ended ...
Cleaned(j) ==
    /\ pc[j] = "cleanup"
    /\ phase[Current(j)] = "ended"
    /\ status' = [status EXCEPT ![j] = "retrying"]
    /\ errCode' = [errCode EXCEPT ![j] = last[j]]
    /\ retry' = [retry EXCEPT ![j] = @ + 1]
    /\ pc' = [pc EXCEPT ![j] = "delay"]
    /\ UNCHANGED <<slot, latest, last, attemptVars, lockVars>>

\* Mutant: no grace period, the job waits for as long as the attempt works.
CleanupWithoutGrace(j) ==
    /\ pc[j] = "cleanup"
    /\ phase[Current(j)] = "ended"
    /\ markFailed(j, "apply_cleanup_timeout")
    /\ UNCHANGED <<attemptVars, lockVars>>

\* ... or the grace period has: the job fails and leaves the attempt behind.
CleanupTimeout(j) ==
    /\ pc[j] = "cleanup"
    /\ markFailed(j, "apply_cleanup_timeout")
    /\ UNCHANGED <<attemptVars, lockVars>>

RetryTimer(j) == pc[j] = "delay" /\ startAttempt(j)

-----------------------------------------------------------------------------
(* The attempt's goroutine: withApplyLock around the work *)

\* context.WithTimeout of runCoreApplyAttempt.
Deadline(j) ==
    /\ pc[j] = "attempt"
    /\ Current(j) \notin expired
    /\ expired' = expired \cup {Current(j)}
    /\ UNCHANGED <<jobVars, phase, outcome, lockVars>>

mgr(a) == slot[a[1]].mgr

return(a, code) ==
    /\ phase' = [phase EXCEPT ![a] = "return"]
    /\ outcome' = [outcome EXCEPT ![a] = code]
    /\ UNCHANGED <<jobVars, expired>>

AcquireSem(a) ==
    /\ phase[a] = "sem"
    /\ sem[mgr(a)] = Free
    /\ sem' = [sem EXCEPT ![mgr(a)] = a]
    /\ phase' = [phase EXCEPT ![a] = "flock"]
    /\ UNCHANGED <<jobVars, outcome, expired, flock, handler>>

SemCancelled(a) ==
    /\ phase[a] = "sem"
    /\ a \in expired
    /\ return(a, "apply_cancelled")
    /\ UNCHANGED lockVars

\* Mutant: the lock is not exclusive.
TryAcquireShared(a) ==
    /\ phase[a] = "flock"
    /\ flock' = a
    /\ phase' = [phase EXCEPT ![a] = "work"]
    /\ UNCHANGED <<jobVars, outcome, expired, sem, handler>>

\* lockfile.TryAcquire.  It does not wait, and does not look at the context.
TryAcquire(a) ==
    /\ phase[a] = "flock"
    /\ flock = Free
    /\ flock' = a
    /\ phase' = [phase EXCEPT ![a] = "work"]
    /\ UNCHANGED <<jobVars, outcome, expired, sem, handler>>

\* Mutant: applySem is not released on this path.
AcquireFailsKeepsSem(a) ==
    /\ phase[a] = "flock"
    /\ return(a, "apply_locked")
    /\ UNCHANGED <<sem, flock, handler>>

\* The lock is busy, or its file cannot be opened or locked.
AcquireFails(a) ==
    /\ phase[a] = "flock"
    /\ return(a, "apply_locked")
    /\ sem' = [sem EXCEPT ![mgr(a)] = Free]
    /\ UNCHANGED <<flock, handler>>

\* Mutant: the unlock that the manual handler hands to its job is not called.
FinishWorkKeepsLock(a, code) ==
    /\ phase[a] = "work"
    /\ return(a, code)
    /\ flock' = IF slot[a[1]].kind = "manual" THEN flock ELSE Free
    /\ sem' = IF slot[a[1]].kind = "manual" THEN sem
              ELSE [sem EXCEPT ![mgr(a)] = Free]
    /\ UNCHANGED handler

\* The work is over: the deferred calls release the file lock and applySem.
FinishWork(a, code) ==
    /\ phase[a] = "work"
    /\ return(a, code)
    /\ flock' = Free
    /\ sem' = IF slot[a[1]].kind = "manual" THEN sem
              ELSE [sem EXCEPT ![mgr(a)] = Free]
    /\ UNCHANGED handler

\* The result goes to resultCh and done is closed.
Deliver(a) ==
    /\ phase[a] = "return"
    /\ phase' = [phase EXCEPT ![a] = "ended"]
    /\ UNCHANGED <<jobVars, outcome, expired, lockVars>>

-----------------------------------------------------------------------------

\* The process dies and starts again: jobs live in memory only and the kernel
\* drops the file lock with the descriptor.
Restart ==
    /\ status' = [j \in Jobs |-> "none"]
    /\ errCode' = [j \in Jobs |-> NoError]
    /\ slot' = [j \in Jobs |-> [mgr |-> "router", core |-> "xray", kind |-> "auto"]]
    /\ latest' = [m \in Managers |-> [c \in Cores |-> NoJob]]
    /\ pc' = [j \in Jobs |-> "none"]
    /\ retry' = [j \in Jobs |-> 0]
    /\ last' = [j \in Jobs |-> NoError]
    /\ phase' = [a \in Attempts |-> "none"]
    /\ outcome' = [a \in Attempts |-> NoError]
    /\ expired' = {}
    /\ sem' = [m \in Managers |-> Free]
    /\ flock' = Free
    /\ handler' = NoCore

\* The bound MaxJobs: requests stop when the ids run out, and a request that
\* holds the file lock finds one left.
IdLeft == \E j \in Jobs : Fresh(j)
IdLeftBeside(j) == handler # NoCore => \E k \in Jobs : k # j /\ status[k] = "none"

Requests ==
    \/ \E m \in Managers, c \in Cores, j \in Jobs :
          IdLeftBeside(j) /\ EnqueueAuto(m, c, j)
    \/ "router" \in Managers /\ IdLeft /\ \E c \in Cores : ManualLock(c)

HandlerStep == ManualRefuse \/ \E j \in Jobs : ManualStart(j)

RunnerStep(j) ==
    \/ Run(j)
    \/ TakeResult(j)
    \/ TakeTimeout(j)
    \/ Cleaned(j)
    \/ CleanupTimeout(j)
    \/ RetryTimer(j)
    \/ Deadline(j)

LockStep(a) ==
    \/ AcquireSem(a)
    \/ SemCancelled(a)
    \/ TryAcquire(a)
    \/ AcquireFails(a)
    \/ Deliver(a)

Next ==
    \/ Requests
    \/ HandlerStep
    \/ \E j \in Jobs : RunnerStep(j)
    \/ \E a \in Attempts : LockStep(a) \/ \E code \in WorkCodes : FinishWork(a, code)
    \/ Restart

Spec == Init /\ [][Next]_vars

\* Goroutines are scheduled and timers fire.  RunFairness does not assume that
\* the work of an attempt, which waits for external commands, ever ends.
RunFairness == \A j \in Jobs : WF_vars(RunnerStep(j))
WorkFairness ==
    /\ WF_vars(HandlerStep)
    /\ \A a \in Attempts : WF_vars(\E code \in WorkCodes : FinishWork(a, code))

RunnerFairSpec == Spec /\ RunFairness

-----------------------------------------------------------------------------
(* Properties *)

\* The values of the manager's fields, the goroutines' places and the locks.
TypeOK ==
    /\ status \in [Jobs -> {"none"} \cup Active \cup Terminal]
    /\ errCode \in [Jobs -> Codes]
    /\ slot \in [Jobs -> [mgr : Managers \cup {"router"}, core : Cores \cup {"xray"},
                          kind : {"auto", "manual"}]]
    /\ latest \in [Managers -> [Cores -> Jobs \cup {NoJob}]]
    /\ pc \in [Jobs -> {"none", "start", "attempt", "cleanup", "delay", "done"}]
    /\ retry \in [Jobs -> 0 .. MaxRetries]
    /\ last \in [Jobs -> Codes]
    /\ phase \in [Attempts -> {"none", "sem", "flock", "work", "return", "ended"}]
    /\ outcome \in [Attempts -> Codes]
    /\ expired \subseteq Attempts
    /\ sem \in [Managers -> Attempts \cup {Free}]
    /\ flock \in Attempts \cup {Free, Request}
    /\ handler \in Cores \cup {NoCore}

\* Two attempts never work on the cores' files and services at once, of
\* whichever manager, core or origin, and even when one of them has been given
\* up by its job; nor does one while a request handler holds the file lock.
WorkExclusion ==
    \A a \in Attempts : phase[a] = "work" =>
        /\ flock = a
        /\ handler = NoCore
        /\ \A b \in Attempts : phase[b] = "work" => b = a

\* No lock is leaked: whatever path an attempt or a request takes, a lock that
\* is held is held by someone whose next steps release it.
LocksHaveOwners ==
    /\ \A a \in Attempts : flock = a =>
          \/ phase[a] = "work"
          \/ slot[a[1]].kind = "manual" /\ status[a[1]] = "queued"
    /\ flock = Request => handler # NoCore
    /\ \A m \in Managers, a \in Attempts : sem[m] = a =>
          phase[a] \in {"flock", "work"} /\ mgr(a) = m

\* A retry starts only after the goroutine of the attempt before it is gone:
\* the attempts of one job never overlap (waitForCoreApplyAttemptCleanup).
AttemptsInTurn ==
    \A a \in Attempts : Live(a) => a[2] = retry[a[1]]

\* A manager never runs two jobs of a core at once, and the one that runs is
\* the one byCore shows.
OneActiveJob ==
    \A j \in Jobs : status[j] \in Active => latest[slot[j].mgr][slot[j].core] = j

\* A finished job that leaves a goroutine at work behind says so: it failed
\* for a timeout.  In particular a job that succeeded has nothing running.
OnlyTimeoutsLeaveWork ==
    \A a \in Attempts : Live(a) /\ status[a[1]] \in Terminal =>
        status[a[1]] = "failed" /\ errCode[a[1]] \in {"apply_timeout", "apply_cleanup_timeout"}

\* "Late work results do not overwrite that timeout" (comment of
\* runCoreApplyJob): once a job has an end, its status and error are final,
\* whatever its attempts still do, until the process restarts.
ResultsAreFinal ==
    [][\A j \in Jobs : status[j] \in Terminal =>
          \/ status'[j] = status[j] /\ errCode'[j] = errCode[j]
          \/ \A k \in Jobs : status'[k] = "none"]_vars

\* Every job comes to an end, even when the work of an attempt hangs for ever.
JobsEnd == \A j \in Jobs : status[j] \in Active ~> status[j] \notin Active

\* The file lock is always released again if request handlers go on and the
\* commands of the work end.
LockIsReleased == WorkFairness => (flock # Free ~> flock = Free)

-----------------------------------------------------------------------------
(* The implementation of JobLifecycle *)

Placing == [j \in Jobs |-> <<slot[j].mgr, slot[j].core>>]
TriesOf(j) == CASE pc[j] \in {"none", "start"} -> 0
                [] pc[j] = "delay" -> retry[j]
                [] OTHER -> retry[j] + 1
Tried == [j \in Jobs |-> TriesOf(j)]
Working == {a \in Attempts : phase[a] = "work"}
AtWork == IF Working = {} THEN NoJob ELSE (CHOOSE a \in Working : TRUE)[1]

Lifecycle == INSTANCE JobLifecycle WITH
    Slots <- (Managers \cup {"router"}) \X (Cores \cup {"xray"}),
    Tries <- MaxRetries + 1,
    state <- status,
    place <- Placing,
    tries <- Tried,
    applying <- AtWork

\* What a client of the manager sees is a life of jobs that JobLifecycle allows.
ImplementsLifecycle == Lifecycle!Spec

=============================================================================
