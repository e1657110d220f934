--------------------------- MODULE CoreSyncProofs ---------------------------
(***************************************************************************)
(* Proofs about CoreSync, for any cores, managers, jobs, retries, savers,  *)
(* configurations and switches.  Every step of CoreSync is a step of       *)
(* ApplyJobs or leaves it alone, so what ApplyJobsProofs proves holds here *)
(* too; the attempt that holds apply.lock is then the only one that        *)
(* touches a core's file, service and row, save for marks and restarts.    *)
(***************************************************************************)
EXTENDS CoreSync, ApplyJobsProofs

Bads == Invalid \cup Unbuildable

\* An attempt that is not at work keeps no local variables.
AtRest == \A a \in Attempts : phase[a] # "work" => inst[a] = Idle

\* Only a manual Xray apply goes on with sing-box.
NestedInXray ==
    \A a \in Attempts : inst[a].nested =>
        slot[a[1]].kind = "manual" /\ slot[a[1]].core = "xray" /\ "singbox" \in Cores

\* What the attempt at work knows of its core's file and service.
Holding ==
    \A a \in Attempts :
        /\ At(a, "install") => inst[a].cfg \notin Unbuildable
        /\ At(a, "restart") \/ At(a, "record") =>
              inst[a].cfg \notin Bads /\ disk[Core(a)] = inst[a].cfg
        /\ At(a, "restart") \/ At(a, "rollback") => inst[a].bak \notin Bads
        /\ At(a, "rollback") => disk[Core(a)] = inst[a].bak
        /\ At(a, "record") => live[Core(a)] = disk[Core(a)]

\* Only an attempt between its rename and its restart, a crash there, or a
\* systemctl that did nothing, lets a service run something else than its file.
DiskIsLive == \A c \in Cores : Installing(c) \/ live[c] \in {disk[c], Dead} \/ c \in torn

\* A job beyond its start has made the attempt it counts.
Started == \A j \in Jobs : pc[j] \in {"attempt", "cleanup", "done"} => phase[Current(j)] # "none"

\* Jobs take their ids in order.
InTurnIds == \A j, k \in Jobs : status[j] # "none" /\ k < j => status[k] # "none"

IsAutomatic(a) == slot[a[1]].kind = "auto"

\* The attempt has work left on the core.
Ahead(b, c) == Core(b) = c \/ (Core(b) = "xray" /\ c = "singbox")

\* The core's row has a mark, or a failed attempt could not write it.
Owned(c) == row[c].dirty \/ c \in unmarked

\* A manual job has the file lock before it has an id, so an automatic job that
\* came later has done nothing while the manual one works, and where it failed
\* its mark, if it could be written, stands until the manual one records.
ManualFirst ==
    \A a, b \in Attempts : flock = b /\ ~IsAutomatic(b) /\ IsAutomatic(a) /\ a[1] > b[1] =>
        /\ phase[a] \in {"return", "ended"} => outcome[a] # "ok"
        /\ phase[a] = "ended" /\ Ahead(b, slot[a[1]].core) => Owned(slot[a[1]].core)

\* The core shows no mark although its service runs something else than its file.
Bad(c) == ~Owned(c) /\ live[c] # disk[c]

\* The attempt will mark nothing any more.
Over(a) == phase[a] = "ended" \/ (phase[a] = "return" /\ outcome[a] = "ok")

\* An automatic attempt is on the way to mark the core.
Blamed(b, c) ==
    /\ IsAutomatic(b) /\ slot[b[1]].core = c
    /\ At(b, "restart") \/ At(b, "rollback") \/ (phase[b] = "return" /\ outcome[b] # "ok")

TakenOver(j, c) == \E k \in Jobs : k > j /\ status[k] # "none" /\ Concerns(k, c)

\* When an automatic attempt is over, a core that is not as its file says will
\* be marked yet, or a later job has taken it over.
Explained ==
    \A a \in Attempts : IsAutomatic(a) /\ Over(a) /\ Bad(slot[a[1]].core) =>
        \/ \E b \in Attempts : Blamed(b, slot[a[1]].core)
        \/ TakenOver(a[1], slot[a[1]].core)

\* A save and a second look are about a core and a manager that exist.
Asked ==
    /\ \A s \in Savers : save[s].at # "idle" => save[s].core \in Cores /\ save[s].mgr \in Managers
    /\ \A j \in Jobs : sched[j] # "no" => status[j] # "none"

\* What the attempts, the files, the services and the rows owe each other.
Upkeep ==
    /\ AtRest
    /\ NestedInXray
    /\ Holding
    /\ OnlyValidRuns
    /\ DiskIsLive
    /\ ManualFirst
    /\ Explained

SyncIInv ==
    /\ IInv /\ Started /\ InTurnIds
    /\ SyncTypeOK /\ Asked
    /\ Upkeep

-----------------------------------------------------------------------------
(* The job manager's invariants that CoreSync adds *)

\* Every job starts before its first attempt is made and in the order of the ids.
LEMMA InitInOrder == Init => Started /\ InTurnIds
BY DEF Init, Started, InTurnIds

\* No step of the job manager breaks that.
LEMMA NextInOrder ==
  ASSUME IInv, Started, InTurnIds, [Next]_vars
  PROVE  Started' /\ InTurnIds'
<1> TypeOK /\ PcShows
    BY DEF IInv
<1>0. \A j \in Jobs : Current(j) \in Attempts
    BY CurrentAttempt
<1>1. CASE \E m \in Managers, c \in Cores, k \in Jobs, kind \in {"auto", "manual"} : tryStart(m, c, kind, k)
  <2> PICK m \in Managers, c \in Cores, k \in Jobs, kind \in {"auto", "manual"} : tryStart(m, c, kind, k)
      BY <1>1
  <2>1. Started'
      BY DEF tryStart, Started, Current, TypeOK, attemptVars
  <2>2. InTurnIds'
      BY DEF tryStart, Fresh, InTurnIds, TypeOK
  <2>3. QED
      BY <2>1, <2>2
<1>2. CASE UNCHANGED <<status, pc, retry, phase>>
    BY <1>2 DEF Started, InTurnIds, Current
<1>3. CASE \E j \in Jobs : pc[j] \in {"start", "delay"} /\ startAttempt(j)
  <2> PICK j \in Jobs : pc[j] \in {"start", "delay"} /\ startAttempt(j)
      BY <1>3
  <2>1. FirstPhase(j) # "none" /\ \A k \in Jobs : Current(k)' = Current(k)
      BY DEF FirstPhase, startAttempt, Current
  <2>2. Started'
      BY <1>0, <2>1 DEF startAttempt, Started, TypeOK
  <2>3. InTurnIds'
      BY DEF startAttempt, InTurnIds, TypeOK, PcShows
  <2>4. QED
      BY <2>2, <2>3
<1>4. CASE \E j \in Jobs, code \in Codes : pc[j] = "attempt" /\ Conclude(j, code)
  <2> PICK j \in Jobs, code \in Codes : pc[j] = "attempt" /\ Conclude(j, code)
      BY <1>4
  <2>1. /\ UNCHANGED <<phase, retry>>
        /\ \A k \in Jobs : k # j => status'[k] = status[k] /\ pc'[k] = pc[k]
        /\ status[j] # "none" /\ status'[j] # "none"
      BY DEF Conclude, markSucceeded, markFailed, attemptVars, TypeOK, PcShows
  <2>2. QED
      BY <2>1 DEF Started, InTurnIds, Current
<1>5. CASE \E j \in Jobs : Cleaned(j) \/ CleanupTimeout(j)
  <2> PICK j \in Jobs : Cleaned(j) \/ CleanupTimeout(j)
      BY <1>5
  <2>1. /\ UNCHANGED phase
        /\ \A k \in Jobs : k # j => status'[k] = status[k] /\ pc'[k] = pc[k] /\ retry'[k] = retry[k]
        /\ status[j] # "none" /\ status'[j] # "none" /\ pc[j] = "cleanup"
        /\ pc'[j] = "delay" \/ retry' = retry
      BY DEF Cleaned, CleanupTimeout, markFailed, attemptVars, TypeOK, PcShows
  <2>2. QED
      BY <2>1 DEF Started, InTurnIds, Current
<1>6. CASE /\ UNCHANGED <<status, pc, retry>>
           /\ \E a \in Attempts, p \in {"flock", "work", "return", "ended"} : phase' = [phase EXCEPT ![a] = p]
    BY <1>0, <1>6 DEF Started, InTurnIds, Current, TypeOK
<1>7. CASE Restart
    BY <1>7 DEF Restart, Started, InTurnIds
<1>8. QED
  <2>1. CASE Requests \/ HandlerStep
      BY <2>1, <1>1, <1>2 DEF Requests, HandlerStep, EnqueueAuto, ManualLock, ManualRefuse, ManualStart,
                          IInv, LockInv, jobVars, attemptVars, TypeOK
  <2>2. CASE \E j \in Jobs : RunnerStep(j)
    <3>1. \A j \in Jobs : outcome[Current(j)] \in Codes /\ "apply_timeout" \in Codes
        BY CurrentAttempt DEF TypeOK, Codes
    <3>2. QED
        BY <2>2, <3>1, <1>2, <1>3, <1>4, <1>5 DEF RunnerStep, Run, TakeResult, TakeTimeout, RetryTimer,
                          Deadline, jobVars
  <2>3. CASE \E a \in Attempts : LockStep(a) \/ \E code \in WorkCodes : FinishWork(a, code)
      BY <2>3, <1>6 DEF LockStep, AcquireSem, SemCancelled, TryAcquire, AcquireFails, Deliver,
                          FinishWork, return, jobVars
  <2>4. CASE UNCHANGED vars
      BY <2>4, <1>2 DEF vars, jobVars, attemptVars
  <2>5. QED
      BY <2>1, <2>2, <2>3, <2>4, <1>7 DEF Next

-----------------------------------------------------------------------------
(* Steps that leave the attempt at work alone *)

\* A step of the job manager that ends no work and delivers no result: jobs
\* keep what they are, results stay, only failures are added, and a manual job
\* that takes over the file lock is the newest.
Calm ==
    /\ \A j \in Jobs : status[j] # "none" => status'[j] # "none" /\ slot'[j] = slot[j]
    /\ \A a \in Attempts :
          /\ phase[a] = "work" => phase'[a] = "work"
          /\ phase[a] \in {"return", "ended"} => phase'[a] = phase[a] /\ outcome'[a] = outcome[a]
          /\ phase'[a] \in {"return", "ended"} =>
                phase'[a] = phase[a] \/ (phase'[a] = "return" /\ outcome'[a] # "ok")
          /\ flock' = a =>
                \/ flock = a
                \/ slot'[a[1]].kind = "auto"
                \/ \A b \in Attempts : b[1] > a[1] => phase'[b] = "none"

\* An attempt that was made keeps its job's core and origin.
LEMMA CalmSlot ==
  ASSUME IInv, Calm
  PROVE  \A a \in Attempts : phase[a] # "none" => slot'[a[1]] = slot[a[1]]
BY Begun, AttemptPair DEF Calm

\* Requests and handlers.
LEMMA StartIsCalm ==
  ASSUME IInv, InTurnIds, Requests \/ HandlerStep
  PROVE  Calm
<1> TypeOK /\ LockInv
    BY DEF IInv
<1>1. CASE ManualRefuse \/ \E c \in Cores : ManualLock(c)
  <2>1. UNCHANGED <<status, slot, phase, outcome>> /\ flock' \in {Request, Free}
      BY <1>1 DEF ManualLock, ManualRefuse, jobVars, attemptVars
  <2>2. QED
      BY <2>1, NoAttemptIsFree DEF Calm
<1>2. CASE \E m \in Managers, c \in Cores, j \in Jobs : EnqueueAuto(m, c, j)
    BY <1>2 DEF EnqueueAuto, tryStart, Fresh, lockVars, attemptVars, Calm, TypeOK
<1>3. CASE \E j \in Jobs : ManualStart(j)
  <2> PICK j \in Jobs : ManualStart(j)
      BY <1>3
  <2>1. /\ status[j] = "none" /\ flock' = <<j, 0>>
        /\ UNCHANGED <<phase, outcome>>
        /\ \A k \in Jobs : k # j => status'[k] = status[k] /\ slot'[k] = slot[k]
      BY DEF ManualStart, tryStart, Fresh, attemptVars, TypeOK
  <2>2. \A k \in Jobs : k > j => status[k] = "none"
      BY <2>1, MaxJobsAssumption DEF InTurnIds, Jobs
  <2>3. \A a \in Attempts : a[1] > j => phase[a] = "none"
      BY <2>2, NotBegun, AttemptPair
  <2>4. QED
      BY <2>1, <2>3 DEF Calm
<1>4. QED
  <2>1. CASE Requests
      BY <2>1, <1>1, <1>2 DEF Requests
  <2>2. CASE HandlerStep
      BY <2>2, <1>1, <1>3 DEF HandlerStep
  <2>3. QED
      BY <2>1, <2>2

\* A job's goroutine.
LEMMA RunnerIsCalm ==
  ASSUME IInv, NEW j \in Jobs, RunnerStep(j)
  PROVE  Calm
<1> TypeOK /\ PcShows /\ InOrder
    BY DEF IInv
<1>1. CASE pc[j] \in {"start", "delay"} /\ startAttempt(j)
  <2>1. /\ UNCHANGED <<slot, outcome, flock>>
        /\ \A k \in Jobs : status[k] # "none" => status'[k] # "none"
        /\ phase' = [phase EXCEPT ![Current(j)] = FirstPhase(j)]
      BY <1>1 DEF startAttempt, lockVars, TypeOK
  <2>2. Current(j) \in Attempts /\ phase[Current(j)] = "none" /\ FirstPhase(j) \in {"work", "sem"}
      BY <1>1, CurrentAttempt DEF FirstPhase, InOrder
  <2>3. QED
      BY <2>1, <2>2 DEF Calm, TypeOK
<1>2. CASE UNCHANGED <<slot, phase, outcome, flock>> /\ \A k \in Jobs : status[k] # "none" => status'[k] # "none"
    BY <1>2 DEF Calm
<1>3. QED
    BY <1>1, <1>2 DEF RunnerStep, Run, TakeResult, TakeTimeout, Cleaned, CleanupTimeout, RetryTimer,
                      Deadline, Conclude, markSucceeded, markFailed, attemptVars, lockVars, jobVars, TypeOK

\* An attempt on its way to the file lock.
LEMMA LockingIsCalm ==
  ASSUME IInv, NEW a \in Attempts,
         AcquireSem(a) \/ SemCancelled(a) \/ TryAcquire(a) \/ AcquireFails(a)
  PROVE  Calm
<1> TypeOK /\ InOrder
    BY DEF IInv
<1>1. phase[a] \in {"sem", "flock"} /\ slot[a[1]].kind # "manual"
    BY DEF AcquireSem, SemCancelled, TryAcquire, AcquireFails, InOrder
<1>2. slot[a[1]].kind = "auto"
    BY <1>1, AttemptPair DEF TypeOK
<1>3. UNCHANGED <<slot, status>> /\ \A b \in Attempts : b # a => phase'[b] = phase[b] /\ outcome'[b] = outcome[b]
    BY DEF AcquireSem, SemCancelled, TryAcquire, AcquireFails, return, jobVars, TypeOK
<1>4. phase'[a] \in {"flock", "work"} \/ (phase'[a] = "return" /\ outcome'[a] # "ok")
    BY DEF AcquireSem, SemCancelled, TryAcquire, AcquireFails, return, TypeOK
<1>5. flock' = flock \/ flock' = a
    BY DEF AcquireSem, SemCancelled, TryAcquire, AcquireFails, lockVars
<1>6. QED
    BY <1>1, <1>2, <1>3, <1>4, <1>5 DEF Calm

\* What a calm step that only adds pending marks preserves.
LEMMA CalmKeeps ==
  ASSUME SyncIInv, Calm, UNCHANGED <<inst, disk, live, torn, unmarked>>,
         \A c \in Cores : row[c].dirty => row'[c].dirty
  PROVE  Upkeep'
<1> IInv /\ SyncTypeOK /\ AtRest /\ NestedInXray /\ Holding /\ OnlyValidRuns /\ DiskIsLive
        /\ ManualFirst /\ Explained
    BY DEF SyncIInv, Upkeep
<1>1. \A a \in Attempts : phase[a] # "none" => slot'[a[1]] = slot[a[1]] /\ slot[a[1]].core \in Cores
    BY CalmSlot, Begun, AttemptPair DEF IInv, Placed
<1>2. \A a \in Attempts : inst[a] # Idle => phase[a] = "work" /\ phase'[a] = "work" /\ slot'[a[1]] = slot[a[1]]
    BY <1>1 DEF AtRest, Calm
<1>3. \A a \in Attempts : phase[a] = "work" => Core(a)' = Core(a)
    BY <1>1 DEF Core
<1>4. \A a \in Attempts : /\ At(a, "install")' <=> At(a, "install")
                          /\ At(a, "restart")' <=> At(a, "restart")
                          /\ At(a, "rollback")' <=> At(a, "rollback")
                          /\ At(a, "record")' <=> At(a, "record")
    BY <1>2 DEF At, Idle, Calm
<1>5. AtRest' /\ NestedInXray' /\ OnlyValidRuns'
  <2>1. \A a \in Attempts : inst[a].nested => inst[a] # Idle
      BY DEF Idle
  <2>2. AtRest'
      BY <1>2 DEF AtRest
  <2>3. NestedInXray'
      BY <1>2, <2>1 DEF NestedInXray
  <2>4. OnlyValidRuns'
      BY DEF OnlyValidRuns
  <2>5. QED
      BY <2>2, <2>3, <2>4
<1>6. Holding'
    BY <1>3, <1>4 DEF Holding, At
<1>7. DiskIsLive'
    BY <1>3, <1>4 DEF DiskIsLive, Installing, At
<1>8. \A a \in Attempts : Over(a)' => Over(a) /\ phase[a] # "none"
    BY DEF Over, Calm
<1>9. \A c \in Cores : (Owned(c) => Owned(c)') /\ (Bad(c)' => Bad(c))
    BY DEF Bad, Owned
<1>10. Explained'
  <2> SUFFICES ASSUME NEW a \in Attempts, IsAutomatic(a)', Over(a)', Bad(slot[a[1]].core)'
               PROVE  \/ \E b \in Attempts : Blamed(b, slot[a[1]].core)'
                      \/ TakenOver(a[1], slot[a[1]].core)'
      BY DEF Explained
  <2> DEFINE c == slot[a[1]].core
  <2>1. slot'[a[1]] = slot[a[1]] /\ c \in Cores /\ IsAutomatic(a) /\ Over(a) /\ Bad(c)
      BY <1>1, <1>8, <1>9 DEF IsAutomatic
  <2>2. CASE \E b \in Attempts : Blamed(b, c)
    <3> PICK b \in Attempts : Blamed(b, c)
        BY <2>2
    <3>1. phase[b] # "none"
        BY DEF Blamed, At
    <3>2. Blamed(b, c)'
        BY <1>1, <1>4, <3>1, <2>1 DEF Blamed, IsAutomatic, Calm
    <3>3. QED
        BY <2>1, <3>2
  <2>3. CASE TakenOver(a[1], c)
      BY <2>1, <2>3 DEF TakenOver, Concerns, Calm
  <2>4. QED
      BY <2>1, <2>2, <2>3 DEF Explained
<1>11. ManualFirst'
  <2> SUFFICES ASSUME NEW a \in Attempts, NEW b \in Attempts,
                      flock' = b, ~IsAutomatic(b)', IsAutomatic(a)', a[1] > b[1]
               PROVE  /\ phase'[a] \in {"return", "ended"} => outcome'[a] # "ok"
                      /\ phase'[a] = "ended" /\ Ahead(b, slot[a[1]].core)'
                            => Owned(slot[a[1]].core)'
      BY DEF ManualFirst
  <2>1. CASE phase'[a] \notin {"return", "ended"}
      BY <2>1
  <2>2. CASE phase'[a] = "return" /\ outcome'[a] # "ok"
      BY <2>2
  <2>3. CASE phase'[a] = phase[a] /\ phase[a] \in {"return", "ended"}
    <3>1. flock = b
        BY <2>3 DEF Calm, IsAutomatic
    <3>2. slot'[b[1]] = slot[b[1]]
        BY <3>1, NotBegun, AttemptPair DEF Calm
    <3>3. slot'[a[1]] = slot[a[1]] /\ slot[a[1]].core \in Cores /\ outcome'[a] = outcome[a]
        BY <1>1, <2>3 DEF Calm
    <3>4. Core(b)' = Core(b)
        BY <3>2 DEF Core
    <3>5. IsAutomatic(a) /\ ~IsAutomatic(b)
        BY <3>2, <3>3 DEF IsAutomatic
    <3>6. QED
        BY <1>9, <2>3, <3>1, <3>3, <3>4, <3>5 DEF ManualFirst, Ahead
  <2>4. QED
      BY <2>1, <2>2, <2>3 DEF Calm
<1>12. QED
    BY <1>5, <1>6, <1>7, <1>10, <1>11 DEF Upkeep

-----------------------------------------------------------------------------
(* CoreSync's steps as steps of ApplyJobs *)

\* enqueueCoreAutoApply joins a job or starts one as a request does.
LEMMA EnqueueIsRequest ==
  ASSUME NEW m \in Managers, NEW c \in Cores, EnqueueOrJoin(m, c)
  PROVE  UNCHANGED vars \/ Requests
BY DEF EnqueueOrJoin, Requests

\* The work of an attempt leaves the job manager alone until it ends.
LEMMA WorkApplies ==
  ASSUME NEW a \in Attempts, Work(a)
  PROVE  UNCHANGED vars \/ \E code \in WorkCodes : FinishWork(a, code)
<1>1. ASSUME NEW code \in {"ok", "transient", "fatal"}, End(a, code)
      PROVE  \E k \in WorkCodes : FinishWork(a, k)
    BY <1>1 DEF End, WorkCodes
<1>2. QED
    BY <1>1 DEF Work, Build, Install, Restarted, RestartFails, RolledBack, Record, PrepareFails, Go, Failures

\* Every step of CoreSync is a step of ApplyJobs or leaves it alone.
LEMMA StepApplies ==
  ASSUME SyncIInv, [SyncNext]_allVars
  PROVE  [Next]_vars
<1>1. CASE \E s \in Savers :
              \/ \E m \in Managers, c \in Cores : SaveBegin(s, m, c)
              \/ Requesting(s)
              \/ SaveAbandoned(s)
  <2> PICK s \in Savers : \/ \E m \in Managers, c \in Cores : SaveBegin(s, m, c)
                          \/ Requesting(s)
                          \/ SaveAbandoned(s)
      BY <1>1
  <2>1. CASE SaveEnqueue(s)
    <3>1. save[s].core \in Cores /\ save[s].mgr \in Managers
        BY <2>1 DEF SaveEnqueue, SyncIInv, Asked
    <3>2. QED
        BY <2>1, <3>1, EnqueueIsRequest DEF SaveEnqueue, Next
  <2>2. CASE ~SaveEnqueue(s)
      BY <2>2 DEF Requesting, SaveBegin, SaveWrite, SaveCompare, SaveAbandoned
  <2>3. QED
      BY <2>1, <2>2
<1>2. CASE RenewCert \/ RenewMark \/ \E c \in Cores : ServiceComesUp(c)
    BY <1>2 DEF RenewCert, RenewMark, ServiceComesUp
<1>3. CASE \E j \in Jobs : Finish(j) \/ RunStep(j) \/ ScheduleCheck(j) \/ ScheduleEnqueue(j)
  <2> PICK j \in Jobs : Finish(j) \/ RunStep(j) \/ ScheduleCheck(j) \/ ScheduleEnqueue(j)
      BY <1>3
  <2>1. CASE Finish(j) \/ RunStep(j)
      BY <2>1 DEF Finish, RunStep, RunnerStep, Next
  <2>2. CASE ScheduleCheck(j)
      BY <2>2 DEF ScheduleCheck
  <2>3. CASE ScheduleEnqueue(j)
    <3>1. slot[j].core \in Cores /\ slot[j].mgr \in Managers
        BY <2>3 DEF ScheduleEnqueue, SyncIInv, Asked, IInv, Placed
    <3>2. QED
        BY <2>3, <3>1, EnqueueIsRequest DEF ScheduleEnqueue, Next
  <2>4. QED
      BY <2>1, <2>2, <2>3
<1>4. CASE \E a \in Attempts : LockingStep(a) \/ Work(a) \/ Report(a)
    BY <1>4, WorkApplies DEF LockingStep, Report, LockStep, Next
<1>5. CASE ManualStep
    BY <1>5 DEF ManualStep, Requests, Next
<1>6. CASE Crash
    BY <1>6 DEF Crash, Next
<1>7. CASE UNCHANGED allVars
    BY <1>7 DEF allVars
<1>8. QED
    BY <1>1, <1>2, <1>3, <1>4, <1>5, <1>6, <1>7 DEF SyncNext

\* The initial states are ApplyJobs' with nothing saved, built or renewed.
LEMMA InitSyncIInv == SyncInit => SyncIInv
<1> SUFFICES ASSUME SyncInit PROVE SyncIInv
    OBVIOUS
<1> Init
    BY DEF SyncInit
<1>1. IInv /\ Started /\ InTurnIds
    BY InitIInv, InitInOrder
<1>2. SyncTypeOK
    BY <1>1, ConfigsAssumption DEF SyncInit, SyncTypeOK, IInv, Idle, NoSave, Steps
<1>3. \A a \in Attempts : phase[a] = "none" /\ inst[a] = Idle
    BY DEF SyncInit, Init
<1>4. Asked /\ AtRest
    BY <1>3 DEF Asked, AtRest, SyncInit, NoSave
<1>5. NestedInXray
    BY <1>3 DEF NestedInXray, Idle
<1>6. Holding /\ ManualFirst /\ Explained
    BY <1>3 DEF Holding, ManualFirst, Explained, Over, At
<1>7. OnlyValidRuns /\ DiskIsLive
    BY ConfigsAssumption DEF OnlyValidRuns, DiskIsLive, SyncInit
<1>8. QED
    BY <1>1, <1>2, <1>4, <1>5, <1>6, <1>7 DEF SyncIInv, Upkeep

\* The core an attempt works on is one of the cores.
LEMMA CoreOfWork ==
  ASSUME SyncIInv, NEW a \in Attempts, phase[a] = "work"
  PROVE  Core(a) \in Cores /\ slot[a[1]].core \in Cores
BY Begun, AttemptPair DEF SyncIInv, Upkeep, IInv, Placed, NestedInXray, Core

\* What CoreSync takes over from ApplyJobs.
LEMMA JobSide ==
  ASSUME SyncIInv, [SyncNext]_allVars
  PROVE  IInv' /\ Started' /\ InTurnIds'
BY StepApplies, NextIInv, NextInOrder DEF SyncIInv

-----------------------------------------------------------------------------
(* Values *)

Rows == [found : BOOLEAN, applied : Configs \cup {NoConfig}, dirty : BOOLEAN]
Locals == [step : Steps, nested : BOOLEAN, cfg : Configs \cup {NoConfig},
           bak : Configs \cup {NoConfig}]
SaveRequests == [at : {"idle", "captured", "written", "enqueue"},
                 core : Cores \cup {NoCore}, mgr : Managers \cup {"router"},
                 before : Configs \cup {NoConfig}]

\* The kinds of the records by name.
LEMMA Kinds ==
  ASSUME SyncTypeOK
  PROVE  /\ row \in [Cores -> Rows]
         /\ inst \in [Attempts -> Locals]
         /\ save \in [Savers -> SaveRequests]
BY DEF SyncTypeOK, Rows, Locals, SaveRequests

\* Marks and records keep a row a row.
LEMMA RowChanges ==
  ASSUME NEW r \in Rows
  PROVE  /\ [r EXCEPT !.found = TRUE, !.dirty = TRUE] \in Rows
         /\ [r EXCEPT !.found = TRUE, !.dirty = TRUE].dirty
         /\ [r EXCEPT !.found = TRUE, !.dirty = TRUE].applied = r.applied
         /\ \A h \in Configs \cup {NoConfig} : [found |-> TRUE, applied |-> h, dirty |-> FALSE] \in Rows
BY DEF Rows

\* The steps of the work keep its local variables of their kinds.
LEMMA LocalChanges ==
  ASSUME NEW v \in Locals, NEW step \in Steps
  PROVE  /\ [v EXCEPT !.step = step] \in Locals
         /\ \A x \in Configs \cup {NoConfig} : /\ [v EXCEPT !.step = step, !.cfg = x] \in Locals
                                               /\ [v EXCEPT !.step = step, !.bak = x] \in Locals
         /\ Idle \in Locals
         /\ [Idle EXCEPT !.nested = TRUE] \in Locals
BY DEF Locals, Idle, Steps

\* A save request goes on or is over.
LEMMA SaveChanges ==
  ASSUME NEW r \in SaveRequests, NEW at \in {"idle", "captured", "written", "enqueue"}
  PROVE  /\ [r EXCEPT !.at = at] \in SaveRequests
         /\ [r EXCEPT !.at = at].core = r.core /\ [r EXCEPT !.at = at].mgr = r.mgr
         /\ NoSave \in SaveRequests /\ NoSave.at = "idle"
BY DEF SaveRequests, NoSave

\* The work of an attempt keeps the kinds of the values it changes.
LEMMA WorkTypes ==
  ASSUME SyncIInv, NEW a \in Attempts, Work(a), TypeOK'
  PROVE  SyncTypeOK' /\ Asked'
<1> SyncTypeOK /\ Asked
    BY DEF SyncIInv
<1>1. Core(a) \in Cores
    BY CoreOfWork DEF Work, Build, Install, Restarted, RestartFails, RolledBack, Record, PrepareFails, At
<1>2. UNCHANGED <<gen, save, sched, cert, renewal, count>>
    BY DEF Work, Build, Install, Restarted, RestartFails, RolledBack, Record, PrepareFails,
           storeVars, coreVars, requestVars
<1>3. UNCHANGED status
    BY WorkApplies DEF FinishWork, return, jobVars, vars
<1>4. inst' \in [Attempts -> Locals]
  <2>0. inst \in [Attempts -> Locals] /\ "install" \in Steps /\ "restart" \in Steps
        /\ gen[Core(a)] \in Configs /\ disk[Core(a)] \in Configs \cup {NoConfig}
      BY <1>1, Kinds DEF SyncTypeOK, Steps
  <2>1. \/ inst' = [inst EXCEPT ![a] = Idle]
        \/ inst' = [inst EXCEPT ![a] = [Idle EXCEPT !.nested = TRUE]]
        \/ \E step \in Steps : inst' = [inst EXCEPT ![a].step = step]
        \/ inst' = [inst EXCEPT ![a].step = "install", ![a].cfg = gen[Core(a)]]
        \/ inst' = [inst EXCEPT ![a].step = "restart", ![a].bak = disk[Core(a)]]
      BY DEF Work, Build, Install, Restarted, RestartFails, RolledBack, Record, PrepareFails, Go, End, Steps
  <2>2. \/ inst' = [inst EXCEPT ![a] = Idle]
        \/ inst' = [inst EXCEPT ![a] = [Idle EXCEPT !.nested = TRUE]]
        \/ \E step \in Steps : inst' = [inst EXCEPT ![a] = [inst[a] EXCEPT !.step = step]]
        \/ inst' = [inst EXCEPT ![a] = [inst[a] EXCEPT !.step = "install", !.cfg = gen[Core(a)]]]
        \/ inst' = [inst EXCEPT ![a] = [inst[a] EXCEPT !.step = "restart", !.bak = disk[Core(a)]]]
      BY <2>0, <2>1
  <2>3. /\ Idle \in Locals /\ [Idle EXCEPT !.nested = TRUE] \in Locals
        /\ \A step \in Steps : [inst[a] EXCEPT !.step = step] \in Locals
        /\ [inst[a] EXCEPT !.step = "install", !.cfg = gen[Core(a)]] \in Locals
        /\ [inst[a] EXCEPT !.step = "restart", !.bak = disk[Core(a)]] \in Locals
      BY <2>0, LocalChanges
  <2>4. \E v \in Locals : inst' = [inst EXCEPT ![a] = v]
      BY <2>2, <2>3
  <2>5. QED
      BY <2>0, <2>4
<1>5. disk' \in [Cores -> Configs \cup {NoConfig}]
  <2>0. inst[a].cfg \in Configs \cup {NoConfig} /\ inst[a].bak \in Configs \cup {NoConfig}
      BY DEF SyncTypeOK
  <2>1. \/ disk' = disk
        \/ disk' = [disk EXCEPT ![Core(a)] = inst[a].cfg]
        \/ disk' = [disk EXCEPT ![Core(a)] = inst[a].bak]
      BY DEF Work, Build, Install, Restarted, RestartFails, RolledBack, Record, PrepareFails, coreVars
  <2>2. QED
      BY <2>0, <2>1 DEF SyncTypeOK
<1>6. /\ live' \in [Cores -> Configs \cup {Dead, NoConfig}]
      /\ liveCert' \in [Cores -> Nat]
      /\ torn' \subseteq Cores /\ unmarked' \subseteq Cores
  <2>0. /\ live \in [Cores -> Configs \cup {Dead, NoConfig}] /\ liveCert \in [Cores -> Nat]
        /\ torn \subseteq Cores /\ unmarked \subseteq Cores /\ cert \in Nat
        /\ disk[Core(a)] \in Configs \cup {NoConfig} /\ live[Core(a)] \in Configs \cup {Dead, NoConfig}
      BY <1>1 DEF SyncTypeOK
  <2>1. live' = live \/ \E x \in {Dead, live[Core(a)], disk[Core(a)]} : live' = [live EXCEPT ![Core(a)] = x]
      BY DEF Work, Build, Install, Restarted, RestartFails, RolledBack, Record, PrepareFails, Serve, coreVars
  <2>2. liveCert' = liveCert \/ liveCert' = [liveCert EXCEPT ![Core(a)] = cert]
      BY DEF Work, Build, Install, Restarted, RestartFails, RolledBack, Record, PrepareFails, Serve, coreVars
  <2>3. torn' = torn \/ torn' = torn \ {Core(a)} \/ torn' = torn \cup {Core(a)}
      BY DEF Work, Build, Install, Restarted, RestartFails, RolledBack, Record, PrepareFails, Serve,
             Forsake, coreVars
  <2>4. unmarked' = unmarked \/ unmarked' = unmarked \ {Core(a)}
      BY DEF Work, Build, Install, Restarted, RestartFails, RolledBack, Record, PrepareFails, storeVars
  <2>5. live' \in [Cores -> Configs \cup {Dead, NoConfig}]
      BY <2>0, <2>1
  <2>6. QED
      BY <1>1, <2>0, <2>2, <2>3, <2>4, <2>5
<1>7. row' \in [Cores -> Rows]
  <2>0. inst[a].cfg \in Configs \cup {NoConfig} /\ row \in [Cores -> Rows]
      BY Kinds DEF Locals
  <2>1. row' = row \/ row' = MarkCoreApplied(row, Core(a), inst[a].cfg)
      BY DEF Work, Build, Install, Restarted, RestartFails, RolledBack, Record, PrepareFails, storeVars
  <2>2. QED
      BY <1>1, <2>0, <2>1, RowChanges DEF MarkCoreApplied
<1>8. SyncTypeOK'
    BY <1>2, <1>4, <1>5, <1>6, <1>7 DEF SyncTypeOK, Rows, Locals, SaveRequests
<1>9. QED
    BY <1>2, <1>3, <1>8 DEF Asked

\* A pending mark is added to what the row says.
LEMMA MarkTypes ==
  ASSUME SyncTypeOK, NEW c \in Cores
  PROVE  /\ MarkCorePending(row, c) \in [Cores -> Rows]
         /\ \A k \in Cores : /\ k # c => MarkCorePending(row, c)[k] = row[k]
                             /\ MarkCorePending(row, c)[k].applied = row[k].applied
                             /\ row[k].dirty => MarkCorePending(row, c)[k].dirty
         /\ MarkCorePending(row, c)[c].dirty
<1>1. row \in [Cores -> Rows]
    BY Kinds
<1>2. MarkCorePending(row, c) = [row EXCEPT ![c] = [row[c] EXCEPT !.found = TRUE, !.dirty = TRUE]]
    BY <1>1 DEF MarkCorePending
<1>3. QED
    BY <1>1, <1>2, RowChanges

\* A save keeps the kinds of the values it changes.
LEMMA SaveTypes ==
  ASSUME SyncIInv, TypeOK', NEW s \in Savers,
         \/ \E m \in Managers, c \in Cores : SaveBegin(s, m, c)
         \/ Requesting(s)
         \/ SaveAbandoned(s)
  PROVE  /\ SyncTypeOK' /\ UNCHANGED <<inst, disk, live, torn, unmarked, sched>>
         /\ \A r \in Savers : save'[r].at # "idle" =>
                save'[r].core \in Cores /\ save'[r].mgr \in Managers
         /\ \A c \in Cores : row[c].dirty => row'[c].dirty
<1> SyncTypeOK /\ Asked
    BY DEF SyncIInv
<1> DEFINE Same == UNCHANGED <<coreVars, unmarked, sched, cert, renewal, inst>>
           Counts == count' \in [saves : Nat, renewals : Nat, crashes : Nat]
           Kept == row' = row \/ \E c \in Cores : row' = MarkCorePending(row, c)
           Mine == /\ save' \in [Savers -> SaveRequests]
                   /\ \A r \in Savers : save'[r].at # "idle" =>
                          save'[r].core \in Cores /\ save'[r].mgr \in Managers
           Gens == gen' \in [Cores -> Configs]
<1>1. Same /\ Counts /\ Kept /\ Mine /\ Gens
  <2>0. \A r \in Savers : save[r].at # "idle" => save[r].core \in Cores /\ save[r].mgr \in Managers
      BY DEF Asked
  <2> save \in [Savers -> SaveRequests]
      BY Kinds
  <2>1. ASSUME NEW m \in Managers, NEW c \in Cores, SaveBegin(s, m, c)
        PROVE  Same /\ Counts /\ Kept /\ Mine /\ Gens
      BY <2>0, <2>1 DEF SaveBegin, storeVars, SyncTypeOK, SaveRequests
  <2>2. ASSUME NEW g \in Configs, SaveWrite(s, g)
        PROVE  Same /\ Counts /\ Kept /\ Mine /\ Gens
    <3>1. Same /\ Counts /\ Kept /\ Gens /\ save[s].at # "idle"
        BY <2>2 DEF SaveWrite, SyncTypeOK, storeVars
    <3>2. save' = [save EXCEPT ![s] = [save[s] EXCEPT !.at = "written"]]
        BY <2>2 DEF SaveWrite
    <3>3. Mine
        BY <2>0, <3>1, <3>2, SaveChanges
    <3>4. QED
        BY <3>1, <3>3
  <2>3. CASE SaveCompare(s)
    <3>1. Same /\ Counts /\ Gens
        BY <2>3 DEF SaveCompare, SyncTypeOK
    <3>2. save[s].at # "idle"
        BY <2>3 DEF SaveCompare
    <3>3. Kept
        BY <2>0, <2>3, <3>2 DEF SaveCompare
    <3>4. \/ save' = [save EXCEPT ![s] = [save[s] EXCEPT !.at = "enqueue"]]
          \/ save' = [save EXCEPT ![s] = NoSave]
        BY <2>3 DEF SaveCompare
    <3>5. [save[s] EXCEPT !.at = "enqueue"] \in SaveRequests
          /\ [save[s] EXCEPT !.at = "enqueue"].core = save[s].core
          /\ [save[s] EXCEPT !.at = "enqueue"].mgr = save[s].mgr
          /\ NoSave \in SaveRequests /\ NoSave.at = "idle"
        BY SaveChanges
    <3>6. PICK v \in SaveRequests : /\ save' = [save EXCEPT ![s] = v]
                                    /\ v.at # "idle" => v.core \in Cores /\ v.mgr \in Managers
        BY <2>0, <3>2, <3>4, <3>5
    <3>7. Mine
        BY <2>0, <3>6
    <3>8. QED
        BY <3>1, <3>3, <3>7
  <2>4. CASE SaveEnqueue(s) \/ SaveAbandoned(s)
    <3>1. Same /\ Counts /\ Kept /\ Gens /\ save' = [save EXCEPT ![s] = NoSave]
        BY <2>4 DEF SaveEnqueue, SaveAbandoned, storeVars, SyncTypeOK
    <3>2. Mine
        BY <2>0, <3>1, SaveChanges
    <3>3. QED
        BY <3>1, <3>2
  <2>5. QED
      BY <2>1, <2>2, <2>3, <2>4 DEF Requesting
<1>2. row' \in [Cores -> Rows] /\ \A c \in Cores : row[c].dirty => row'[c].dirty
    BY <1>1, MarkTypes, Kinds
<1>3. SyncTypeOK'
    BY <1>1, <1>2 DEF SyncTypeOK, Rows, SaveRequests, coreVars
<1>4. QED
    BY <1>1, <1>2, <1>3 DEF coreVars

-----------------------------------------------------------------------------
(* The steps of the requests and of the job manager *)

\* A step that leaves the job manager alone is calm.
LEMMA StutterIsCalm == UNCHANGED vars => Calm
BY DEF vars, jobVars, attemptVars, lockVars, Calm

\* So is one that enqueues.
LEMMA EnqueueIsCalm ==
  ASSUME SyncIInv, NEW m \in Managers, NEW c \in Cores, EnqueueOrJoin(m, c)
  PROVE  Calm
BY StutterIsCalm, EnqueueIsRequest, StartIsCalm DEF SyncIInv

\* A save changes the store, its own request and, by a mark, a row.
LEMMA SaveKeeps ==
  ASSUME SyncIInv, TypeOK', NEW s \in Savers,
         \/ \E m \in Managers, c \in Cores : SaveBegin(s, m, c)
         \/ Requesting(s)
         \/ SaveAbandoned(s)
  PROVE  SyncTypeOK' /\ Asked' /\ Upkeep'
<1>1. Calm
  <2>1. CASE SaveEnqueue(s)
    <3>1. save[s].core \in Cores /\ save[s].mgr \in Managers
        BY <2>1 DEF SaveEnqueue, SyncIInv, Asked
    <3>2. QED
        BY <2>1, <3>1, EnqueueIsCalm DEF SaveEnqueue
  <2>2. CASE ~SaveEnqueue(s)
      BY <2>2, StutterIsCalm DEF Requesting, SaveBegin, SaveWrite, SaveCompare, SaveAbandoned
  <2>3. QED
      BY <2>1, <2>2
<1>2. /\ SyncTypeOK' /\ UNCHANGED <<inst, disk, live, torn, unmarked, sched>>
      /\ \A r \in Savers : save'[r].at # "idle" =>
             save'[r].core \in Cores /\ save'[r].mgr \in Managers
      /\ \A c \in Cores : row[c].dirty => row'[c].dirty
    BY SaveTypes
<1>3. Upkeep'
    BY <1>1, <1>2, CalmKeeps
<1>4. Asked'
    BY <1>1, <1>2 DEF SyncIInv, Asked, Calm
<1>5. QED
    BY <1>2, <1>3, <1>4

\* A renewal marks every core.
LEMMA RenewalKeeps ==
  ASSUME SyncIInv, TypeOK', RenewCert \/ RenewMark
  PROVE  SyncTypeOK' /\ Asked' /\ Upkeep'
<1> SyncTypeOK /\ Asked
    BY DEF SyncIInv
<1>1. Calm
    BY StutterIsCalm DEF RenewCert, RenewMark
<1>2. row' \in [Cores -> Rows] /\ \A c \in Cores : row[c].dirty => row'[c].dirty
  <2>1. CASE RenewCert
      BY <2>1, Kinds DEF RenewCert, storeVars
  <2>2. CASE RenewMark
    <3>1. PICK marked \in SUBSET Cores :
                  row' = [c \in Cores |-> IF c \in marked
                            THEN [row[c] EXCEPT !.found = TRUE, !.dirty = TRUE] ELSE row[c]]
        BY <2>2 DEF RenewMark
    <3>2. \A c \in Cores : row[c] \in Rows
        BY Kinds
    <3>3. \A c \in Cores : row'[c] \in Rows /\ (row[c].dirty => row'[c].dirty)
        BY <3>1, <3>2, RowChanges
    <3>4. QED
        BY <3>1, <3>3
  <2>3. QED
      BY <2>1, <2>2
<1>3. UNCHANGED <<gen, disk, live, liveCert, torn, unmarked, save, sched, inst, status>>
    BY DEF RenewCert, RenewMark, storeVars, coreVars, vars, jobVars
<1>4. cert' \in Nat /\ renewal' \in {"idle", "mark"} /\ count' \in [saves : Nat, renewals : Nat, crashes : Nat]
  <2>1. CASE RenewCert
      BY <2>1 DEF RenewCert, SyncTypeOK
  <2>2. CASE RenewMark
      BY <2>2 DEF RenewMark, SyncTypeOK
  <2>3. QED
      BY <2>1, <2>2
<1>5. SyncTypeOK'
    BY <1>2, <1>3, <1>4 DEF SyncTypeOK, Rows
<1>6. Asked'
    BY <1>3 DEF Asked
<1>7. QED
    BY <1>1, <1>2, <1>3, <1>5, <1>6, CalmKeeps

\* A job's goroutine and its second look at the core.
LEMMA JobKeeps ==
  ASSUME SyncIInv, TypeOK', NEW j \in Jobs,
         Finish(j) \/ RunStep(j) \/ ScheduleCheck(j) \/ ScheduleEnqueue(j)
  PROVE  SyncTypeOK' /\ Asked' /\ Upkeep'
<1> SyncTypeOK /\ Asked
    BY DEF SyncIInv
<1>1. Calm
  <2>1. CASE Finish(j) \/ RunStep(j)
      BY <2>1, RunnerIsCalm DEF Finish, RunStep, RunnerStep, SyncIInv
  <2>2. CASE ScheduleCheck(j)
      BY <2>2, StutterIsCalm DEF ScheduleCheck
  <2>3. CASE ScheduleEnqueue(j)
    <3>1. slot[j].core \in Cores /\ slot[j].mgr \in Managers
        BY <2>3 DEF ScheduleEnqueue, SyncIInv, Asked, IInv, Placed
    <3>2. QED
        BY <2>3, <3>1, EnqueueIsCalm DEF ScheduleEnqueue
  <2>4. QED
      BY <2>1, <2>2, <2>3
<1>2. UNCHANGED <<storeVars, coreVars, save, cert, renewal, inst, count>>
    BY DEF Finish, RunStep, ScheduleCheck, ScheduleEnqueue, syncVars, requestVars
<1>3. sched' \in [Jobs -> {"no", "check", "enqueue"}] /\ \A k \in Jobs : k # j => sched'[k] = sched[k]
    BY DEF Finish, RunStep, ScheduleCheck, ScheduleEnqueue, syncVars, requestVars, SyncTypeOK
<1>4. sched'[j] # "no" => status'[j] # "none"
  <2>1. CASE sched[j] # "no"
      BY <1>1, <2>1 DEF Asked, Calm
  <2>2. CASE sched[j] = "no"
      BY <2>2 DEF Finish, RunStep, ScheduleCheck, ScheduleEnqueue, syncVars, requestVars, SyncTypeOK
  <2>3. QED
      BY <2>1, <2>2
<1>5. SyncTypeOK'
    BY <1>2, <1>3 DEF SyncTypeOK, storeVars, coreVars
<1>6. Asked'
    BY <1>1, <1>2, <1>3, <1>4 DEF Asked, Calm
<1>7. QED
    BY <1>1, <1>2, <1>5, <1>6, CalmKeeps DEF storeVars, coreVars

\* The locks and the manual handlers.
LEMMA LockKeeps ==
  ASSUME SyncIInv, TypeOK', ManualStep \/ \E a \in Attempts : LockingStep(a)
  PROVE  SyncTypeOK' /\ Asked' /\ Upkeep'
<1> SyncTypeOK /\ Asked
    BY DEF SyncIInv
<1>1. Calm
    BY StartIsCalm, LockingIsCalm DEF ManualStep, LockingStep, Requests, SyncIInv
<1>2. UNCHANGED syncVars
    BY DEF ManualStep, LockingStep
<1>3. SyncTypeOK' /\ Asked'
    BY <1>1, <1>2 DEF SyncTypeOK, Asked, Calm, syncVars, storeVars, coreVars, requestVars
<1>4. QED
    BY <1>1, <1>2, <1>3, CalmKeeps DEF syncVars, storeVars, coreVars

-----------------------------------------------------------------------------
(* The steps of the attempt at work *)

\* The attempt at work is the only one that has the lock and local variables.
LEMMA OnlyWorker ==
  ASSUME SyncIInv, NEW a \in Attempts, phase[a] = "work"
  PROVE  /\ flock = a
         /\ \A b \in Attempts : b # a => phase[b] # "work" /\ inst[b] = Idle
         /\ status[a[1]] # "none"
         /\ IsAutomatic(a) => ~inst[a].nested /\ Core(a) = slot[a[1]].core
         /\ Core(a) \in Cores
<1>1. flock = a /\ \A b \in Attempts : b # a => phase[b] # "work"
    BY DEF SyncIInv, IInv, LockInv
<1>2. \A b \in Attempts : b # a => inst[b] = Idle
    BY <1>1 DEF SyncIInv, Upkeep, AtRest
<1>3. status[a[1]] # "none"
    BY Begun DEF SyncIInv
<1>4. IsAutomatic(a) => ~inst[a].nested /\ Core(a) = slot[a[1]].core
    BY DEF SyncIInv, Upkeep, NestedInXray, IsAutomatic, Core
<1>5. QED
    BY <1>1, <1>2, <1>3, <1>4, CoreOfWork

\* While a manual attempt is at work on a core without a mark, every automatic
\* attempt that is over belongs to an older job.
LEMMA ManualTakesOver ==
  ASSUME SyncIInv, NEW a \in Attempts, phase[a] = "work", ~IsAutomatic(a), ~Owned(Core(a)),
         NEW b \in Attempts, IsAutomatic(b), Over(b), slot[b[1]].core = Core(a)
  PROVE  TakenOver(b[1], Core(a))
<1>1. a[1] \in Jobs /\ b[1] \in Jobs /\ a[1] # b[1]
    BY AttemptPair DEF IsAutomatic
<1>2. flock = a /\ status[a[1]] # "none"
    BY OnlyWorker
<1>3. Concerns(a[1], Core(a))
    BY DEF Concerns, Core, SyncIInv, Upkeep, NestedInXray
<1>4. ~(b[1] > a[1])
    BY <1>2 DEF SyncIInv, Upkeep, ManualFirst, Over, Ahead
<1>5. a[1] > b[1]
    BY <1>1, <1>4, MaxJobsAssumption DEF Jobs
<1>6. QED
    BY <1>1, <1>2, <1>3, <1>5 DEF TakenOver

\* What an attempt that goes on to its next step does not disturb.
LEMMA GoKeeps ==
  ASSUME SyncIInv, NEW a \in Attempts, phase[a] = "work", UNCHANGED <<vars, row, unmarked>>,
         NEW v \in Locals, v.nested = inst[a].nested, inst' = [inst EXCEPT ![a] = v]
  PROVE  /\ AtRest' /\ NestedInXray' /\ ManualFirst'
         /\ \A b \in Attempts : Core(b)' = Core(b)
         /\ At(a, "install")' <=> v.step = "install"
         /\ At(a, "restart")' <=> v.step = "restart"
         /\ At(a, "rollback")' <=> v.step = "rollback"
         /\ At(a, "record")' <=> v.step = "record"
         /\ inst'[a] = v
         /\ \A b \in Attempts : b # a => phase'[b] # "work" /\ phase[b] # "work"
<1> UNCHANGED <<slot, status, phase, outcome, flock>>
    BY DEF vars, jobVars, attemptVars, lockVars
<1> inst \in [Attempts -> Locals]
    BY Kinds DEF SyncIInv
<1>1. \A b \in Attempts : b # a => phase[b] # "work"
    BY OnlyWorker
<1>2. inst'[a] = v /\ \A b \in Attempts : b # a => inst'[b] = inst[b]
    OBVIOUS
<1>3. \A b \in Attempts : Core(b)' = Core(b)
    BY <1>2 DEF Core
<1>4. AtRest' /\ NestedInXray'
    BY <1>2 DEF SyncIInv, Upkeep, AtRest, NestedInXray
<1>5. ManualFirst'
    BY <1>3 DEF SyncIInv, Upkeep, ManualFirst, IsAutomatic, Ahead, Owned
<1>6. QED
    BY <1>1, <1>2, <1>3, <1>4, <1>5 DEF At

\* An attempt that goes on leaves its core as its file says, or stays to blame,
\* or is a manual one and takes the core over.
LEMMA GoExplains ==
  ASSUME SyncIInv, NEW a \in Attempts, phase[a] = "work", UNCHANGED <<vars, row, unmarked>>,
         NEW v \in Locals, v.nested = inst[a].nested, inst' = [inst EXCEPT ![a] = v],
         \A c \in Cores : c # Core(a) => disk'[c] = disk[c] /\ live'[c] = live[c],
         \/ live'[Core(a)] = disk'[Core(a)]
         \/ v.step \in {"restart", "rollback"}
         \/ UNCHANGED <<disk, live>> /\ inst[a].step \notin {"restart", "rollback"}
  PROVE  Explained'
<1> SUFFICES ASSUME NEW b \in Attempts, IsAutomatic(b)', Over(b)', Bad(slot[b[1]].core)'
             PROVE  \/ \E d \in Attempts : Blamed(d, slot[b[1]].core)'
                    \/ TakenOver(b[1], slot[b[1]].core)'
    BY DEF Explained
<1> UNCHANGED <<slot, status, phase, outcome, flock>>
    BY DEF vars, jobVars, attemptVars, lockVars
<1> DEFINE c == slot[b[1]].core
<1>1. IsAutomatic(b) /\ Over(b)
    BY DEF IsAutomatic, Over
<1>2. c \in Cores
    BY <1>1, Begun, AttemptPair DEF Over, SyncIInv, IInv, Placed
<1>3. TakenOver(b[1], c)' <=> TakenOver(b[1], c)
    BY DEF TakenOver, Concerns
<1>4. \A d \in Attempts : d # a => (Blamed(d, c) => Blamed(d, c)')
    BY OnlyWorker DEF Blamed, IsAutomatic, At
<1>5. CASE ~Blamed(a, c) /\ disk'[c] = disk[c] /\ live'[c] = live[c]
  <2>1. Bad(c)
      BY <1>5 DEF Bad, Owned
  <2>2. QED
      BY <1>1, <1>3, <1>4, <1>5, <2>1 DEF SyncIInv, Upkeep, Explained
<1>6. CASE c # Core(a)
  <2>1. ~Blamed(a, c)
      BY <1>6, OnlyWorker DEF Blamed
  <2>2. QED
      BY <1>2, <1>5, <1>6, <2>1
<1>7. CASE c = Core(a) /\ v.step \in {"restart", "rollback"}
  <2>1. CASE IsAutomatic(a)
    <3>1. c = slot[a[1]].core
        BY <1>7, <2>1, OnlyWorker
    <3>2. At(a, "restart")' \/ At(a, "rollback")'
        BY <1>7, GoKeeps
    <3>3. Blamed(a, c)'
        BY <2>1, <3>1, <3>2 DEF Blamed, IsAutomatic
    <3>4. QED
        BY <3>3
  <2>2. CASE ~IsAutomatic(a)
    <3>1. ~Owned(Core(a))
        BY <1>7 DEF Bad, Owned
    <3>2. QED
        BY <1>1, <1>3, <1>7, <2>2, <3>1, ManualTakesOver
  <2>3. QED
      BY <2>1, <2>2
<1>8. CASE c = Core(a) /\ live'[Core(a)] = disk'[Core(a)]
    BY <1>8 DEF Bad
<1>9. CASE UNCHANGED <<disk, live>> /\ inst[a].step \notin {"restart", "rollback"}
  <2>1. ~Blamed(a, c)
      BY <1>9 DEF Blamed, At
  <2>2. QED
      BY <1>5, <1>9, <2>1
<1>10. QED
    BY <1>6, <1>7, <1>8, <1>9

\* When the work ends nobody is at work.
LEMMA EndFacts ==
  ASSUME SyncIInv, NEW a \in Attempts, NEW code \in WorkCodes, End(a, code)
  PROVE  /\ phase[a] = "work" /\ phase'[a] = "return" /\ flock' = Free
         /\ outcome'[a] = IF inst[a].nested THEN "ok" ELSE code
         /\ \A b \in Attempts : b # a => phase'[b] = phase[b] /\ outcome'[b] = outcome[b]
         /\ \A b \in Attempts : phase'[b] # "work" /\ inst'[b] = Idle
         /\ UNCHANGED <<slot, status>>
<1> TypeOK /\ inst \in [Attempts -> Locals]
    BY Kinds DEF SyncIInv, IInv
<1>1. phase[a] = "work"
    BY DEF End, FinishWork
<1>2. UNCHANGED <<slot, status>> /\ flock' = Free
    BY DEF End, FinishWork, return, jobVars
<1>3. /\ phase' = [phase EXCEPT ![a] = "return"]
      /\ outcome' = [outcome EXCEPT ![a] = IF inst[a].nested THEN "ok" ELSE code]
      /\ inst' = [inst EXCEPT ![a] = Idle]
    BY DEF End, FinishWork, return
<1>4. phase'[a] = "return" /\ outcome'[a] = IF inst[a].nested THEN "ok" ELSE code
    BY <1>3 DEF TypeOK
<1>5. \A b \in Attempts : b # a => phase'[b] = phase[b] /\ outcome'[b] = outcome[b] /\ inst'[b] = inst[b]
    BY <1>3 DEF TypeOK
<1>6. inst'[a] = Idle
    BY <1>3
<1>7. \A b \in Attempts : phase'[b] # "work" /\ inst'[b] = Idle
    BY <1>1, <1>4, <1>5, <1>6, OnlyWorker
<1>8. QED
    BY <1>1, <1>2, <1>4, <1>5, <1>7

\* An attempt whose work ends leaves its core as its file says, or stays to
\* blame, or is a manual one and takes the core over.
LEMMA EndKeeps ==
  ASSUME SyncIInv, NEW a \in Attempts, NEW code \in WorkCodes, End(a, code),
         \A c \in Cores : c # Core(a) =>
             disk'[c] = disk[c] /\ live'[c] = live[c] /\ (Owned(c)' <=> Owned(c)),
         \A c \in Cores : c # Core(a) /\ c \in torn => c \in torn',
         \/ live'[Core(a)] = disk'[Core(a)]
         \/ code # "ok" /\ \A c \in Cores : Owned(c) => Owned(c)',
         live'[Core(a)] \in {disk'[Core(a)], Dead} \/ Core(a) \in torn',
         {disk'[Core(a)], live'[Core(a)]} \cap Bads = {}
  PROVE  Upkeep'
<1>1. /\ phase[a] = "work" /\ phase'[a] = "return" /\ flock' = Free
      /\ outcome'[a] = IF inst[a].nested THEN "ok" ELSE code
      /\ \A b \in Attempts : b # a => phase'[b] = phase[b] /\ outcome'[b] = outcome[b]
      /\ \A b \in Attempts : phase'[b] # "work" /\ inst'[b] = Idle
      /\ UNCHANGED <<slot, status>>
    BY EndFacts
<1>2. \A b \in Attempts : b # a => phase[b] # "work"
    BY <1>1, OnlyWorker
<1>3. AtRest' /\ NestedInXray' /\ Holding' /\ ManualFirst'
  <2>1. AtRest'
      BY <1>1 DEF AtRest
  <2>2. \A b \in Attempts : ~inst'[b].nested
      BY <1>1 DEF Idle
  <2>3. NestedInXray'
      BY <2>2 DEF NestedInXray
  <2>4. Holding'
      BY <1>1 DEF Holding, At
  <2>5. ManualFirst'
      BY <1>1, NoAttemptIsFree DEF ManualFirst
  <2>6. QED
      BY <2>1, <2>3, <2>4, <2>5
<1>4. OnlyValidRuns'
    BY DEF SyncIInv, Upkeep, OnlyValidRuns, Bads
<1>5. DiskIsLive'
  <2> SUFFICES ASSUME NEW c \in Cores
               PROVE  live'[c] \in {disk'[c], Dead} \/ c \in torn'
      BY DEF DiskIsLive
  <2>1. CASE c = Core(a)
      BY <2>1
  <2>2. CASE c # Core(a)
    <3>1. ~Installing(c)
        BY <1>2, <2>2 DEF Installing, At
    <3>2. QED
        BY <2>2, <3>1 DEF SyncIInv, Upkeep, DiskIsLive
  <2>3. QED
      BY <2>1, <2>2
<1>6. Explained'
  <2> SUFFICES ASSUME NEW b \in Attempts, IsAutomatic(b)', Over(b)', Bad(slot[b[1]].core)'
               PROVE  \/ \E d \in Attempts : Blamed(d, slot[b[1]].core)'
                      \/ TakenOver(b[1], slot[b[1]].core)'
      BY DEF Explained
  <2> DEFINE c == slot[b[1]].core
  <2>1. IsAutomatic(b) /\ (b # a => Over(b)) /\ (b = a => outcome'[a] = "ok")
      BY <1>1 DEF IsAutomatic, Over
  <2>2. c \in Cores
    <3>1. phase[b] # "none"
        BY <1>1, <2>1 DEF Over
    <3>2. QED
        BY <1>1, <3>1, Begun, AttemptPair DEF SyncIInv, IInv, Placed
  <2>3. TakenOver(b[1], c)' <=> TakenOver(b[1], c)
      BY <1>1 DEF TakenOver, Concerns
  <2>4. \A d \in Attempts : d # a => (Blamed(d, c) => Blamed(d, c)')
      BY <1>1, <1>2 DEF Blamed, IsAutomatic, At
  <2>5. CASE c # Core(a)
    <3>1. ~Blamed(a, c) /\ b # a
        BY <1>1, <2>1, <2>5, OnlyWorker DEF Blamed, IsAutomatic
    <3>2. Bad(c)
        BY <1>1, <2>2, <2>5 DEF Bad, Owned
    <3>3. QED
        BY <2>1, <2>3, <2>4, <3>1, <3>2 DEF SyncIInv, Upkeep, Explained
  <2>6. CASE c = Core(a)
    <3>1. code # "ok" /\ ~Owned(Core(a))
      <4> PICK k \in Cores : k = c
          BY <2>2
      <4>1. ~Owned(k)' /\ live'[k] # disk'[k]
          BY <1>1 DEF Bad, Owned
      <4>2. QED
          BY <2>6, <4>1
    <3>2. CASE IsAutomatic(a)
      <4>1. ~inst[a].nested /\ c = slot[a[1]].core
          BY <1>1, <2>6, <3>2, OnlyWorker
      <4>2. Blamed(a, c)'
          BY <1>1, <3>1, <3>2, <4>1 DEF Blamed, IsAutomatic
      <4>3. QED
          BY <4>2
    <3>3. CASE ~IsAutomatic(a)
        BY <1>1, <2>1, <2>3, <2>6, <3>1, <3>3, ManualTakesOver
    <3>4. QED
        BY <3>2, <3>3
  <2>7. QED
      BY <2>5, <2>6
<1>7. QED
    BY <1>3, <1>4, <1>5, <1>6 DEF Upkeep

\* An attempt that ends before it renamed anything.
LEMMA EndUntouched ==
  ASSUME SyncIInv, NEW a \in Attempts, NEW code \in Failures, End(a, code),
         At(a, "build") \/ At(a, "install"), UNCHANGED <<row, unmarked, disk, live, torn>>
  PROVE  Upkeep'
<1>1. Core(a) \in Cores /\ \A b \in Attempts : b # a => phase[b] # "work"
    BY OnlyWorker DEF At
<1>2. ~Installing(Core(a))
    BY <1>1 DEF Installing, At
<1>3. live[Core(a)] \in {disk[Core(a)], Dead} \/ Core(a) \in torn
    BY <1>1, <1>2 DEF SyncIInv, Upkeep, DiskIsLive
<1>4. {disk[Core(a)], live[Core(a)]} \cap Bads = {}
    BY <1>1 DEF SyncIInv, Upkeep, OnlyValidRuns, Bads
<1>5. code \in WorkCodes /\ code # "ok"
    BY DEF Failures, WorkCodes
<1>6. \A c \in Cores : Owned(c)' <=> Owned(c)
    BY DEF Owned
<1>7. QED
    BY <1>3, <1>4, <1>5, <1>6, EndKeeps

\* A build goes on with what the store generates, unless that fails.
LEMMA BuildKeeps ==
  ASSUME SyncIInv, NEW a \in Attempts, Build(a)
  PROVE  Upkeep'
<1>1. At(a, "build") /\ phase[a] = "work" /\ UNCHANGED <<row, unmarked, disk, live, torn>>
    BY DEF Build, At, storeVars, coreVars
<1>2. CASE End(a, "fatal")
    BY <1>1, <1>2, EndUntouched DEF Failures
<1>3. CASE /\ gen[Core(a)] \notin Unbuildable /\ UNCHANGED vars
           /\ inst' = [inst EXCEPT ![a].step = "install", ![a].cfg = gen[Core(a)]]
  <2> DEFINE v == [inst[a] EXCEPT !.step = "install", !.cfg = gen[Core(a)]]
  <2>1. Core(a) \in Cores /\ gen[Core(a)] \in Configs /\ inst \in [Attempts -> Locals]
      BY <1>1, OnlyWorker, Kinds DEF SyncIInv, SyncTypeOK
  <2>2. v \in Locals
      BY <2>1, LocalChanges DEF Steps
  <2>3. inst' = [inst EXCEPT ![a] = v]
      BY <1>3, <2>1
  <2>4. v.step = "install" /\ v.nested = inst[a].nested /\ v.cfg = gen[Core(a)]
      BY <2>1 DEF Locals
  <2> HIDE DEF v
  <2>5. /\ AtRest' /\ NestedInXray' /\ ManualFirst'
        /\ \A b \in Attempts : Core(b)' = Core(b)
        /\ At(a, "install")' /\ ~At(a, "restart")' /\ ~At(a, "rollback")' /\ ~At(a, "record")'
        /\ inst'[a] = v
        /\ \A b \in Attempts : b # a => phase'[b] # "work" /\ phase[b] # "work"
      BY <1>1, <1>3, <2>2, <2>3, <2>4, GoKeeps
  <2>6. Holding'
      BY <1>3, <2>4, <2>5 DEF Holding, At
  <2>7. OnlyValidRuns'
      BY <1>1 DEF SyncIInv, Upkeep, OnlyValidRuns
  <2>8. DiskIsLive'
      BY <1>1, <2>5 DEF SyncIInv, Upkeep, DiskIsLive, Installing, At
  <2>9. Explained'
      BY <1>1, <1>3, <2>2, <2>3, <2>4, GoExplains DEF At
  <2>10. QED
      BY <2>5, <2>6, <2>7, <2>8, <2>9 DEF Upkeep
<1>4. QED
    BY <1>2, <1>3 DEF Build

\* What is renamed has been built and checked; until the restart the attempt is
\* to blame for a service that runs something else.
LEMMA InstallKeeps ==
  ASSUME SyncIInv, NEW a \in Attempts, Install(a)
  PROVE  Upkeep'
<1>1. At(a, "install") /\ phase[a] = "work" /\ UNCHANGED <<row, unmarked, live, torn>>
    BY DEF Install, At, storeVars
<1>2. CASE End(a, "fatal") /\ UNCHANGED disk
    BY <1>1, <1>2, EndUntouched DEF Failures
<1>3. CASE /\ inst[a].cfg \notin Invalid /\ UNCHANGED vars
           /\ disk' = [disk EXCEPT ![Core(a)] = inst[a].cfg]
           /\ inst' = [inst EXCEPT ![a].step = "restart", ![a].bak = disk[Core(a)]]
  <2> DEFINE v == [inst[a] EXCEPT !.step = "restart", !.bak = disk[Core(a)]]
  <2>1. /\ Core(a) \in Cores /\ inst \in [Attempts -> Locals]
        /\ disk \in [Cores -> Configs \cup {NoConfig}]
      BY <1>1, OnlyWorker, Kinds DEF SyncIInv, SyncTypeOK
  <2>2. v \in Locals
      BY <2>1, LocalChanges DEF Steps
  <2>3. inst' = [inst EXCEPT ![a] = v]
      BY <1>3, <2>1
  <2>4. /\ v.step = "restart" /\ v.nested = inst[a].nested
        /\ v.cfg = inst[a].cfg /\ v.bak = disk[Core(a)]
      BY <2>1 DEF Locals
  <2> HIDE DEF v
  <2>5. /\ AtRest' /\ NestedInXray' /\ ManualFirst'
        /\ \A b \in Attempts : Core(b)' = Core(b)
        /\ ~At(a, "install")' /\ At(a, "restart")' /\ ~At(a, "rollback")' /\ ~At(a, "record")'
        /\ inst'[a] = v
        /\ \A b \in Attempts : b # a => phase'[b] # "work" /\ phase[b] # "work"
      BY <1>1, <1>3, <2>2, <2>3, <2>4, GoKeeps
  <2>6. disk'[Core(a)] = inst[a].cfg /\ \A c \in Cores : c # Core(a) => disk'[c] = disk[c]
      BY <1>3, <2>1
  <2>7. inst[a].cfg \notin Bads /\ disk[Core(a)] \notin Bads
      BY <1>1, <1>3, <2>1 DEF SyncIInv, Upkeep, Holding, OnlyValidRuns, Bads
  <2>8. Holding'
      BY <2>4, <2>5, <2>6, <2>7 DEF Holding, At
  <2>9. OnlyValidRuns'
      BY <1>1, <2>6, <2>7 DEF SyncIInv, Upkeep, OnlyValidRuns, Bads
  <2>10. DiskIsLive'
    <3> SUFFICES ASSUME NEW c \in Cores
                 PROVE  Installing(c)' \/ live'[c] \in {disk'[c], Dead} \/ c \in torn'
        BY DEF DiskIsLive
    <3>1. CASE c = Core(a)
        BY <2>5, <3>1 DEF Installing
    <3>2. CASE c # Core(a)
      <4>1. ~Installing(c)
          BY <2>5, <3>2 DEF Installing, At
      <4>2. QED
          BY <1>1, <2>6, <3>2, <4>1 DEF SyncIInv, Upkeep, DiskIsLive
    <3>3. QED
        BY <3>1, <3>2
  <2>11. Explained'
      BY <1>1, <1>3, <2>2, <2>3, <2>4, <2>6, GoExplains
  <2>12. QED
      BY <2>5, <2>8, <2>9, <2>10, <2>11 DEF Upkeep
<1>4. QED
    BY <1>2, <1>3 DEF Install

\* A failure before the rename changes nothing.
LEMMA PrepareFailsKeeps ==
  ASSUME SyncIInv, NEW a \in Attempts, NEW code \in Failures, PrepareFails(a, code)
  PROVE  Upkeep'
BY EndUntouched DEF PrepareFails, storeVars, coreVars

\* The service comes up with the file the attempt renamed.
LEMMA RestartedKeeps ==
  ASSUME SyncIInv, NEW a \in Attempts, Restarted(a)
  PROVE  Upkeep'
<1> DEFINE v == [inst[a] EXCEPT !.step = "record"]
<1>1. /\ At(a, "restart") /\ phase[a] = "work" /\ UNCHANGED <<vars, row, unmarked, disk>>
      /\ live' = [live EXCEPT ![Core(a)] = disk[Core(a)]] /\ torn' = torn \ {Core(a)}
    BY DEF Restarted, At, Serve, Go, storeVars
<1>2. /\ Core(a) \in Cores /\ inst \in [Attempts -> Locals]
      /\ live \in [Cores -> Configs \cup {Dead, NoConfig}]
    BY <1>1, OnlyWorker, Kinds DEF SyncIInv, SyncTypeOK
<1>3. v \in Locals
    BY <1>2, LocalChanges DEF Steps
<1>4. inst' = [inst EXCEPT ![a] = v]
    BY <1>2 DEF Restarted, Go
<1>5. v.step = "record" /\ v.nested = inst[a].nested /\ v.cfg = inst[a].cfg
    BY <1>2 DEF Locals
<1> HIDE DEF v
<1>6. /\ AtRest' /\ NestedInXray' /\ ManualFirst'
      /\ \A b \in Attempts : Core(b)' = Core(b)
      /\ ~At(a, "install")' /\ ~At(a, "restart")' /\ ~At(a, "rollback")' /\ At(a, "record")'
      /\ inst'[a] = v
      /\ \A b \in Attempts : b # a => phase'[b] # "work" /\ phase[b] # "work"
    BY <1>1, <1>3, <1>4, <1>5, GoKeeps
<1>7. live'[Core(a)] = disk[Core(a)] /\ \A c \in Cores : c # Core(a) => live'[c] = live[c]
    BY <1>1, <1>2
<1>8. inst[a].cfg \notin Bads /\ disk[Core(a)] = inst[a].cfg
    BY <1>1 DEF SyncIInv, Upkeep, Holding
<1>9. Holding'
    BY <1>1, <1>5, <1>6, <1>7, <1>8 DEF Holding, At
<1>10. OnlyValidRuns'
    BY <1>1, <1>7, <1>8 DEF SyncIInv, Upkeep, OnlyValidRuns, Bads
<1>11. DiskIsLive'
  <2> SUFFICES ASSUME NEW c \in Cores
               PROVE  Installing(c)' \/ live'[c] \in {disk'[c], Dead} \/ c \in torn'
      BY DEF DiskIsLive
  <2>1. CASE c = Core(a)
      BY <1>1, <1>7, <2>1
  <2>2. CASE c # Core(a)
    <3>1. ~Installing(c)
        BY <1>6, <2>2 DEF Installing, At
    <3>2. QED
        BY <1>1, <1>7, <2>2, <3>1 DEF SyncIInv, Upkeep, DiskIsLive
  <2>3. QED
      BY <2>1, <2>2
<1>12. Explained'
    BY <1>1, <1>3, <1>4, <1>5, <1>7, GoExplains
<1>13. QED
    BY <1>6, <1>9, <1>10, <1>11, <1>12 DEF Upkeep

\* A restart that fails stops the service or leaves it; the file is rolled back
\* if there was one.
LEMMA RestartFailsKeeps ==
  ASSUME SyncIInv, NEW a \in Attempts, RestartFails(a)
  PROVE  Upkeep'
<1>1. /\ At(a, "restart") /\ phase[a] = "work" /\ UNCHANGED <<row, unmarked>>
      /\ \E left \in {Dead, live[Core(a)]} : live' = [live EXCEPT ![Core(a)] = left]
    BY DEF RestartFails, At, storeVars
<1>2. /\ Core(a) \in Cores /\ inst \in [Attempts -> Locals]
      /\ live \in [Cores -> Configs \cup {Dead, NoConfig}]
      /\ disk \in [Cores -> Configs \cup {NoConfig}]
    BY <1>1, OnlyWorker, Kinds DEF SyncIInv, SyncTypeOK
<1>3. /\ live'[Core(a)] \in {Dead, live[Core(a)]}
      /\ \A c \in Cores : c # Core(a) => live'[c] = live[c]
    BY <1>1, <1>2
<1>4. inst[a].cfg \notin Bads /\ disk[Core(a)] = inst[a].cfg /\ inst[a].bak \notin Bads /\ Dead \notin Bads
    BY <1>1, ConfigsAssumption DEF SyncIInv, Upkeep, Holding, Bads
<1>5. live'[Core(a)] \notin Bads
    BY <1>2, <1>3, <1>4 DEF SyncIInv, Upkeep, OnlyValidRuns, Bads
<1>6. \A c \in Cores : Owned(c)' <=> Owned(c)
    BY <1>1 DEF Owned
<1>7. CASE (\E code \in Failures : End(a, code)) /\ UNCHANGED disk /\ Forsake(Core(a))
  <2> PICK code \in Failures : End(a, code)
      BY <1>7
  <2>1. code \in WorkCodes /\ code # "ok"
      BY DEF Failures, WorkCodes
  <2>2. {disk'[Core(a)], live'[Core(a)]} \cap Bads = {}
      BY <1>4, <1>5, <1>7
  <2>3. /\ live'[Core(a)] \in {disk'[Core(a)], Dead} \/ Core(a) \in torn'
        /\ torn \subseteq torn'
      BY <1>7 DEF Forsake
  <2>4. QED
      BY <1>3, <1>6, <1>7, <2>1, <2>2, <2>3, EndKeeps
<1>8. CASE /\ disk' = [disk EXCEPT ![Core(a)] = inst[a].bak]
           /\ Go(a, "rollback")
           /\ UNCHANGED torn
  <2> DEFINE v == [inst[a] EXCEPT !.step = "rollback"]
  <2>1. v \in Locals
      BY <1>2, LocalChanges DEF Steps
  <2>2. inst' = [inst EXCEPT ![a] = v] /\ UNCHANGED vars
      BY <1>2, <1>8 DEF Go
  <2>3. v.step = "rollback" /\ v.nested = inst[a].nested /\ v.bak = inst[a].bak
      BY <1>2 DEF Locals
  <2> HIDE DEF v
  <2>4. /\ AtRest' /\ NestedInXray' /\ ManualFirst'
        /\ \A b \in Attempts : Core(b)' = Core(b)
        /\ ~At(a, "install")' /\ ~At(a, "restart")' /\ At(a, "rollback")' /\ ~At(a, "record")'
        /\ inst'[a] = v
        /\ \A b \in Attempts : b # a => phase'[b] # "work" /\ phase[b] # "work"
      BY <1>1, <2>1, <2>2, <2>3, GoKeeps
  <2>5. disk'[Core(a)] = inst[a].bak /\ \A c \in Cores : c # Core(a) => disk'[c] = disk[c]
      BY <1>2, <1>8
  <2>6. Holding'
      BY <1>4, <2>3, <2>4, <2>5 DEF Holding, At
  <2>7. OnlyValidRuns'
      BY <1>3, <1>4, <1>5, <2>5 DEF SyncIInv, Upkeep, OnlyValidRuns, Bads
  <2>8. DiskIsLive'
    <3> SUFFICES ASSUME NEW c \in Cores
                 PROVE  Installing(c)' \/ live'[c] \in {disk'[c], Dead} \/ c \in torn'
        BY DEF DiskIsLive
    <3>1. CASE c = Core(a)
        BY <2>4, <3>1 DEF Installing
    <3>2. CASE c # Core(a)
      <4>1. ~Installing(c)
          BY <2>4, <3>2 DEF Installing, At
      <4>2. QED
          BY <1>3, <1>8, <2>5, <3>2, <4>1 DEF SyncIInv, Upkeep, DiskIsLive
    <3>3. QED
        BY <3>1, <3>2
  <2>9. Explained'
      BY <1>1, <1>3, <2>1, <2>2, <2>3, <2>5, GoExplains
  <2>10. QED
      BY <2>4, <2>6, <2>7, <2>8, <2>9 DEF Upkeep
<1>9. QED
    BY <1>7, <1>8 DEF RestartFails

\* The rollback leaves the service with the previous file, down or forsaken.
LEMMA RolledBackKeeps ==
  ASSUME SyncIInv, NEW a \in Attempts, RolledBack(a)
  PROVE  Upkeep'
<1>1. /\ At(a, "rollback") /\ phase[a] = "work" /\ UNCHANGED <<row, unmarked, disk>>
      /\ \/ live' = [live EXCEPT ![Core(a)] = disk[Core(a)]] /\ torn' = torn \ {Core(a)}
         \/ /\ \E left \in {Dead, live[Core(a)]} : live' = [live EXCEPT ![Core(a)] = left]
            /\ Forsake(Core(a))
    BY DEF RolledBack, At, Serve, storeVars
<1>2. Core(a) \in Cores /\ live \in [Cores -> Configs \cup {Dead, NoConfig}]
    BY <1>1, OnlyWorker DEF SyncIInv, SyncTypeOK
<1>3. live'[Core(a)] \in {disk'[Core(a)], Dead} \/ Core(a) \in torn'
    BY <1>1, <1>2 DEF Forsake
<1>4. \A c \in Cores : c # Core(a) => live'[c] = live[c] /\ (c \in torn => c \in torn')
    BY <1>1, <1>2 DEF Forsake
<1>5. live'[Core(a)] \in {disk[Core(a)], Dead, live[Core(a)]}
    BY <1>1, <1>2
<1>6. {disk'[Core(a)], live'[Core(a)]} \cap Bads = {}
    BY <1>1, <1>2, <1>5, ConfigsAssumption DEF SyncIInv, Upkeep, OnlyValidRuns, Bads
<1>7. \A c \in Cores : Owned(c)' <=> Owned(c)
    BY <1>1 DEF Owned
<1>8. PICK code \in Failures : End(a, code)
    BY DEF RolledBack
<1>9. code \in WorkCodes /\ code # "ok"
    BY DEF Failures, WorkCodes
<1>10. QED
    BY <1>1, <1>3, <1>4, <1>6, <1>7, <1>8, <1>9, EndKeeps

\* Recording clears the mark of a core whose service runs what is recorded.
LEMMA RecordKeeps ==
  ASSUME SyncIInv, NEW a \in Attempts, Record(a)
  PROVE  Upkeep'
<1>1. /\ At(a, "record") /\ phase[a] = "work" /\ UNCHANGED <<disk, live, torn>>
      /\ \/ UNCHANGED <<row, unmarked>>
         \/ row' = MarkCoreApplied(row, Core(a), inst[a].cfg) /\ unmarked' = unmarked \ {Core(a)}
    BY DEF Record, At, coreVars
<1>2. Core(a) \in Cores /\ inst \in [Attempts -> Locals] /\ row \in [Cores -> Rows]
    BY <1>1, OnlyWorker, Kinds DEF SyncIInv
<1>3. \A c \in Cores : c # Core(a) => (Owned(c)' <=> Owned(c))
    BY <1>1, <1>2 DEF MarkCoreApplied, Owned
<1>4. live[Core(a)] = disk[Core(a)] /\ disk[Core(a)] = inst[a].cfg /\ inst[a].cfg \notin Bads
    BY <1>1 DEF SyncIInv, Upkeep, Holding
<1>5. CASE End(a, "ok")
  <2>1. {disk'[Core(a)], live'[Core(a)]} \cap Bads = {}
      BY <1>1, <1>4
  <2>2. QED
      BY <1>1, <1>3, <1>4, <1>5, <2>1, EndKeeps DEF WorkCodes
<1>6. CASE GoesOn(a) /\ inst' = [inst EXCEPT ![a] = [Idle EXCEPT !.nested = TRUE]] /\ UNCHANGED vars
  <2> UNCHANGED <<slot, status, phase, outcome, flock>>
      BY <1>6 DEF vars, jobVars, attemptVars, lockVars
  <2>1. /\ \A b \in Attempts : b # a => phase[b] # "work" /\ inst'[b] = inst[b]
        /\ flock = a
      BY <1>1, <1>2, <1>6, OnlyWorker
  <2>2. inst'[a] = [Idle EXCEPT !.nested = TRUE]
      BY <1>2, <1>6
  <2>3. inst'[a].nested /\ inst'[a].step = "build"
      BY <2>2 DEF Idle
  <2>4. /\ ~IsAutomatic(a) /\ Core(a) = "xray" /\ Core(a)' = "singbox" /\ "singbox" \in Cores
        /\ slot[a[1]].core = "xray" /\ slot[a[1]].kind = "manual"
      BY <1>6, <2>3 DEF GoesOn, IsAutomatic, Core
  <2>5. \A b \in Attempts : b # a => Core(b)' = Core(b)
      BY <2>1 DEF Core
  <2>6. AtRest' /\ NestedInXray'
      BY <1>1, <2>1, <2>4 DEF SyncIInv, Upkeep, AtRest, NestedInXray
  <2>7. \A b \in Attempts : ~At(b, "install")' /\ ~At(b, "restart")' /\ ~At(b, "rollback")' /\ ~At(b, "record")'
      BY <2>1, <2>3 DEF At
  <2>8. \A b \in Attempts : ~At(b, "restart") /\ ~At(b, "rollback")
      BY <1>1, <2>1 DEF At
  <2>9. Holding'
      BY <2>7 DEF Holding
  <2>10. OnlyValidRuns'
      BY <1>1 DEF SyncIInv, Upkeep, OnlyValidRuns
  <2>11. DiskIsLive'
      BY <1>1, <2>8 DEF SyncIInv, Upkeep, DiskIsLive, Installing
  <2>12. ManualFirst'
    <3> SUFFICES ASSUME NEW d \in Attempts, NEW b \in Attempts,
                        flock' = b, ~IsAutomatic(b)', IsAutomatic(d)', d[1] > b[1]
                 PROVE  /\ phase'[d] \in {"return", "ended"} => outcome'[d] # "ok"
                        /\ phase'[d] = "ended" /\ Ahead(b, slot[d[1]].core)'
                              => Owned(slot[d[1]].core)'
        BY DEF ManualFirst
    <3>1. b = a /\ flock = b /\ ~IsAutomatic(b) /\ IsAutomatic(d)
        BY <2>1 DEF IsAutomatic
    <3>2. phase[d] \in {"return", "ended"} => outcome[d] # "ok"
        BY <3>1 DEF SyncIInv, Upkeep, ManualFirst
    <3>3. ASSUME phase[d] = "ended", Ahead(b, slot[d[1]].core)'
          PROVE  Owned(slot[d[1]].core)'
      <4>1. slot[d[1]].core = "singbox"
          BY <2>4, <3>1, <3>3 DEF Ahead
      <4>2. Owned("singbox")
          BY <2>4, <3>1, <3>3, <4>1 DEF SyncIInv, Upkeep, ManualFirst, Ahead
      <4>3. Owned("singbox")'
          BY <1>3, <2>4, <4>2
      <4>4. QED
          BY <4>1, <4>3 DEF Owned
    <3>4. QED
        BY <3>2, <3>3
  <2>13. Explained'
    <3> SUFFICES ASSUME NEW b \in Attempts, IsAutomatic(b)', Over(b)', Bad(slot[b[1]].core)'
                 PROVE  \/ \E d \in Attempts : Blamed(d, slot[b[1]].core)'
                        \/ TakenOver(b[1], slot[b[1]].core)'
        BY DEF Explained
    <3> DEFINE c == slot[b[1]].core
    <3>1. IsAutomatic(b) /\ Over(b)
        BY DEF IsAutomatic, Over
    <3>2. c \in Cores
        BY <3>1, Begun, AttemptPair DEF Over, SyncIInv, IInv, Placed
    <3>3. c # Core(a)
        BY <1>1, <1>4 DEF Bad
    <3>4. Bad(c)
      <4>1. ~Owned(c)'
          BY DEF Bad, Owned
      <4>2. QED
          BY <1>1, <1>3, <3>2, <3>3, <4>1 DEF Bad
    <3>5. \A d \in Attempts : Blamed(d, c) => Blamed(d, c)'
        BY <2>8 DEF Blamed, IsAutomatic
    <3>6. TakenOver(b[1], c)' <=> TakenOver(b[1], c)
        BY DEF TakenOver, Concerns
    <3>7. QED
        BY <3>1, <3>4, <3>5, <3>6 DEF SyncIInv, Upkeep, Explained
  <2>14. QED
      BY <2>6, <2>9, <2>10, <2>11, <2>12, <2>13 DEF Upkeep
<1>7. QED
    BY <1>5, <1>6 DEF Record

\* An automatic attempt that failed marks its core before it reports.
LEMMA ReportKeeps ==
  ASSUME SyncIInv, TypeOK', NEW a \in Attempts, Report(a)
  PROVE  SyncTypeOK' /\ Asked' /\ Upkeep'
<1> SyncTypeOK /\ TypeOK /\ IInv
    BY DEF SyncIInv, IInv
<1>1. /\ phase[a] = "return" /\ phase'[a] = "ended"
      /\ \A b \in Attempts : b # a => phase'[b] = phase[b]
      /\ UNCHANGED <<slot, status, outcome, flock>>
    BY DEF Report, Deliver, jobVars, lockVars, TypeOK
<1>2. UNCHANGED <<gen, coreVars, requestVars, inst, count>>
    BY DEF Report
<1>3. slot[a[1]].core \in Cores
    BY <1>1, Begun, AttemptPair DEF IInv, Placed
<1>4. /\ row' \in [Cores -> Rows] /\ unmarked' \subseteq Cores
      /\ \A c \in Cores : Owned(c) => Owned(c)'
      /\ \A c \in Cores : IsAutomatic(a) /\ outcome[a] # "ok" /\ slot[a[1]].core = c => Owned(c)'
  <2>1. CASE Failing(a) /\ row' = MarkCorePending(row, slot[a[1]].core) /\ UNCHANGED unmarked
      BY <1>3, <2>1, MarkTypes DEF Owned, SyncTypeOK
  <2>2. CASE Failing(a) /\ unmarked' = unmarked \cup {slot[a[1]].core} /\ UNCHANGED row
      BY <1>3, <2>2, Kinds DEF Owned, SyncTypeOK
  <2>3. CASE ~Failing(a) /\ UNCHANGED <<row, unmarked>>
      BY <2>3, Kinds DEF Owned, Failing, IsAutomatic, SyncTypeOK
  <2>4. QED
      BY <2>1, <2>2, <2>3 DEF Report
<1>5. SyncTypeOK' /\ Asked'
    BY <1>1, <1>2, <1>4 DEF SyncIInv, SyncTypeOK, Rows, Asked, coreVars, requestVars
<1>6. \A b \in Attempts : Core(b)' = Core(b) /\ (phase'[b] = "work" <=> phase[b] = "work")
    BY <1>1, <1>2 DEF Core
<1>7. UNCHANGED <<disk, live, torn, inst>>
    BY <1>2 DEF coreVars
<1>8. \A b \in Attempts : /\ At(b, "install")' <=> At(b, "install")
                          /\ At(b, "restart")' <=> At(b, "restart")
                          /\ At(b, "rollback")' <=> At(b, "rollback")
                          /\ At(b, "record")' <=> At(b, "record")
    BY <1>6, <1>7 DEF At
<1>9. AtRest' /\ NestedInXray'
    BY <1>1, <1>6, <1>7 DEF SyncIInv, Upkeep, AtRest, NestedInXray
<1>10. Holding'
    BY <1>6, <1>7, <1>8 DEF SyncIInv, Upkeep, Holding
<1>11. OnlyValidRuns' /\ DiskIsLive'
    BY <1>6, <1>7, <1>8 DEF SyncIInv, Upkeep, OnlyValidRuns, DiskIsLive, Installing
<1>12. ManualFirst'
  <2> SUFFICES ASSUME NEW d \in Attempts, NEW b \in Attempts,
                      flock' = b, ~IsAutomatic(b)', IsAutomatic(d)', d[1] > b[1]
               PROVE  /\ phase'[d] \in {"return", "ended"} => outcome'[d] # "ok"
                      /\ phase'[d] = "ended" /\ Ahead(b, slot[d[1]].core)'
                            => Owned(slot[d[1]].core)'
      BY DEF ManualFirst
  <2>1. /\ flock = b /\ ~IsAutomatic(b) /\ IsAutomatic(d)
        /\ Ahead(b, slot[d[1]].core)' <=> Ahead(b, slot[d[1]].core)
      BY <1>1, <1>6 DEF IsAutomatic, Ahead
  <2>2. phase'[d] \in {"return", "ended"} => phase[d] \in {"return", "ended"} /\ outcome[d] # "ok"
      BY <1>1, <2>1 DEF SyncIInv, Upkeep, ManualFirst
  <2> DEFINE c == slot[d[1]].core
  <2>3. phase[d] # "none" => c \in Cores /\ (Owned(c)' <=> Owned(slot[d[1]].core)')
      BY <1>1, Begun, AttemptPair DEF IInv, Placed, Owned
  <2>4. ASSUME phase'[d] = "ended", Ahead(b, slot[d[1]].core)'
        PROVE  Owned(slot[d[1]].core)'
    <3>1. CASE d = a
        BY <1>1, <1>3, <1>4, <2>1, <2>2, <2>3, <2>4, <3>1
    <3>2. CASE d # a
        BY <1>1, <1>4, <2>1, <2>3, <2>4, <3>2 DEF SyncIInv, Upkeep, ManualFirst
    <3>3. QED
        BY <3>1, <3>2
  <2>5. QED
      BY <1>1, <2>1, <2>2, <2>4
<1>13. Explained'
  <2> SUFFICES ASSUME NEW b \in Attempts, IsAutomatic(b)', Over(b)', Bad(slot[b[1]].core)'
               PROVE  \/ \E d \in Attempts : Blamed(d, slot[b[1]].core)'
                      \/ TakenOver(b[1], slot[b[1]].core)'
      BY DEF Explained
  <2> DEFINE c == slot[b[1]].core
  <2>1. IsAutomatic(b) /\ phase[b] # "none"
      BY <1>1 DEF IsAutomatic, Over
  <2>2. c \in Cores
      BY <2>1, Begun, AttemptPair DEF IInv, Placed
  <2> PICK k \in Cores : k = c
      BY <2>2
  <2>3. Bad(k) /\ ~Owned(k)'
    <3>1. ~Owned(k)'
        BY <1>1 DEF Bad, Owned
    <3>2. live[k] # disk[k]
        BY <1>1, <1>7 DEF Bad
    <3>3. QED
        BY <1>4, <3>1, <3>2 DEF Bad
  <2>4. Over(b)
      BY <1>1, <1>4, <2>1, <2>2, <2>3 DEF Over
  <2>5. \A d \in Attempts : Blamed(d, c) => Blamed(d, c)'
      BY <1>1, <1>4, <1>8, <2>2, <2>3 DEF Blamed, IsAutomatic, At
  <2>6. TakenOver(b[1], c)' <=> TakenOver(b[1], c)
      BY <1>1 DEF TakenOver, Concerns
  <2>7. QED
      BY <1>1, <2>1, <2>3, <2>4, <2>5, <2>6 DEF SyncIInv, Upkeep, Explained
<1>14. QED
    BY <1>5, <1>9, <1>10, <1>11, <1>12, <1>13 DEF Upkeep

-----------------------------------------------------------------------------
(* The environment *)

\* After a crash nobody works; a core between rename and restart is torn.
LEMMA CrashKeeps ==
  ASSUME SyncIInv, TypeOK', Crash
  PROVE  SyncTypeOK' /\ Asked' /\ Upkeep'
<1> SyncTypeOK
    BY DEF SyncIInv
<1>1. /\ \A a \in Attempts : phase'[a] = "none" /\ inst'[a] = Idle
      /\ flock' = Free
      /\ \A s \in Savers : save'[s] = NoSave
      /\ \A j \in Jobs : sched'[j] = "no"
      /\ UNCHANGED <<gen, row, unmarked, disk, live, liveCert, cert>>
    BY DEF Crash, Restart, storeVars
<1>2. torn' \subseteq Cores
    BY CoreOfWork DEF Crash, At, SyncTypeOK
<1>3. inst' \in [Attempts -> Locals]
    BY DEF Crash, Idle, Locals, Steps
<1>4. save' \in [Savers -> SaveRequests]
    BY DEF Crash, NoSave, SaveRequests
<1>5. /\ sched' \in [Jobs -> {"no", "check", "enqueue"}] /\ renewal' \in {"idle", "mark"}
      /\ count' \in [saves : Nat, renewals : Nat, crashes : Nat]
    BY DEF Crash, SyncTypeOK
<1>6. SyncTypeOK'
    BY <1>1, <1>2, <1>3, <1>4, <1>5 DEF SyncTypeOK, Locals, SaveRequests
<1>7. Asked'
    BY <1>1 DEF Asked, NoSave
<1>8. AtRest' /\ Holding' /\ ManualFirst' /\ Explained'
    BY <1>1 DEF AtRest, Holding, ManualFirst, Explained, Over, At
<1>9. NestedInXray'
    BY <1>1 DEF NestedInXray, Idle
<1>10. OnlyValidRuns'
    BY <1>1 DEF SyncIInv, Upkeep, OnlyValidRuns
<1>11. DiskIsLive'
  <2>1. \A c \in Cores : Installing(c) \/ c \in torn => c \in torn'
      BY DEF Crash, Installing
  <2>2. QED
      BY <1>1, <2>1 DEF SyncIInv, Upkeep, DiskIsLive
<1>12. QED
    BY <1>6, <1>7, <1>8, <1>9, <1>10, <1>11 DEF Upkeep

\* A service that comes up by itself runs its file.
LEMMA ComesUpKeeps ==
  ASSUME SyncIInv, TypeOK', NEW c \in Cores, ServiceComesUp(c)
  PROVE  SyncTypeOK' /\ Asked' /\ Upkeep'
<1> SyncTypeOK
    BY DEF SyncIInv
<1>1. /\ UNCHANGED <<vars, storeVars, disk, requestVars, inst, count>>
      /\ live' = [live EXCEPT ![c] = disk[c]]
      /\ liveCert' = [liveCert EXCEPT ![c] = cert] /\ torn' = torn \ {c}
    BY DEF ServiceComesUp, Serve
<1>2. UNCHANGED <<slot, status, phase, outcome, flock, row, unmarked, gen, save, sched, cert, renewal>>
    BY <1>1 DEF vars, jobVars, attemptVars, lockVars, storeVars, requestVars
<1>3. live'[c] = disk[c] /\ \A k \in Cores : k # c => live'[k] = live[k]
    BY <1>1 DEF SyncTypeOK
<1>4. SyncTypeOK'
    BY <1>1, <1>2 DEF SyncTypeOK
<1>5. Asked'
    BY <1>2 DEF SyncIInv, Asked
<1>6. \A a \in Attempts : /\ Core(a)' = Core(a) /\ IsAutomatic(a)' = IsAutomatic(a)
                          /\ At(a, "install")' <=> At(a, "install")
                          /\ At(a, "restart")' <=> At(a, "restart")
                          /\ At(a, "rollback")' <=> At(a, "rollback")
                          /\ At(a, "record")' <=> At(a, "record")
    BY <1>1, <1>2 DEF Core, At, IsAutomatic
<1>7. AtRest' /\ NestedInXray' /\ ManualFirst'
    BY <1>1, <1>2, <1>6 DEF SyncIInv, Upkeep, AtRest, NestedInXray, ManualFirst, Ahead, Owned
<1>8. Holding'
  <2> SUFFICES ASSUME NEW a \in Attempts, phase[a] = "work"
               PROVE  At(a, "record") => live'[Core(a)] = disk[Core(a)]
      BY <1>1, <1>6 DEF SyncIInv, Upkeep, Holding, At
  <2>1. Core(a) \in Cores
      BY CoreOfWork
  <2>2. QED
      BY <1>3, <2>1 DEF SyncIInv, Upkeep, Holding
<1>9. OnlyValidRuns'
    BY <1>1, <1>3 DEF SyncIInv, Upkeep, OnlyValidRuns
<1>10. DiskIsLive'
    BY <1>1, <1>3, <1>6 DEF SyncIInv, Upkeep, DiskIsLive, Installing
<1>11. Explained'
  <2> SUFFICES ASSUME NEW b \in Attempts, IsAutomatic(b)', Over(b)', Bad(slot[b[1]].core)'
               PROVE  \/ \E d \in Attempts : Blamed(d, slot[b[1]].core)'
                      \/ TakenOver(b[1], slot[b[1]].core)'
      BY DEF Explained
  <2> DEFINE k == slot[b[1]].core
  <2>1. IsAutomatic(b) /\ Over(b)
      BY <1>2 DEF IsAutomatic, Over
  <2>2. k \in Cores
      BY <2>1, Begun, AttemptPair DEF Over, SyncIInv, IInv, Placed
  <2>3. Bad(k)
      BY <1>1, <1>2, <1>3, <2>2 DEF Bad, Owned
  <2>4. \A d \in Attempts : Blamed(d, k) => Blamed(d, k)'
      BY <1>2, <1>6 DEF Blamed
  <2>5. TakenOver(b[1], k)' <=> TakenOver(b[1], k)
      BY <1>2 DEF TakenOver, Concerns
  <2>6. QED
      BY <1>2, <2>1, <2>3, <2>4, <2>5 DEF SyncIInv, Upkeep, Explained
<1>12. QED
    BY <1>4, <1>5, <1>7, <1>8, <1>9, <1>10, <1>11 DEF Upkeep

-----------------------------------------------------------------------------
(* The theorems *)

\* No action of CoreSync breaks the invariant.
LEMMA NextSyncIInv == SyncIInv /\ [SyncNext]_allVars => SyncIInv'
<1> SUFFICES ASSUME SyncIInv, [SyncNext]_allVars PROVE SyncIInv'
    OBVIOUS
<1>1. IInv' /\ Started' /\ InTurnIds' /\ TypeOK'
    BY JobSide DEF IInv
<1>2. SyncTypeOK' /\ Asked' /\ Upkeep'
  <2>1. CASE \E s \in Savers :
                \/ \E m \in Managers, c \in Cores : SaveBegin(s, m, c)
                \/ Requesting(s)
                \/ SaveAbandoned(s)
      BY <1>1, <2>1, SaveKeeps
  <2>2. CASE RenewCert \/ RenewMark
      BY <1>1, <2>2, RenewalKeeps
  <2>3. CASE \E j \in Jobs : Finish(j) \/ RunStep(j) \/ ScheduleCheck(j) \/ ScheduleEnqueue(j)
      BY <1>1, <2>3, JobKeeps
  <2>4. CASE ManualStep \/ \E a \in Attempts : LockingStep(a)
      BY <1>1, <2>4, LockKeeps
  <2>5. CASE \E a \in Attempts : Work(a)
    <3> PICK a \in Attempts : Work(a)
        BY <2>5
    <3>1. SyncTypeOK' /\ Asked'
        BY <1>1, WorkTypes
    <3>2. Upkeep'
        BY BuildKeeps, InstallKeeps, RestartedKeeps, RestartFailsKeeps, RolledBackKeeps, RecordKeeps,
           PrepareFailsKeeps DEF Work
    <3>3. QED
        BY <3>1, <3>2
  <2>6. CASE \E a \in Attempts : Report(a)
      BY <1>1, <2>6, ReportKeeps
  <2>7. CASE Crash
      BY <1>1, <2>7, CrashKeeps
  <2>8. CASE \E c \in Cores : ServiceComesUp(c)
      BY <1>1, <2>8, ComesUpKeeps
  <2>9. CASE UNCHANGED allVars
    <3>1. Calm /\ UNCHANGED <<status, storeVars, coreVars, requestVars, inst, count>>
        BY <2>9, StutterIsCalm DEF allVars, syncVars, vars, jobVars
    <3>2. SyncTypeOK' /\ Asked'
        BY <1>1, <3>1 DEF SyncIInv, SyncTypeOK, Asked, storeVars, coreVars, requestVars
    <3>3. QED
        BY <3>1, <3>2, CalmKeeps DEF storeVars, coreVars
  <2>10. QED
      BY <2>1, <2>2, <2>3, <2>4, <2>5, <2>6, <2>7, <2>8, <2>9 DEF SyncNext
<1>3. QED
    BY <1>1, <1>2 DEF SyncIInv

\* The invariant holds of every behaviour, whatever is saved, fails or crashes.
THEOREM SyncInvariance == SyncSpec => []SyncIInv
BY InitSyncIInv, NextSyncIInv, PTL DEF SyncSpec

\* CoreSync implements ApplyJobs: what is proved of the job manager alone holds
\* of the panel with its saves, configurations, failures and crashes.
THEOREM SyncImplementsApplyJobs == SyncSpec => Spec
<1>1. SyncInit => Init
    BY DEF SyncInit
<1>2. SyncIInv /\ [SyncNext]_allVars => [Next]_vars
    BY StepApplies
<1>3. QED
    BY <1>1, <1>2, SyncInvariance, PTL DEF SyncSpec, Spec

\* The store, files, services, rows and requests always hold values of their kinds.
THEOREM SyncTypeCorrect == SyncSpec => []SyncTypeOK
<1>1. SyncIInv => SyncTypeOK
    BY DEF SyncIInv
<1>2. QED
    BY SyncInvariance, <1>1, PTL

\* apply.lock covers rename, restart, rollback and record: no attempt, however
\* late, and no request replaces the file under another.
THEOREM InstallsAreUndisturbed == SyncSpec => []InstallUndisturbed
<1>1. SyncIInv => InstallUndisturbed
    BY DEF SyncIInv, Upkeep, Holding, InstallUndisturbed
<1>2. QED
    BY SyncInvariance, <1>1, PTL

\* ValidateConfig before the rename, and rollbacks to files that were validated
\* in their turn, keep refused configurations out of files and services.
THEOREM NothingInvalidRuns == SyncSpec => []OnlyValidRuns
<1>1. SyncIInv => OnlyValidRuns
    BY DEF SyncIInv, Upkeep
<1>2. QED
    BY SyncInvariance, <1>1, PTL

\* corePendingApplyFromDiskHash compares with the file, and only an attempt at
\* work, a crash in it or a systemctl without effect separates the file from the
\* service.
THEOREM NoDriftIsSilent == SyncSpec => []NoSilentDrift
<1>1. SyncIInv => NoSilentDrift
    BY DEF SyncIInv, Upkeep, DiskIsLive, NoSilentDrift, PendingApply
<1>2. QED
    BY SyncInvariance, <1>1, PTL

\* The mark that a failed automatic attempt leaves outlives every older attempt;
\* only a later job that concerns the core clears it.  A mark that could not be
\* written shows nothing.
THEOREM FailuresShow == SyncSpec => []FailureShows
<1>1. SyncIInv => FailureShows
  <2> SUFFICES ASSUME SyncIInv, NEW j \in Jobs,
                      status[j] = "failed", slot[j].kind = "auto",
                      \A k \in Jobs : status[k] # "none" /\ Concerns(k, slot[j].core) => k <= j,
                      \A a \in Attempts : Concerns(a[1], slot[j].core) => ~Live(a),
                      ~PendingApply(slot[j].core), live[slot[j].core] # gen[slot[j].core],
                      slot[j].core \notin unmarked
               PROVE  FALSE
      BY DEF FailureShows
  <2> DEFINE c == slot[j].core
  <2>1. Current(j) \in Attempts /\ Current(j)[1] = j
      BY CurrentAttempt DEF SyncIInv, IInv
  <2>2. pc[j] = "done"
      BY DEF SyncIInv, IInv, PcShows, Terminal
  <2>3. phase[Current(j)] = "ended"
      BY <2>1, <2>2 DEF SyncIInv, Started, Live, Concerns
  <2>4. IsAutomatic(Current(j)) /\ Over(Current(j)) /\ Bad(c)
      BY <2>1, <2>3 DEF IsAutomatic, Over, Bad, Owned, PendingApply
  <2>5. ~\E b \in Attempts : Blamed(b, c)
      BY DEF Blamed, Concerns, At, Live
  <2>6. ~TakenOver(j, c)
      BY MaxJobsAssumption DEF TakenOver, Jobs
  <2>7. QED
      BY <2>1, <2>4, <2>5, <2>6 DEF SyncIInv, Upkeep, Explained
<1>2. QED
    BY SyncInvariance, <1>1, PTL

\* Only the attempt that holds apply.lock records, right after the service
\* loaded what it renamed; no late attempt records what has been replaced.
THEOREM RecordsAreLive == SyncSpec => RecordedIsLive
<1>1. SyncIInv /\ [SyncNext]_allVars =>
        [\A c \in Cores : row'[c].applied # row[c].applied =>
            live[c] = row'[c].applied /\ disk[c] = row'[c].applied]_allVars
  <2> SUFFICES ASSUME SyncIInv, SyncNext, NEW c \in Cores, row'[c].applied # row[c].applied
               PROVE  live[c] = row'[c].applied /\ disk[c] = row'[c].applied
      OBVIOUS
  <2> row \in [Cores -> Rows]
      BY Kinds DEF SyncIInv
  <2>1. PICK a \in Attempts : Record(a)
    <3>1. row' # row
        OBVIOUS
    <3>2. ~\E k \in Cores : row' = MarkCorePending(row, k)
        BY MarkTypes DEF SyncIInv
    <3>3. ~RenewMark
      <4>1. \A k \in Cores : [row[k] EXCEPT !.found = TRUE, !.dirty = TRUE].applied = row[k].applied
          BY RowChanges
      <4>2. QED
          BY <4>1 DEF RenewMark
    <3>4. ~\E s \in Savers : \/ \E m \in Managers, k \in Cores : SaveBegin(s, m, k)
                             \/ Requesting(s)
                             \/ SaveAbandoned(s)
        BY <3>1, <3>2 DEF Requesting, SaveBegin, SaveWrite, SaveCompare, SaveEnqueue, SaveAbandoned,
                          storeVars, SyncIInv, Asked
    <3>5. ~\E a \in Attempts : Report(a)
      <4>1. \A a \in Attempts : phase[a] = "return" => slot[a[1]].core \in Cores
          BY Begun, AttemptPair DEF SyncIInv, IInv, Placed
      <4>2. QED
          BY <3>1, <3>2, <4>1 DEF Report, Deliver
    <3>6. \E a \in Attempts : Work(a)
        BY <3>1, <3>3, <3>4, <3>5 DEF SyncNext, RenewCert, Finish, RunStep, ScheduleCheck, ScheduleEnqueue,
              LockingStep, ManualStep, Crash, ServiceComesUp, syncVars, storeVars
    <3>7. QED
        BY <3>1, <3>6 DEF Work, Build, Install, Restarted, RestartFails, RolledBack, PrepareFails, storeVars
  <2>2. At(a, "record") /\ row' = MarkCoreApplied(row, Core(a), inst[a].cfg)
      BY <2>1 DEF Record
  <2>3. c = Core(a) /\ row'[c].applied = inst[a].cfg
      BY <2>2 DEF MarkCoreApplied
  <2>4. QED
      BY <2>2, <2>3 DEF SyncIInv, Upkeep, Holding
<1>2. QED
    BY SyncInvariance, <1>1, PTL DEF SyncSpec, RecordedIsLive

=============================================================================
