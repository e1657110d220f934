-------------------------- MODULE ApplyJobsProofs --------------------------
(***************************************************************************)
(* Proofs about ApplyJobs, for any cores, managers, jobs and retries, and  *)
(* that it implements JobLifecycle.                                        *)
(***************************************************************************)
EXTENDS ApplyJobs, TLAPS

\* Where a job's goroutine is shows in its status.
PcShows ==
    \A j \in Jobs :
        /\ status[j] = "none" <=> pc[j] = "none"
        /\ status[j] = "queued" <=> pc[j] = "start"
        /\ status[j] = "running" <=> pc[j] \in {"attempt", "cleanup"}
        /\ status[j] = "retrying" <=> pc[j] = "delay"
        /\ status[j] \in Terminal <=> pc[j] = "done"

\* What a job is fixed to when it starts, and how far it may retry.
Placed ==
    \A j \in Jobs :
        /\ status[j] # "none" => slot[j].mgr \in Managers /\ slot[j].core \in Cores
        /\ retry[j] <= MaxRetriesOf(slot[j].kind)
        /\ pc[j] = "cleanup" => retry[j] < MaxRetriesOf(slot[j].kind)
        /\ pc[j] \in {"none", "start"} => retry[j] = 0
        /\ pc[j] = "delay" => retry[j] > 0

\* The attempts before the current one have ended, those after it have not begun.
InOrder ==
    \A a \in Attempts :
        /\ a[2] < retry[a[1]] => phase[a] = "ended"
        /\ a[2] > retry[a[1]] => phase[a] = "none"
        /\ pc[a[1]] \in {"none", "start", "delay"} /\ a[2] = retry[a[1]] => phase[a] = "none"
        /\ slot[a[1]].kind = "manual" => phase[a] \notin {"sem", "flock"}

\* Who holds apply.lock and who is in applySem.
LockInv ==
    /\ \A a \in Attempts :
          /\ phase[a] = "work" => flock = a
          /\ flock = a => \/ phase[a] = "work"
                          \/ slot[a[1]].kind = "manual" /\ pc[a[1]] = "start"
          /\ slot[a[1]].kind = "manual" /\ pc[a[1]] = "start" => flock = <<a[1], 0>>
          /\ phase[a] = "flock" \/ (phase[a] = "work" /\ slot[a[1]].kind = "auto")
                => sem[mgr(a)] = a
          /\ \A m \in Managers : sem[m] = a =>
                /\ phase[a] \in {"flock", "work"}
                /\ mgr(a) = m
                /\ slot[a[1]].kind = "auto"
    /\ flock = Request <=> handler # NoCore
    /\ handler # NoCore => "router" \in Managers

IInv ==
    /\ TypeOK
    /\ PcShows
    /\ Placed
    /\ InOrder
    /\ LockInv
    /\ OneActiveJob
    /\ OnlyTimeoutsLeaveWork

USE DEF Jobs, Attempts, Active, Terminal

\* The manager starts with nothing running and every lock free.
LEMMA InitIInv == Init => IInv
<1> SUFFICES ASSUME Init PROVE IInv
    OBVIOUS
<1> USE DEF Init
<1>1. \A a \in Attempts : a[1] \in Jobs /\ a[2] \in 0 .. MaxRetries
    OBVIOUS
<1>2. Free \notin Attempts /\ Request \notin Attempts /\ Free # Request /\ NoCore \notin Cores
    BY CoresAssumption, MaxJobsAssumption DEF Free, Request, NoCore
<1> HIDE DEF Attempts
<1>3. TypeOK
    BY MaxRetriesAssumption DEF TypeOK, Codes, NoCore, NoError
<1>4. PcShows
    BY DEF PcShows
<1>5. Placed /\ InOrder
    BY <1>1, MaxRetriesAssumption DEF Placed, InOrder, MaxRetriesOf
<1>6. LockInv
    BY <1>1, <1>2 DEF LockInv
<1>7. OneActiveJob /\ OnlyTimeoutsLeaveWork
    BY <1>1 DEF OneActiveJob, OnlyTimeoutsLeaveWork, Live
<1>8. QED
    BY <1>3, <1>4, <1>5, <1>6, <1>7 DEF IInv

\* An attempt is a job and a try; the current one of a job is one.
LEMMA AttemptPair ==
  \A a \in Attempts : a[1] \in Jobs /\ a[2] \in 0 .. MaxRetries /\ a = <<a[1], a[2]>>
OBVIOUS

\* The current attempt of a job is the one attempt with its retry count.
LEMMA CurrentAttempt ==
  ASSUME TypeOK, NEW j \in Jobs
  PROVE  /\ Current(j) \in Attempts
         /\ Current(j)[1] = j /\ Current(j)[2] = retry[j]
         /\ \A a \in Attempts : a = Current(j) <=> a[1] = j /\ a[2] = retry[j]
BY DEF TypeOK, Current

\* The locks' two markers are no attempts.
LEMMA NoAttemptIsFree == Free \notin Attempts /\ Request \notin Attempts /\ Free # Request
BY MaxJobsAssumption DEF Free, Request

\* Every job has a first attempt.
LEMMA FirstTry == \A a \in Attempts : <<a[1], 0>> \in Attempts
BY MaxRetriesAssumption

\* A job that has not begun has no attempt and, unless it waits with the file
\* lock its request took, no lock.
LEMMA NotBegun ==
  ASSUME IInv, NEW j \in Jobs, status[j] = "none"
  PROVE  \A a \in Attempts : a[1] = j =>
            phase[a] = "none" /\ flock # a /\ \A m \in Managers : sem[m] # a
<1>1. pc[j] = "none" /\ retry[j] = 0
    BY DEF IInv, PcShows, Placed
<1>2. \A a \in Attempts : a[1] = j => phase[a] = "none"
    BY <1>1, AttemptPair DEF IInv, InOrder
<1>3. QED
    BY <1>1, <1>2 DEF IInv, LockInv

\* An attempt that was made belongs to a job that was started.
LEMMA Begun ==
  ASSUME IInv
  PROVE  \A a \in Attempts : phase[a] # "none" =>
            status[a[1]] # "none" /\ mgr(a) \in Managers
<1> SUFFICES ASSUME NEW a \in Attempts, phase[a] # "none"
             PROVE  status[a[1]] # "none" /\ mgr(a) \in Managers
    OBVIOUS
<1>1. a[1] \in Jobs
    BY AttemptPair
<1>2. status[a[1]] # "none"
    BY <1>1, NotBegun
<1>3. QED
    BY <1>1, <1>2 DEF IInv, Placed, mgr

\* enqueueCoreAutoApply: the slot had no active job, so byCore may show the new one.
LEMMA EnqueueAutoIInv ==
  ASSUME IInv, NEW m \in Managers, NEW c \in Cores, NEW j \in Jobs, EnqueueAuto(m, c, j)
  PROVE  IInv'
<1> USE MaxJobsAssumption, MaxRetriesAssumption DEF IInv, TypeOK, EnqueueAuto, tryStart, running, Fresh, NoJob, attemptVars, lockVars
<1>1. TypeOK'
    BY DEF Codes, WorkCodes, Free, Request
<1>2. PcShows' /\ Placed'
    BY DEF PcShows, Placed, MaxRetriesOf
<1>3. InOrder'
    BY DEF InOrder, PcShows, Placed, MaxRetriesOf
<1>4. LockInv'
  <2> HIDE DEF Attempts
  <2>1. status[j] = "none"
      OBVIOUS
  <2>2. \A a \in Attempts : a[1] = j =>
            phase[a] = "none" /\ flock # a /\ \A n \in Managers : sem[n] # a
      BY <2>1, NotBegun
  <2>3. \A a \in Attempts : a[1] # j => slot'[a[1]] = slot[a[1]] /\ pc'[a[1]] = pc[a[1]]
      BY AttemptPair
  <2>4. slot'[j].kind = "auto"
      OBVIOUS
  <2>5. QED
      BY <2>2, <2>3, <2>4 DEF LockInv, mgr
<1>5. OneActiveJob' /\ OnlyTimeoutsLeaveWork'
    BY DEF OneActiveJob, OnlyTimeoutsLeaveWork, PcShows, InOrder, Live
<1>6. QED
    BY <1>1, <1>2, <1>3, <1>4, <1>5 DEF IInv

\* The handler takes apply.lock only when nobody has it.
LEMMA ManualLockIInv ==
  ASSUME IInv, "router" \in Managers, NEW c \in Cores, ManualLock(c)
  PROVE  IInv'
<1> USE MaxJobsAssumption, MaxRetriesAssumption DEF IInv, TypeOK, ManualLock, jobVars, attemptVars
<1>1. TypeOK'
    BY DEF Codes, WorkCodes, Free, Request
<1>2. PcShows' /\ Placed'
    BY DEF PcShows, Placed, MaxRetriesOf
<1>3. InOrder'
    BY DEF InOrder, PcShows, Placed, MaxRetriesOf
<1>4. LockInv'
  <2>1. \A a \in Attempts : phase[a] # "work" /\ flock' # a /\ flock # a
      BY NoAttemptIsFree DEF LockInv
  <2>2. \A a \in Attempts : ~(slot[a[1]].kind = "manual" /\ pc[a[1]] = "start")
    <3> SUFFICES ASSUME NEW a \in Attempts, slot[a[1]].kind = "manual", pc[a[1]] = "start"
                 PROVE  FALSE
        OBVIOUS
    <3>1. flock = <<a[1], 0>> /\ <<a[1], 0>> \in Attempts
        BY AttemptPair DEF LockInv
    <3>2. QED
        BY <3>1, NoAttemptIsFree
  <2>3. c # NoCore
      BY CoresAssumption DEF NoCore
  <2>4. QED
      BY <2>1, <2>2, <2>3 DEF LockInv, mgr
<1>5. OneActiveJob' /\ OnlyTimeoutsLeaveWork'
    BY DEF OneActiveJob, OnlyTimeoutsLeaveWork, PcShows, InOrder, Live
<1>6. QED
    BY <1>1, <1>2, <1>3, <1>4, <1>5 DEF IInv

\* The handler's lock passes to the first attempt of its job.
LEMMA ManualStartIInv ==
  ASSUME IInv, NEW j \in Jobs, ManualStart(j)
  PROVE  IInv'
<1> USE MaxJobsAssumption, MaxRetriesAssumption
        DEF IInv, TypeOK, ManualStart, tryStart, running, Fresh, NoJob, attemptVars
<1>1. "router" \in Managers /\ handler \in Cores /\ flock = Request
    BY DEF LockInv
<1>2. <<j, 0>> \in Attempts /\ status[j] = "none"
    OBVIOUS
<1>3. \A a \in Attempts : a[1] = j =>
          phase[a] = "none" /\ flock # a /\ \A n \in Managers : sem[n] # a
    BY <1>2, NotBegun
<1> HIDE DEF Attempts
<1>4. \A a \in Attempts : a[1] # j => slot'[a[1]] = slot[a[1]] /\ pc'[a[1]] = pc[a[1]]
    BY AttemptPair
<1>5. slot'[j] = [mgr |-> "router", core |-> handler, kind |-> "manual"] /\ pc'[j] = "start"
    OBVIOUS
<1>6. TypeOK'
    BY <1>1, <1>2 DEF Codes, WorkCodes
<1>7. PcShows' /\ Placed'
    BY <1>1 DEF PcShows, Placed, MaxRetriesOf
<1>8. InOrder'
    BY <1>3, <1>4, AttemptPair DEF InOrder, PcShows, Placed
<1>9. LockInv'
  <2>1. \A a \in Attempts : phase[a] # "work"
      BY <1>1, NoAttemptIsFree DEF LockInv
  <2>2. \A a \in Attempts : slot[a[1]].kind = "manual" => pc[a[1]] # "start"
      BY <1>1, <1>2, AttemptPair, NoAttemptIsFree DEF LockInv, Request
  <2>3. flock' # Request /\ handler' = NoCore
      BY <1>2, NoAttemptIsFree
  <2>4. \A a \in Attempts : flock' = a => a[1] = j
      BY <1>2
  <2>5. \A a \in Attempts : slot'[a[1]].kind = "manual" /\ pc'[a[1]] = "start" => a[1] = j
      BY <1>4, <2>2
  <2>6. QED
      BY <1>1, <1>3, <1>4, <1>5, <2>1, <2>3, <2>4, <2>5 DEF LockInv, mgr
<1>10. OneActiveJob' /\ OnlyTimeoutsLeaveWork'
  <2>1. OneActiveJob'
      BY <1>1, <1>5 DEF OneActiveJob, Placed
  <2>2. OnlyTimeoutsLeaveWork'
      BY <1>3, AttemptPair DEF OnlyTimeoutsLeaveWork, Live
  <2>3. QED
      BY <2>1, <2>2
<1>11. QED
    BY <1>6, <1>7, <1>8, <1>9, <1>10 DEF IInv

\* A handler that finds a job running gives the lock back.
LEMMA ManualRefuseIInv ==
  ASSUME IInv, ManualRefuse
  PROVE  IInv'
<1> TypeOK /\ LockInv
    BY DEF IInv
<1> HIDE DEF Attempts
<1>1. UNCHANGED <<status, errCode, slot, latest, pc, retry, last, phase, outcome, expired, sem>>
    BY DEF ManualRefuse, jobVars, attemptVars
<1>2. flock = Request /\ flock' = Free /\ handler' = NoCore
    BY DEF ManualRefuse, LockInv
<1>3. TypeOK'
    BY <1>1, <1>2 DEF TypeOK
<1>4. LockInv'
  <2>1. \A a \in Attempts : phase[a] # "work" /\ ~(slot[a[1]].kind = "manual" /\ pc[a[1]] = "start")
      BY <1>2, FirstTry, NoAttemptIsFree DEF LockInv
  <2>2. QED
      BY <1>1, <1>2, <2>1, NoAttemptIsFree DEF LockInv, mgr
<1>5. PcShows' /\ Placed' /\ InOrder' /\ OneActiveJob' /\ OnlyTimeoutsLeaveWork'
    BY <1>1 DEF IInv, PcShows, Placed, InOrder, OneActiveJob, OnlyTimeoutsLeaveWork, Live
<1>6. QED
    BY <1>3, <1>4, <1>5 DEF IInv

\* markRunning: the attempt that begins is the first, or follows one that has ended.
LEMMA StartAttemptIInv ==
  ASSUME IInv, NEW j \in Jobs, pc[j] \in {"start", "delay"}, startAttempt(j)
  PROVE  IInv'
<1> TypeOK /\ PcShows /\ Placed /\ InOrder /\ LockInv /\ OneActiveJob /\ OnlyTimeoutsLeaveWork
    BY DEF IInv
<1>1. status[j] \in {"queued", "retrying"}
    BY DEF PcShows
<1>2. \A a \in Attempts : a = Current(j) <=> a[1] = j /\ a[2] = retry[j]
    BY CurrentAttempt
<1>3. Current(j) \in Attempts /\ phase[Current(j)] = "none"
    BY CurrentAttempt DEF InOrder
<1>4. FirstPhase(j) \in {"work", "sem"} /\ (FirstPhase(j) = "work" <=> slot[j].kind = "manual")
    BY DEF FirstPhase
<1> HIDE DEF Attempts
<1>5. /\ \A a \in Attempts : a # Current(j) => phase'[a] = phase[a]
      /\ phase'[Current(j)] = FirstPhase(j)
      /\ \A a \in Attempts : a[1] # j => pc'[a[1]] = pc[a[1]] /\ status'[a[1]] = status[a[1]]
      /\ pc'[j] = "attempt" /\ status'[j] = "running"
    BY <1>3, AttemptPair DEF startAttempt, TypeOK
<1>6. UNCHANGED <<errCode, slot, latest, retry, sem, flock, handler>>
    BY DEF startAttempt, lockVars
<1>7. TypeOK'
    BY <1>3, <1>4 DEF TypeOK, startAttempt, lockVars
<1>8. PcShows' /\ Placed'
  <2>1. \A k \in Jobs : k # j => status'[k] = status[k] /\ pc'[k] = pc[k]
      BY DEF startAttempt, TypeOK
  <2>2. PcShows'
      BY <1>5, <2>1 DEF PcShows
  <2>3. Placed'
      BY <1>1, <1>5, <1>6, <2>1 DEF Placed, MaxRetriesOf
  <2>4. QED
      BY <2>2, <2>3
<1>9. InOrder'
  <2> SUFFICES ASSUME NEW a \in Attempts
               PROVE  /\ a[2] < retry[a[1]] => phase'[a] = "ended"
                      /\ a[2] > retry[a[1]] => phase'[a] = "none"
                      /\ pc'[a[1]] \in {"none", "start", "delay"} /\ a[2] = retry[a[1]]
                            => phase'[a] = "none"
                      /\ slot[a[1]].kind = "manual" => phase'[a] \notin {"sem", "flock"}
      BY <1>6 DEF InOrder
  <2>1. CASE a = Current(j)
      BY <1>2, <1>4, <1>5, <2>1, AttemptPair, MaxRetriesAssumption DEF TypeOK
  <2>2. CASE a # Current(j)
      BY <1>2, <1>5, <2>2 DEF InOrder
  <2>3. QED
      BY <2>1, <2>2
<1>10. LockInv'
  <2>1. CASE slot[j].kind = "manual"
    <3>1. retry[j] = 0 /\ pc[j] = "start"
        BY <2>1, MaxRetriesAssumption DEF Placed, TypeOK, MaxRetriesOf
    <3>2. flock = Current(j)
        BY <1>3, <2>1, <3>1, CurrentAttempt DEF LockInv, Current
    <3>3. \A m \in Managers : sem[m] # Current(j)
        BY <1>3 DEF LockInv
    <3>4. QED
        BY <1>2, <1>3, <1>4, <1>5, <1>6, <2>1, <3>2, <3>3 DEF LockInv, mgr
  <2>2. CASE slot[j].kind = "auto"
    <3>1. flock # Current(j) /\ \A m \in Managers : sem[m] # Current(j)
        BY <1>2, <1>3, <2>2 DEF LockInv
    <3>2. QED
        BY <1>2, <1>3, <1>4, <1>5, <1>6, <2>2, <3>1 DEF LockInv, mgr
  <2>3. QED
      BY <2>1, <2>2 DEF TypeOK
<1>11. OneActiveJob'
    BY <1>1, <1>6 DEF OneActiveJob, TypeOK, startAttempt
<1>12. OnlyTimeoutsLeaveWork'
    BY <1>2, <1>5, <1>6 DEF OnlyTimeoutsLeaveWork, Live
<1>13. QED
    BY <1>7, <1>8, <1>9, <1>10, <1>11, <1>12 DEF IInv

\* A result is final or leads to the wait for the attempt's end.
LEMMA ConcludeIInv ==
  ASSUME IInv, NEW j \in Jobs, NEW code \in Codes, pc[j] = "attempt", Conclude(j, code),
         phase[Current(j)] = "ended" \/ code = "apply_timeout"
  PROVE  IInv'
<1> TypeOK /\ PcShows /\ Placed /\ InOrder /\ LockInv /\ OneActiveJob /\ OnlyTimeoutsLeaveWork
    BY DEF IInv
<1>1. status[j] = "running"
    BY DEF PcShows
<1>2. UNCHANGED <<slot, latest, retry, phase, outcome, expired, sem, flock, handler>>
    BY DEF Conclude, markSucceeded, markFailed, attemptVars, lockVars
<1>3. \/ status' = [status EXCEPT ![j] = "succeeded"] /\ code = "ok"
         /\ errCode' = [errCode EXCEPT ![j] = NoError]
         /\ pc' = [pc EXCEPT ![j] = "done"] /\ last' = last
      \/ status' = [status EXCEPT ![j] = "failed"]
         /\ errCode' = [errCode EXCEPT ![j] = code]
         /\ pc' = [pc EXCEPT ![j] = "done"] /\ last' = last
      \/ status' = status /\ errCode' = errCode /\ MayRetry(j, code)
         /\ pc' = [pc EXCEPT ![j] = "cleanup"]
         /\ last' = [last EXCEPT ![j] = code]
    BY DEF Conclude, markSucceeded, markFailed
<1>4. \A k \in Jobs : k # j =>
          pc'[k] = pc[k] /\ status'[k] = status[k] /\ errCode'[k] = errCode[k]
    BY <1>3 DEF TypeOK
<1>5. \/ pc'[j] = "done" /\ status'[j] \in Terminal
      \/ pc'[j] = "cleanup" /\ status'[j] = "running" /\ MayRetry(j, code)
    BY <1>1, <1>3 DEF TypeOK
<1>6. \A a \in Attempts : a[1] = j /\ phase[a] \notin {"none", "ended"} =>
          a = Current(j) /\ code = "apply_timeout"
    BY CurrentAttempt, AttemptPair, MaxRetriesAssumption DEF InOrder, TypeOK
<1>7. status'[j] \in Terminal /\ code = "apply_timeout" =>
          status'[j] = "failed" /\ errCode'[j] = "apply_timeout"
    BY <1>1, <1>3 DEF TypeOK
<1> HIDE DEF Attempts
<1>8. TypeOK'
  <2>1. /\ status' \in [Jobs -> {"none"} \cup Active \cup Terminal]
        /\ pc' \in [Jobs -> {"none", "start", "attempt", "cleanup", "delay", "done"}]
      BY <1>3 DEF TypeOK
  <2>2. NoError \in Codes
      BY DEF Codes
  <2>3. errCode' \in [Jobs -> Codes] /\ last' \in [Jobs -> Codes]
      BY <1>3, <2>2 DEF TypeOK
  <2>4. QED
      BY <1>2, <2>1, <2>3 DEF TypeOK
<1>9. PcShows'
    BY <1>4, <1>5 DEF PcShows
<1>10. Placed'
    BY <1>1, <1>2, <1>4, <1>5 DEF Placed, MayRetry
<1>11. InOrder'
    BY <1>2, <1>4, <1>5, AttemptPair DEF InOrder
<1>12. LockInv'
    BY <1>2, <1>4, <1>5, AttemptPair DEF LockInv, mgr
<1>13. OneActiveJob'
    BY <1>1, <1>2, <1>4, <1>5 DEF OneActiveJob
<1>14. OnlyTimeoutsLeaveWork'
    BY <1>2, <1>4, <1>6, <1>7, AttemptPair DEF OnlyTimeoutsLeaveWork, Live
<1>15. QED
    BY <1>8, <1>9, <1>10, <1>11, <1>12, <1>13, <1>14 DEF IInv

\* A job gives up an attempt that does not end; its error says so.
LEMMA CleanupTimeoutIInv ==
  ASSUME IInv, NEW j \in Jobs, CleanupTimeout(j)
  PROVE  IInv'
<1> TypeOK /\ PcShows /\ Placed /\ InOrder /\ LockInv /\ OneActiveJob /\ OnlyTimeoutsLeaveWork
    BY DEF IInv
<1>1. status[j] = "running" /\ pc[j] = "cleanup"
    BY DEF CleanupTimeout, PcShows
<1>2. UNCHANGED <<slot, latest, retry, phase, outcome, expired, sem, flock, handler>>
    BY DEF CleanupTimeout, markFailed, attemptVars, lockVars
<1>3. \A k \in Jobs : k # j =>
          pc'[k] = pc[k] /\ status'[k] = status[k] /\ errCode'[k] = errCode[k]
    BY DEF CleanupTimeout, markFailed, TypeOK
<1>4. pc'[j] = "done" /\ status'[j] = "failed" /\ errCode'[j] = "apply_cleanup_timeout"
    BY DEF CleanupTimeout, markFailed, TypeOK
<1> HIDE DEF Attempts
<1>5. TypeOK'
    BY <1>2 DEF TypeOK, CleanupTimeout, markFailed, Codes
<1>6. PcShows' /\ Placed'
    BY <1>1, <1>2, <1>3, <1>4 DEF PcShows, Placed
<1>7. InOrder'
    BY <1>2, <1>3, <1>4, AttemptPair DEF InOrder
<1>8. LockInv'
    BY <1>1, <1>2, <1>3, <1>4, AttemptPair DEF LockInv, mgr
<1>9. OneActiveJob' /\ OnlyTimeoutsLeaveWork'
    BY <1>1, <1>2, <1>3, <1>4, AttemptPair DEF OneActiveJob, OnlyTimeoutsLeaveWork, Live
<1>10. QED
    BY <1>5, <1>6, <1>7, <1>8, <1>9 DEF IInv

\* markRetrying: the attempt before has ended, the next has not begun.
LEMMA CleanedIInv ==
  ASSUME IInv, NEW j \in Jobs, Cleaned(j)
  PROVE  IInv'
<1> TypeOK /\ PcShows /\ Placed /\ InOrder /\ LockInv /\ OneActiveJob /\ OnlyTimeoutsLeaveWork
    BY DEF IInv
<1>1. status[j] = "running" /\ retry[j] < MaxRetriesOf(slot[j].kind) /\ pc[j] = "cleanup"
    BY DEF Cleaned, PcShows, Placed
<1>2. slot[j].kind = "auto" /\ retry[j] + 1 \in 0 .. MaxRetries /\ retry[j] \in Nat
  <2>1. slot[j].kind \in {"auto", "manual"} /\ retry[j] \in 0 .. MaxRetries
      BY DEF TypeOK
  <2>2. QED
      BY <1>1, <2>1, MaxRetriesAssumption DEF MaxRetriesOf
<1>3. UNCHANGED <<slot, latest, phase, outcome, expired, sem, flock, handler>>
    BY DEF Cleaned, attemptVars, lockVars
<1>4. \A k \in Jobs : k # j => /\ pc'[k] = pc[k]
                                /\ status'[k] = status[k]
                                /\ errCode'[k] = errCode[k]
                                /\ retry'[k] = retry[k]
    BY DEF Cleaned, TypeOK
<1>5. pc'[j] = "delay" /\ status'[j] = "retrying" /\ retry'[j] = retry[j] + 1
    BY DEF Cleaned, TypeOK
<1>6. \A a \in Attempts : a[1] = j => \/ a[2] <= retry[j] /\ phase[a] = "ended"
                                      \/ a[2] > retry[j] /\ phase[a] = "none"
    BY CurrentAttempt, AttemptPair, MaxRetriesAssumption DEF InOrder, TypeOK, Cleaned
<1> HIDE DEF Attempts
<1>7. TypeOK'
    BY <1>2, <1>3 DEF TypeOK, Cleaned
<1>8. PcShows'
    BY <1>4, <1>5 DEF PcShows
<1>9. Placed'
    BY <1>1, <1>2, <1>3, <1>4, <1>5, MaxRetriesAssumption DEF Placed, MaxRetriesOf
<1>10. InOrder'
  <2> SUFFICES ASSUME NEW a \in Attempts
               PROVE  /\ a[2] < retry'[a[1]] => phase[a] = "ended"
                      /\ a[2] > retry'[a[1]] => phase[a] = "none"
                      /\ pc'[a[1]] \in {"none", "start", "delay"} /\ a[2] = retry'[a[1]]
                            => phase[a] = "none"
                      /\ slot[a[1]].kind = "manual" => phase[a] \notin {"sem", "flock"}
      BY <1>3 DEF InOrder
  <2>1. CASE a[1] = j
      BY <1>2, <1>5, <1>6, <2>1, AttemptPair, MaxRetriesAssumption
  <2>2. CASE a[1] # j
      BY <1>4, <2>2, AttemptPair DEF InOrder
  <2>3. QED
      BY <2>1, <2>2
<1>11. LockInv'
    BY <1>2, <1>3, <1>4, <1>5, AttemptPair DEF LockInv, mgr
<1>12. OneActiveJob'
    BY <1>1, <1>3, <1>4, <1>5 DEF OneActiveJob
<1>13. OnlyTimeoutsLeaveWork'
    BY <1>3, <1>4, <1>5, AttemptPair DEF OnlyTimeoutsLeaveWork, Live
<1>14. QED
    BY <1>7, <1>8, <1>9, <1>10, <1>11, <1>12, <1>13 DEF IInv

\* expired is in no part of the invariant but TypeOK.
LEMMA DeadlineIInv ==
  ASSUME IInv, NEW j \in Jobs, Deadline(j)
  PROVE  IInv'
<1> TypeOK /\ PcShows /\ Placed /\ InOrder /\ LockInv /\ OneActiveJob /\ OnlyTimeoutsLeaveWork
    BY DEF IInv
<1>1. UNCHANGED <<status, errCode, slot, latest, pc, retry, last, phase, outcome, sem, flock, handler>>
    BY DEF Deadline, jobVars, lockVars
<1>2. TypeOK'
    BY <1>1, CurrentAttempt DEF TypeOK, Deadline
<1>3. PcShows' /\ Placed' /\ InOrder' /\ LockInv' /\ OneActiveJob' /\ OnlyTimeoutsLeaveWork'
    BY <1>1 DEF PcShows, Placed, InOrder, LockInv, mgr, OneActiveJob, OnlyTimeoutsLeaveWork, Live
<1>4. QED
    BY <1>2, <1>3 DEF IInv

\* What a step of an attempt cannot disturb: all but the locks.
LEMMA AttemptStep ==
  ASSUME IInv, NEW a \in Attempts, Live(a), NEW p \in {"flock", "work", "return", "ended"},
         phase' = [phase EXCEPT ![a] = p], slot[a[1]].kind = "manual" => p # "flock",
         UNCHANGED <<status, errCode, slot, latest, pc, retry>>
  PROVE  /\ PcShows' /\ Placed' /\ InOrder' /\ OneActiveJob' /\ OnlyTimeoutsLeaveWork'
         /\ phase'[a] = p
         /\ \A b \in Attempts : b # a => phase'[b] = phase[b]
         /\ phase' \in [Attempts -> {"none", "sem", "flock", "work", "return", "ended"}]
         /\ \A b \in Attempts : mgr(b)' = mgr(b)
<1> TypeOK /\ PcShows /\ Placed /\ InOrder /\ OneActiveJob /\ OnlyTimeoutsLeaveWork
    BY DEF IInv
<1> HIDE DEF Attempts
<1>1. /\ phase'[a] = p
      /\ \A b \in Attempts : b # a => phase'[b] = phase[b]
      /\ phase' \in [Attempts -> {"none", "sem", "flock", "work", "return", "ended"}]
    BY DEF TypeOK
<1>2. PcShows' /\ Placed' /\ OneActiveJob'
    BY DEF PcShows, Placed, OneActiveJob
<1>3. ~(a[2] < retry[a[1]]) /\ ~(a[2] > retry[a[1]])
      /\ ~(pc[a[1]] \in {"none", "start", "delay"} /\ a[2] = retry[a[1]])
    BY DEF InOrder, Live
<1>4. InOrder'
    BY <1>1, <1>3 DEF InOrder
<1>5. OnlyTimeoutsLeaveWork'
    BY <1>1 DEF OnlyTimeoutsLeaveWork, Live
<1>6. \A b \in Attempts : mgr(b)' = mgr(b)
    BY DEF mgr
<1>7. QED
    BY <1>1, <1>2, <1>4, <1>5, <1>6

\* An attempt enters applySem when it is free.
LEMMA AcquireSemIInv ==
  ASSUME IInv, NEW a \in Attempts, AcquireSem(a)
  PROVE  IInv'
<1> TypeOK /\ PcShows /\ Placed /\ InOrder /\ LockInv /\ OneActiveJob /\ OnlyTimeoutsLeaveWork
    BY DEF IInv
<1>1. phase[a] = "sem" /\ sem[mgr(a)] = Free
    BY DEF AcquireSem
<1>2. UNCHANGED <<status, errCode, slot, latest, pc, retry, last, outcome, expired, flock, handler>>
    BY DEF AcquireSem, jobVars
<1>3. slot[a[1]].kind = "auto" /\ status[a[1]] # "none" /\ mgr(a) \in Managers
    BY <1>1, AttemptPair, Begun DEF InOrder, TypeOK
<1> HIDE DEF Attempts
<1>4. phase'[a] = "flock" /\ \A b \in Attempts : b # a => phase'[b] = phase[b]
    BY DEF AcquireSem, TypeOK
<1>5. sem'[mgr(a)] = a /\ \A m \in Managers : m # mgr(a) => sem'[m] = sem[m]
    BY <1>3 DEF AcquireSem, TypeOK
<1>6. \A b \in Attempts : mgr(b)' = mgr(b)
    BY <1>2 DEF mgr
<1>7. TypeOK'
    BY <1>2, <1>3 DEF TypeOK, AcquireSem
<1>8. PcShows' /\ Placed' /\ OneActiveJob'
    BY <1>2 DEF PcShows, Placed, OneActiveJob
<1>9. InOrder'
    BY <1>1, <1>2, <1>3, <1>4, AttemptPair DEF InOrder
<1>10. LockInv'
  <2>1. \A b \in Attempts : phase[b] = "flock" \/ (phase[b] = "work" /\ slot[b[1]].kind = "auto")
                               => mgr(b) # mgr(a)
      BY <1>1, NoAttemptIsFree DEF LockInv
  <2>2. \A b \in Attempts :
          /\ phase'[b] = "work" => flock = b
          /\ flock = b => \/ phase'[b] = "work"
                          \/ slot[b[1]].kind = "manual" /\ pc[b[1]] = "start"
          /\ slot[b[1]].kind = "manual" /\ pc[b[1]] = "start" => flock = <<b[1], 0>>
      BY <1>1, <1>3, <1>4 DEF LockInv
  <2>3. \A b \in Attempts : phase'[b] = "flock" \/ (phase'[b] = "work" /\ slot[b[1]].kind = "auto")
                               => sem'[mgr(b)] = b
      BY <1>4, <1>5, <2>1, Begun DEF LockInv
  <2>4. \A b \in Attempts : \A m \in Managers : sem'[m] = b =>
                /\ phase'[b] \in {"flock", "work"}
                /\ mgr(b) = m
                /\ slot[b[1]].kind = "auto"
      BY <1>1, <1>3, <1>4, <1>5 DEF LockInv
  <2>5. QED
      BY <1>2, <1>6, <2>2, <2>3, <2>4 DEF LockInv
<1>11. OnlyTimeoutsLeaveWork'
    BY <1>1, <1>2, <1>4 DEF OnlyTimeoutsLeaveWork, Live
<1>12. QED
    BY <1>7, <1>8, <1>9, <1>10, <1>11 DEF IInv

\* An attempt whose deadline passed while it waited holds nothing.
LEMMA SemCancelledIInv ==
  ASSUME IInv, NEW a \in Attempts, SemCancelled(a)
  PROVE  IInv'
<1> TypeOK /\ LockInv /\ InOrder
    BY DEF IInv
<1> HIDE DEF Attempts
<1>1. /\ phase[a] = "sem" /\ Live(a) /\ phase' = [phase EXCEPT ![a] = "return"]
    BY DEF SemCancelled, return, Live
<1>2. UNCHANGED <<status, errCode, slot, latest, pc, retry, last, expired, sem, flock, handler>>
    BY DEF SemCancelled, return, jobVars, lockVars
<1>3. /\ PcShows' /\ Placed' /\ InOrder' /\ OneActiveJob' /\ OnlyTimeoutsLeaveWork'
      /\ phase'[a] = "return" /\ \A b \in Attempts : b # a => phase'[b] = phase[b]
      /\ phase' \in [Attempts -> {"none", "sem", "flock", "work", "return", "ended"}]
      /\ \A b \in Attempts : mgr(b)' = mgr(b)
    BY <1>1, <1>2, AttemptStep
<1>4. TypeOK'
    BY <1>2, <1>3 DEF TypeOK, SemCancelled, return, Codes
<1>5. LockInv'
    BY <1>1, <1>2, <1>3 DEF LockInv
<1>6. QED
    BY <1>3, <1>4, <1>5 DEF IInv

\* An attempt goes to work when apply.lock is free, so it works alone.
LEMMA TryAcquireIInv ==
  ASSUME IInv, NEW a \in Attempts, TryAcquire(a)
  PROVE  IInv'
<1> TypeOK /\ LockInv /\ InOrder
    BY DEF IInv
<1> HIDE DEF Attempts
<1>1. /\ phase[a] = "flock" /\ Live(a) /\ phase' = [phase EXCEPT ![a] = "work"]
      /\ flock = Free /\ flock' = a
    BY DEF TryAcquire, Live
<1>2. UNCHANGED <<status, errCode, slot, latest, pc, retry, last, outcome, expired, sem, handler>>
    BY DEF TryAcquire, jobVars, lockVars
<1>3. /\ PcShows' /\ Placed' /\ InOrder' /\ OneActiveJob' /\ OnlyTimeoutsLeaveWork'
      /\ phase'[a] = "work" /\ \A b \in Attempts : b # a => phase'[b] = phase[b]
      /\ phase' \in [Attempts -> {"none", "sem", "flock", "work", "return", "ended"}]
      /\ \A b \in Attempts : mgr(b)' = mgr(b)
    BY <1>1, <1>2, AttemptStep
<1>4. TypeOK'
    BY <1>1, <1>2, <1>3 DEF TypeOK
<1>5. LockInv'
  <2>1. \A b \in Attempts : phase[b] # "work"
      BY <1>1, NoAttemptIsFree DEF LockInv
  <2>2. \A b \in Attempts : ~(slot[b[1]].kind = "manual" /\ pc[b[1]] = "start")
      BY <1>1, FirstTry, NoAttemptIsFree DEF LockInv
  <2>3. flock' # Request /\ handler' = NoCore
      BY <1>1, <1>2, NoAttemptIsFree DEF LockInv
  <2>4. QED
      BY <1>1, <1>2, <1>3, <2>1, <2>2, <2>3 DEF LockInv
<1>6. QED
    BY <1>3, <1>4, <1>5 DEF IInv

\* An attempt that finds apply.lock busy leaves applySem.
LEMMA AcquireFailsIInv ==
  ASSUME IInv, NEW a \in Attempts, AcquireFails(a)
  PROVE  IInv'
<1> TypeOK /\ LockInv /\ InOrder
    BY DEF IInv
<1> HIDE DEF Attempts
<1>1. /\ phase[a] = "flock" /\ Live(a) /\ phase' = [phase EXCEPT ![a] = "return"]
    BY DEF AcquireFails, return, Live
<1>2. UNCHANGED <<status, errCode, slot, latest, pc, retry, last, expired, flock, handler>>
    BY DEF AcquireFails, return, jobVars, lockVars
<1>3. /\ PcShows' /\ Placed' /\ InOrder' /\ OneActiveJob' /\ OnlyTimeoutsLeaveWork'
      /\ phase'[a] = "return" /\ \A b \in Attempts : b # a => phase'[b] = phase[b]
      /\ phase' \in [Attempts -> {"none", "sem", "flock", "work", "return", "ended"}]
      /\ \A b \in Attempts : mgr(b)' = mgr(b)
    BY <1>1, <1>2, AttemptStep
<1>4. mgr(a) \in Managers /\ sem[mgr(a)] = a
    BY <1>1, Begun DEF LockInv
<1>5. sem'[mgr(a)] = Free /\ \A m \in Managers : m # mgr(a) => sem'[m] = sem[m]
    BY <1>4 DEF AcquireFails, TypeOK
<1>6. sem' \in [Managers -> Attempts \cup {Free}] /\ outcome' \in [Attempts -> Codes]
    BY DEF AcquireFails, return, TypeOK, Codes
<1>7. TypeOK'
    BY <1>2, <1>3, <1>6 DEF TypeOK
<1>8. LockInv'
  <2>1. \A b \in Attempts : phase'[b] = "flock" \/ (phase'[b] = "work" /\ slot[b[1]].kind = "auto")
                               => sem'[mgr(b)] = b
      BY <1>3, <1>4, <1>5, Begun DEF LockInv
  <2>2. \A b \in Attempts : \A m \in Managers : sem'[m] = b =>
                /\ phase'[b] \in {"flock", "work"}
                /\ mgr(b) = m
                /\ slot[b[1]].kind = "auto"
      BY <1>3, <1>4, <1>5, NoAttemptIsFree DEF LockInv
  <2>3. QED
      BY <1>1, <1>2, <1>3, <2>1, <2>2 DEF LockInv
<1>9. QED
    BY <1>3, <1>7, <1>8 DEF IInv

\* The deferred calls release both locks of the attempt that worked.
LEMMA FinishWorkIInv ==
  ASSUME IInv, NEW a \in Attempts, NEW code \in WorkCodes, FinishWork(a, code)
  PROVE  IInv'
<1> TypeOK /\ PcShows /\ Placed /\ InOrder /\ LockInv /\ OneActiveJob /\ OnlyTimeoutsLeaveWork
    BY DEF IInv
<1>1. phase[a] = "work"
    BY DEF FinishWork
<1>2. UNCHANGED <<status, errCode, slot, latest, pc, retry, last, expired, handler>> /\ flock' = Free
    BY DEF FinishWork, return, jobVars
<1>3. flock = a
    BY <1>1 DEF LockInv
<1>4. status[a[1]] # "none" /\ mgr(a) \in Managers /\ slot[a[1]].kind \in {"auto", "manual"}
    BY <1>1, AttemptPair, Begun DEF TypeOK
<1> HIDE DEF Attempts
<1>5. phase'[a] = "return" /\ \A b \in Attempts : b # a => phase'[b] = phase[b]
    BY DEF FinishWork, return, TypeOK
<1>6. \/ slot[a[1]].kind = "manual" /\ sem' = sem
      \/ /\ slot[a[1]].kind = "auto" /\ sem[mgr(a)] = a
         /\ sem'[mgr(a)] = Free
         /\ \A m \in Managers : m # mgr(a) => sem'[m] = sem[m]
    BY <1>1, <1>4 DEF FinishWork, TypeOK, LockInv
<1>7. \A b \in Attempts : mgr(b)' = mgr(b)
    BY <1>2 DEF mgr
<1>8. TypeOK'
  <2>1. sem' \in [Managers -> Attempts \cup {Free}]
      BY <1>4 DEF TypeOK, FinishWork
  <2>2. outcome' \in [Attempts -> Codes] /\ phase' \in [Attempts -> {"none", "sem", "flock", "work", "return", "ended"}]
      BY DEF TypeOK, FinishWork, return, Codes
  <2>3. QED
      BY <1>2, <2>1, <2>2 DEF TypeOK
<1>9. PcShows' /\ Placed' /\ OneActiveJob'
    BY <1>2 DEF PcShows, Placed, OneActiveJob
<1>10. InOrder'
    BY <1>1, <1>2, <1>5, AttemptPair DEF InOrder
<1>11. LockInv'
  <2>1. \A b \in Attempts : phase'[b] # "work" /\ flock' # b
      BY <1>2, <1>3, <1>5, NoAttemptIsFree DEF LockInv
  <2>2. \A b \in Attempts : slot[b[1]].kind = "manual" => pc[b[1]] # "start"
    <3> SUFFICES ASSUME NEW b \in Attempts, slot[b[1]].kind = "manual", pc[b[1]] = "start"
                 PROVE  FALSE
        OBVIOUS
    <3>1. a = <<b[1], 0>>
        BY <1>3 DEF LockInv
    <3>2. pc[a[1]] = "start" /\ a[2] = 0
        BY <3>1
    <3>3. retry[a[1]] = 0
        BY <3>2, AttemptPair DEF Placed
    <3>4. QED
        BY <1>1, <3>2, <3>3 DEF InOrder
  <2>3. \A b \in Attempts : phase'[b] = "flock" => sem'[mgr(b)] = b
    <3> SUFFICES ASSUME NEW b \in Attempts, phase'[b] = "flock"
                 PROVE  sem'[mgr(b)] = b
        OBVIOUS
    <3>1. b # a /\ phase[b] = "flock"
        BY <1>5
    <3>2. mgr(b) \in Managers /\ sem[mgr(b)] = b
        BY <3>1, Begun DEF LockInv
    <3>3. QED
        BY <1>6, <3>1, <3>2
  <2>4. \A b \in Attempts : \A m \in Managers : sem'[m] = b =>
                /\ phase'[b] \in {"flock", "work"}
                /\ mgr(b) = m
                /\ slot[b[1]].kind = "auto"
      BY <1>4, <1>5, <1>6, NoAttemptIsFree DEF LockInv
  <2>5. flock' # Request /\ handler' = NoCore
      BY <1>2, <1>3, NoAttemptIsFree DEF LockInv
  <2>6. QED
      BY <1>2, <1>7, <2>1, <2>2, <2>3, <2>4, <2>5 DEF LockInv
<1>12. OnlyTimeoutsLeaveWork'
    BY <1>1, <1>2, <1>5 DEF OnlyTimeoutsLeaveWork, Live
<1>13. QED
    BY <1>8, <1>9, <1>10, <1>11, <1>12 DEF IInv

\* An attempt that returned holds no lock.
LEMMA DeliverIInv ==
  ASSUME IInv, NEW a \in Attempts, Deliver(a)
  PROVE  IInv'
<1> TypeOK /\ LockInv /\ InOrder
    BY DEF IInv
<1> HIDE DEF Attempts
<1>1. /\ phase[a] = "return" /\ Live(a) /\ phase' = [phase EXCEPT ![a] = "ended"]
    BY DEF Deliver, Live
<1>2. UNCHANGED <<status, errCode, slot, latest, pc, retry, last, outcome, expired, sem, flock, handler>>
    BY DEF Deliver, jobVars, lockVars
<1>3. /\ PcShows' /\ Placed' /\ InOrder' /\ OneActiveJob' /\ OnlyTimeoutsLeaveWork'
      /\ phase'[a] = "ended" /\ \A b \in Attempts : b # a => phase'[b] = phase[b]
      /\ phase' \in [Attempts -> {"none", "sem", "flock", "work", "return", "ended"}]
      /\ \A b \in Attempts : mgr(b)' = mgr(b)
    BY <1>1, <1>2, AttemptStep
<1>4. TypeOK'
    BY <1>2, <1>3 DEF TypeOK
<1>5. LockInv'
    BY <1>1, <1>2, <1>3 DEF LockInv
<1>6. QED
    BY <1>3, <1>4, <1>5 DEF IInv

\* A restart leads to a state the process can begin in.
LEMMA RestartIInv == Restart => IInv'
<1>1. Restart => Init'
    BY DEF Restart, Init
<1>2. QED
    BY <1>1, InitIInv, PTL

\* No action breaks the invariant.
LEMMA NextIInv == IInv /\ [Next]_vars => IInv'
<1> SUFFICES ASSUME IInv, [Next]_vars PROVE IInv'
    OBVIOUS
<1>1. CASE Requests
  <2>1. CASE \E m \in Managers, c \in Cores, j \in Jobs : IdLeftBeside(j) /\ EnqueueAuto(m, c, j)
      BY <2>1, EnqueueAutoIInv
  <2>2. CASE "router" \in Managers /\ IdLeft /\ \E c \in Cores : ManualLock(c)
      BY <2>2, ManualLockIInv
  <2>3. QED
      BY <1>1, <2>1, <2>2 DEF Requests
<1>2. CASE HandlerStep
    BY <1>2, ManualRefuseIInv, ManualStartIInv DEF HandlerStep
<1>3. CASE \E j \in Jobs : RunnerStep(j)
  <2> SUFFICES ASSUME NEW j \in Jobs, RunnerStep(j) PROVE IInv'
      BY <1>3
  <2>1. CASE Run(j) \/ RetryTimer(j)
      BY <2>1, StartAttemptIInv DEF Run, RetryTimer
  <2>2. CASE TakeResult(j)
    <3>1. Current(j) \in Attempts /\ outcome[Current(j)] \in Codes
        BY CurrentAttempt DEF IInv, TypeOK
    <3>2. QED
        BY <2>2, <3>1, ConcludeIInv DEF TakeResult
  <2>3. CASE TakeTimeout(j)
    <3>1. "apply_timeout" \in Codes
        BY DEF Codes
    <3>2. QED
        BY <2>3, <3>1, ConcludeIInv DEF TakeTimeout
  <2>4. CASE Cleaned(j)
      BY <2>4, CleanedIInv
  <2>5. CASE CleanupTimeout(j)
      BY <2>5, CleanupTimeoutIInv
  <2>6. CASE Deadline(j)
      BY <2>6, DeadlineIInv
  <2>7. QED
      BY <2>1, <2>2, <2>3, <2>4, <2>5, <2>6 DEF RunnerStep
<1>4. CASE \E a \in Attempts : LockStep(a) \/ \E code \in WorkCodes : FinishWork(a, code)
  <2> SUFFICES ASSUME NEW a \in Attempts,
                      LockStep(a) \/ \E code \in WorkCodes : FinishWork(a, code)
               PROVE  IInv'
      BY <1>4
  <2> HIDE DEF Attempts
  <2>1. CASE AcquireSem(a)
      BY <2>1, AcquireSemIInv
  <2>2. CASE SemCancelled(a)
      BY <2>2, SemCancelledIInv
  <2>3. CASE TryAcquire(a)
      BY <2>3, TryAcquireIInv
  <2>4. CASE AcquireFails(a)
      BY <2>4, AcquireFailsIInv
  <2>5. CASE Deliver(a)
      BY <2>5, DeliverIInv
  <2>6. CASE \E code \in WorkCodes : FinishWork(a, code)
      BY <2>6, FinishWorkIInv
  <2>7. QED
      BY <2>1, <2>2, <2>3, <2>4, <2>5, <2>6 DEF LockStep
<1>5. CASE Restart
    BY <1>5, RestartIInv
<1>6. CASE UNCHANGED vars
  <2>1. UNCHANGED <<status, errCode, slot, latest, pc, retry, last, phase, outcome, expired, sem, flock, handler>>
      BY <1>6 DEF vars, jobVars, attemptVars, lockVars
  <2>2. QED
      BY <2>1 DEF IInv, TypeOK, PcShows, Placed, InOrder, LockInv, mgr, OneActiveJob,
                  OnlyTimeoutsLeaveWork, Live
<1>7. QED
    BY <1>1, <1>2, <1>3, <1>4, <1>5, <1>6 DEF Next

\* The invariant holds of every behaviour, whatever the requests, deadlines,
\* outcomes of the work and restarts.
THEOREM Invariance == Spec => []IInv
BY InitIInv, NextIInv, PTL DEF Spec

\* The manager's maps, its goroutines' places and the locks always hold values
\* of their kinds: no retry counter leaves its range, no lock an unknown holder.
THEOREM TypeCorrect == Spec => []TypeOK
<1>1. IInv => TypeOK
    BY DEF IInv
<1>2. QED
    BY Invariance, <1>1, PTL

\* withApplyLock and the handlers' lock keep the work of two attempts apart,
\* across managers, cores, manual and automatic jobs and abandoned attempts.
THEOREM WorkIsExclusive == Spec => []WorkExclusion
<1>1. IInv => WorkExclusion
  <2> SUFFICES ASSUME IInv, NEW a \in Attempts, phase[a] = "work"
               PROVE  /\ flock = a
                      /\ handler = NoCore
                      /\ \A b \in Attempts : phase[b] = "work" => b = a
      BY DEF WorkExclusion
  <2> HIDE DEF Attempts
  <2>1. flock = a /\ \A b \in Attempts : phase[b] = "work" => flock = b
      BY DEF IInv, LockInv
  <2>2. flock # Request
      BY <2>1, NoAttemptIsFree
  <2>3. QED
      BY <2>1, <2>2 DEF IInv, LockInv
<1>2. QED
    BY Invariance, <1>1, PTL

\* Every holder of apply.lock and of applySem is on the way to releasing it.
THEOREM NoLockLeaks == Spec => []LocksHaveOwners
<1>1. IInv => LocksHaveOwners
    BY AttemptPair DEF IInv, LockInv, PcShows, LocksHaveOwners
<1>2. QED
    BY Invariance, <1>1, PTL

\* waitForCoreApplyAttemptCleanup: a retry never overlaps the attempt before it.
THEOREM AttemptsDoNotOverlap == Spec => []AttemptsInTurn
<1>1. IInv => AttemptsInTurn
    BY AttemptPair, MaxRetriesAssumption DEF IInv, TypeOK, InOrder, AttemptsInTurn, Live
<1>2. QED
    BY Invariance, <1>1, PTL

\* tryStart admits one job per core and manager at a time.
THEOREM JobsAreSingle == Spec => []OneActiveJob
<1>1. IInv => OneActiveJob
    BY DEF IInv
<1>2. QED
    BY Invariance, <1>1, PTL

\* Only a job that failed for a timeout leaves an attempt at work behind.
THEOREM TimeoutsLeaveWork == Spec => []OnlyTimeoutsLeaveWork
<1>1. IInv => OnlyTimeoutsLeaveWork
    BY DEF IInv
<1>2. QED
    BY Invariance, <1>1, PTL

\* A step of another job, or of an attempt, leaves a job that has an end alone.
LEMMA StepKeepsResults ==
  ASSUME IInv, [Next]_vars, NEW j \in Jobs, status[j] \in Terminal
  PROVE  \/ status'[j] = status[j] /\ errCode'[j] = errCode[j]
         \/ \A k \in Jobs : status'[k] = "none"
<1> TypeOK /\ PcShows
    BY DEF IInv
<1>1. pc[j] = "done"
    BY DEF PcShows
<1>2. CASE Requests \/ HandlerStep
    BY <1>2 DEF Requests, HandlerStep, EnqueueAuto, ManualLock, ManualRefuse, ManualStart,
                tryStart, Fresh, jobVars, TypeOK
<1>3. CASE \E k \in Jobs : RunnerStep(k)
  <2> SUFFICES ASSUME NEW k \in Jobs, RunnerStep(k)
               PROVE  status'[j] = status[j] /\ errCode'[j] = errCode[j]
      BY <1>3
  <2>1. CASE Deadline(k)
      BY <2>1 DEF Deadline, jobVars
  <2>2. CASE ~Deadline(k)
    <3>1. k # j
        BY <1>1, <2>2 DEF RunnerStep, Run, TakeResult, TakeTimeout, Cleaned, CleanupTimeout, RetryTimer
    <3>2. \/ startAttempt(k)
          \/ \E code \in Codes : Conclude(k, code)
          \/ Cleaned(k)
          \/ markFailed(k, "apply_cleanup_timeout")
      <4>1. outcome[Current(k)] \in Codes /\ "apply_timeout" \in Codes
          BY CurrentAttempt DEF TypeOK, Codes
      <4>2. QED
          BY <2>2, <4>1 DEF RunnerStep, Run, TakeResult, TakeTimeout, CleanupTimeout, RetryTimer
    <3>3. QED
        BY <3>1, <3>2 DEF startAttempt, Conclude, markSucceeded, markFailed, Cleaned, TypeOK
  <2>3. QED
      BY <2>1, <2>2
<1>4. CASE \E a \in Attempts : LockStep(a) \/ \E code \in WorkCodes : FinishWork(a, code)
    BY <1>4 DEF LockStep, AcquireSem, SemCancelled, TryAcquire, AcquireFails, Deliver, FinishWork,
                return, jobVars
<1>5. CASE Restart
    BY <1>5 DEF Restart
<1>6. CASE UNCHANGED vars
    BY <1>6 DEF vars, jobVars
<1>7. QED
    BY <1>2, <1>3, <1>4, <1>5, <1>6 DEF Next

\* A late result never changes the end of a job: what its client was told is final.
THEOREM ResultsStay == Spec => ResultsAreFinal
<1>1. IInv /\ [Next]_vars =>
        [\A j \in Jobs : status[j] \in Terminal =>
          \/ status'[j] = status[j] /\ errCode'[j] = errCode[j]
          \/ \A k \in Jobs : status'[k] = "none"]_vars
    BY StepKeepsResults
<1>2. QED
    BY Invariance, <1>1, PTL DEF Spec, ResultsAreFinal

-----------------------------------------------------------------------------
(* ApplyJobs implements JobLifecycle under the refinement mapping of         *)
(* ApplyJobs: a job's tries are counted from its goroutine's place, and the  *)
(* job at work is that of the one attempt in phase "work".                   *)

\* NoJob is no job's id.
LEMMA JobIds == \A j \in Jobs : j # NoJob
BY MaxJobsAssumption DEF Jobs, NoJob

\* The one attempt of a job that may be under way is its current one.
LEMMA OnlyCurrentLives ==
  ASSUME IInv, NEW a \in Attempts, Live(a)
  PROVE  a = Current(a[1]) /\ a[2] = retry[a[1]]
<1>1. a[1] \in Jobs /\ a[2] \in 0 .. MaxRetries /\ retry[a[1]] \in 0 .. MaxRetries
    BY AttemptPair DEF IInv, TypeOK
<1>2. ~(a[2] < retry[a[1]]) /\ ~(a[2] > retry[a[1]])
    BY DEF Live, IInv, InOrder
<1>3. a[2] = retry[a[1]]
    BY <1>1, <1>2, MaxRetriesAssumption
<1>4. QED
    BY <1>1, <1>3, CurrentAttempt DEF IInv

\* A job whose current attempt has ended has nothing at work.
LEMMA EndedIsNotAtWork ==
  ASSUME IInv, NEW j \in Jobs, phase[Current(j)] = "ended"
  PROVE  \A a \in Attempts : a[1] = j => phase[a] # "work"
BY OnlyCurrentLives DEF Live

\* The job that JobLifecycle shows at work, from the phases.
LEMMA AtWorkIs ==
  ASSUME NEW a \in Attempts, phase[a] = "work", \A b \in Attempts : phase[b] = "work" => b = a
  PROVE  AtWork = a[1]
<1>1. Working = {a}
    BY DEF Working
<1>2. (CHOOSE b \in Working : TRUE) = a
    BY <1>1
<1>3. QED
    BY <1>1, <1>2 DEF AtWork

\* With no attempt at work the lifecycle shows nobody applying.
LEMMA NobodyAtWork ==
  ASSUME \A a \in Attempts : phase[a] # "work"
  PROVE  AtWork = NoJob
BY DEF AtWork, Working

\* A job is shown at work only while an attempt of it is.
LEMMA NotAtWork ==
  ASSUME IInv, NEW j \in Jobs, \A a \in Attempts : a[1] = j => phase[a] # "work"
  PROVE  AtWork # j
<1>1. CASE \A a \in Attempts : phase[a] # "work"
    BY <1>1, JobIds, NobodyAtWork
<1>2. CASE \E a \in Attempts : phase[a] = "work"
  <2>1. PICK a \in Attempts : phase[a] = "work"
      BY <1>2
  <2>2. \A b \in Attempts : phase[b] = "work" => b = a
      BY <2>1 DEF IInv, LockInv
  <2>3. QED
      BY <2>1, <2>2, AtWorkIs
<1>3. QED
    BY <1>1, <1>2

\* The manager starts where the lifecycle starts.
LEMMA InitRefines == Init => Lifecycle!Init
<1> SUFFICES ASSUME Init PROVE Lifecycle!Init
    OBVIOUS
<1>1. status = [j \in Jobs |-> "none"]
    BY DEF Init
<1>2. Placing \in [Jobs -> (Managers \cup {"router"}) \X (Cores \cup {"xray"})]
    BY DEF Init, Placing
<1>3. Tried = [j \in Jobs |-> 0]
    BY DEF Init, Tried, TriesOf
<1>4. AtWork = NoJob
    BY NobodyAtWork DEF Init
<1>5. QED
    BY <1>1, <1>2, <1>3, <1>4 DEF Lifecycle!Init, Lifecycle!NoOne, NoJob

\* The variables the mapping reads.
shown == <<status, slot, pc, retry, phase>>

\* A step that leaves what the mapping reads alone is a stutter.
LEMMA StutterRefines ==
  ASSUME UNCHANGED shown
  PROVE  UNCHANGED Lifecycle!vars
BY DEF shown, Lifecycle!vars, Placing, Tried, TriesOf, AtWork, Working

\* Steps of an attempt outside its work are not seen.
LEMMA QuietRefines ==
  ASSUME UNCHANGED <<status, slot, pc, retry>>,
         \A a \in Attempts : phase'[a] = "work" <=> phase[a] = "work"
  PROVE  UNCHANGED Lifecycle!vars
<1>1. UNCHANGED <<Placing, Tried>>
    BY DEF Placing, Tried, TriesOf
<1>2. Working' = Working
    BY DEF Working
<1>3. QED
    BY <1>1, <1>2 DEF Lifecycle!vars, AtWork

\* tryStart begins a job whose slot has no unfinished one.
LEMMA StartRefines ==
  ASSUME IInv, NEW m \in Managers, NEW c \in Cores, NEW kind, NEW j \in Jobs,
         tryStart(m, c, kind, j)
  PROVE  Lifecycle!Start(j, <<m, c>>)
<1> TypeOK /\ PcShows /\ Placed /\ OneActiveJob
    BY DEF IInv
<1>1. status[j] = "none" /\ pc[j] = "none"
    BY DEF tryStart, Fresh, PcShows
<1>2. ASSUME NEW k \in Jobs, status[k] \in Active PROVE Placing[k] # <<m, c>>
  <2> SUFFICES ASSUME slot[k].mgr = m, slot[k].core = c PROVE FALSE
      BY DEF Placing
  <2>1. latest[m][c] = k
      BY <1>2 DEF OneActiveJob
  <2>2. QED
      BY <1>2, <2>1, JobIds DEF tryStart, running
<1>3. Placing' = [Placing EXCEPT ![j] = <<m, c>>]
    BY DEF Placing, tryStart, TypeOK
<1>4. Tried' = Tried
    BY <1>1 DEF Tried, TriesOf, tryStart, TypeOK
<1>5. AtWork' = AtWork
    BY DEF AtWork, Working, tryStart, attemptVars
<1>6. status' = [status EXCEPT ![j] = "queued"]
    BY DEF tryStart
<1>7. \A k \in Jobs : status[k] \in Lifecycle!Unfinished => Placing[k] # <<m, c>>
    BY <1>2 DEF Lifecycle!Unfinished, Active
<1>8. QED
    BY <1>1, <1>3, <1>4, <1>5, <1>6, <1>7 DEF Lifecycle!Start

\* An attempt that begins is another try, within the bound on tries.
LEMMA TryRefines ==
  ASSUME IInv, IInv', NEW j \in Jobs, pc[j] \in {"start", "delay"}, startAttempt(j)
  PROVE  Lifecycle!Try(j) /\ (UNCHANGED AtWork \/ (AtWork = NoJob /\ AtWork' = j))
<1> TypeOK /\ PcShows /\ Placed /\ InOrder
    BY DEF IInv
<1>1. status[j] \in {"queued", "retrying"}
    BY DEF PcShows
<1>2. TriesOf(j) = retry[j] /\ Tried[j] = retry[j]
    BY DEF TriesOf, Tried, Placed
<1>3. Tried[j] < MaxRetries + 1
  <2>1. retry[j] \in 0 .. MaxRetries
      BY DEF TypeOK
  <2>2. QED
      BY <1>2, <2>1, MaxRetriesAssumption
<1>4. Tried' = [Tried EXCEPT ![j] = @ + 1]
    BY <1>2 DEF Tried, TriesOf, startAttempt, TypeOK
<1>5. Placing' = Placing
    BY DEF Placing, startAttempt
<1>6. Lifecycle!Try(j)
    BY <1>1, <1>3, <1>4, <1>5 DEF Lifecycle!Try, startAttempt
<1>7. UNCHANGED AtWork \/ (AtWork = NoJob /\ AtWork' = j)
  <2>1. Current(j) \in Attempts /\ phase[Current(j)] = "none" /\ Current(j)[1] = j
      BY CurrentAttempt DEF InOrder
  <2>2. phase' = [phase EXCEPT ![Current(j)] = FirstPhase(j)]
      BY DEF startAttempt
  <2>3. CASE FirstPhase(j) = "sem"
    <3>1. Working' = Working
        BY <2>1, <2>2, <2>3 DEF Working, TypeOK
    <3>2. QED
        BY <3>1 DEF AtWork
  <2>4. CASE FirstPhase(j) = "work"
    <3>1. phase'[Current(j)] = "work"
        BY <2>1, <2>2, <2>4 DEF TypeOK
    <3>2. \A a \in Attempts : phase'[a] = "work" => a = Current(j)
        BY <2>1, <3>1 DEF IInv, LockInv
    <3>3. AtWork' = j
        BY <2>1, <3>1, <3>2 DEF AtWork, Working
    <3>4. \A a \in Attempts : phase[a] # "work"
        BY <2>1, <2>2, <3>2 DEF TypeOK
    <3>5. QED
        BY <3>3, <3>4, NobodyAtWork
  <2>5. QED
      BY <2>3, <2>4 DEF FirstPhase
<1>8. QED
    BY <1>6, <1>7

\* A result ends the job or is not seen; success finds nothing at work.
LEMMA ConcludeRefines ==
  ASSUME IInv, NEW j \in Jobs, NEW code, pc[j] = "attempt", Conclude(j, code),
         phase[Current(j)] = "ended" \/ code = "apply_timeout"
  PROVE  Lifecycle!Succeed(j) \/ Lifecycle!Fail(j) \/ UNCHANGED Lifecycle!vars
<1> TypeOK /\ PcShows /\ Placed /\ InOrder
    BY DEF IInv
<1>1. status[j] = "running"
    BY DEF PcShows
<1>2. UNCHANGED <<slot, retry, phase>>
    BY DEF Conclude, markSucceeded, markFailed, attemptVars
<1>3. pc' = [pc EXCEPT ![j] = "done"] \/ pc' = [pc EXCEPT ![j] = "cleanup"]
    BY DEF Conclude, markSucceeded, markFailed
<1>4. UNCHANGED <<Placing, AtWork>>
    BY <1>2 DEF Placing, AtWork, Working
<1>5. Tried' = Tried
  <2>1. \A k \in Jobs : TriesOf(k)' = TriesOf(k)
      BY <1>2, <1>3 DEF TriesOf, TypeOK
  <2>2. QED
      BY <2>1 DEF Tried
<1>6. CASE code = "ok"
  <2>1. AtWork # j
      BY <1>6, EndedIsNotAtWork, NotAtWork
  <2>2. QED
      BY <1>1, <1>4, <1>5, <1>6, <2>1 DEF Lifecycle!Succeed, Conclude, markSucceeded
<1>7. CASE code # "ok" /\ status' = [status EXCEPT ![j] = "failed"]
    BY <1>1, <1>4, <1>5, <1>7 DEF Lifecycle!Fail
<1>8. CASE status' = status
    BY <1>4, <1>5, <1>8 DEF Lifecycle!vars
<1>9. QED
    BY <1>6, <1>7, <1>8 DEF Conclude, markFailed

\* Retry and the cleanup timeout are Retry and Fail.
LEMMA CleanupRefines ==
  ASSUME IInv, NEW j \in Jobs, Cleaned(j) \/ CleanupTimeout(j)
  PROVE  Lifecycle!Retry(j) \/ Lifecycle!Fail(j)
<1> TypeOK /\ PcShows /\ Placed /\ InOrder
    BY DEF IInv
<1>1. status[j] = "running" /\ pc[j] = "cleanup"
    BY DEF Cleaned, CleanupTimeout, PcShows
<1>2. UNCHANGED <<slot, phase>>
    BY DEF Cleaned, CleanupTimeout, markFailed, attemptVars
<1>3. UNCHANGED <<Placing, AtWork>>
    BY <1>2 DEF Placing, AtWork, Working
<1>4. CASE Cleaned(j)
  <2>1. \A k \in Jobs : TriesOf(k)' = TriesOf(k)
      BY <1>1, <1>4 DEF Cleaned, TriesOf, TypeOK
  <2>2. Tried' = Tried
      BY <2>1 DEF Tried
  <2>3. Tried[j] = retry[j] + 1
      BY <1>1 DEF Tried, TriesOf
  <2>4. retry[j] \in Nat /\ retry[j] < MaxRetries
    <3>1. slot[j].kind \in {"auto", "manual"} /\ retry[j] \in 0 .. MaxRetries
        BY DEF TypeOK
    <3>2. QED
        BY <1>1, <3>1, MaxRetriesAssumption DEF Placed, MaxRetriesOf
  <2>5. AtWork # j
      BY <1>4, EndedIsNotAtWork, NotAtWork DEF Cleaned
  <2>6. status' = [status EXCEPT ![j] = "retrying"]
      BY <1>4 DEF Cleaned
  <2>7. Tried[j] < MaxRetries + 1
      BY <2>3, <2>4, MaxRetriesAssumption
  <2>8. QED
      BY <1>1, <1>3, <2>2, <2>5, <2>6, <2>7 DEF Lifecycle!Retry
<1>5. CASE CleanupTimeout(j)
  <2>1. \A k \in Jobs : TriesOf(k)' = TriesOf(k)
      BY <1>1, <1>5 DEF CleanupTimeout, markFailed, TriesOf, TypeOK
  <2>2. Tried' = Tried
      BY <2>1 DEF Tried
  <2>3. status' = [status EXCEPT ![j] = "failed"]
      BY <1>5 DEF CleanupTimeout, markFailed
  <2>4. QED
      BY <1>1, <1>3, <2>2, <2>3 DEF Lifecycle!Fail
<1>6. QED
    BY <1>4, <1>5

\* Taking apply.lock begins to apply, with nobody applying before.
LEMMA AcquireRefines ==
  ASSUME IInv, NEW a \in Attempts, TryAcquire(a)
  PROVE  Lifecycle!BeginApply(a[1])
<1> TypeOK /\ PcShows /\ InOrder /\ LockInv /\ OnlyTimeoutsLeaveWork
    BY DEF IInv
<1>1. phase[a] = "flock" /\ flock = Free /\ a[1] \in Jobs
    BY AttemptPair DEF TryAcquire
<1>2. UNCHANGED <<status, slot, pc, retry>>
    BY DEF TryAcquire, jobVars
<1>3. retry[a[1]] \in Nat /\ pc[a[1]] \in {"attempt", "cleanup", "done"}
  <2>1. a[2] = retry[a[1]]
      BY <1>1, OnlyCurrentLives DEF Live
  <2>2. retry[a[1]] \in Nat /\ pc[a[1]] \in {"none", "start", "attempt", "cleanup", "delay", "done"}
      BY <1>1, MaxRetriesAssumption DEF TypeOK
  <2>3. QED
      BY <1>1, <2>1, <2>2 DEF InOrder
<1>4. status[a[1]] \in {"running", "failed"}
    BY <1>1, <1>3 DEF PcShows, OnlyTimeoutsLeaveWork, Live
<1>5. Tried[a[1]] > 0
    BY <1>1, <1>3 DEF Tried, TriesOf
<1>6. AtWork = NoJob
    BY <1>1, NoAttemptIsFree, NobodyAtWork DEF LockInv
<1>7. \A b \in Attempts : phase[b] # "work"
    BY <1>1, NoAttemptIsFree DEF LockInv
<1>8. phase' = [phase EXCEPT ![a] = "work"]
    BY DEF TryAcquire
<1>9. Working' = {a}
    BY <1>7, <1>8 DEF Working, TypeOK
<1>10. AtWork' = a[1]
  <2>1. (CHOOSE b \in Working' : TRUE) = a
      BY <1>9
  <2>2. QED
      BY <1>9, <2>1 DEF AtWork
<1>11. UNCHANGED <<Placing, Tried>>
    BY <1>2 DEF Placing, Tried, TriesOf
<1>12. QED
    BY <1>1, <1>2, <1>4, <1>5, <1>6, <1>10, <1>11 DEF Lifecycle!BeginApply, Lifecycle!NoOne, NoJob

\* The end of the work is EndApply.
LEMMA FinishRefines ==
  ASSUME IInv, NEW a \in Attempts, NEW code, FinishWork(a, code)
  PROVE  Lifecycle!EndApply
<1> TypeOK /\ LockInv
    BY DEF IInv
<1>1. phase[a] = "work" /\ a[1] \in Jobs /\ a[1] # NoJob
    BY AttemptPair, JobIds DEF FinishWork
<1>2. UNCHANGED <<status, slot, pc, retry>>
    BY DEF FinishWork, return, jobVars
<1>3. \A b \in Attempts : phase[b] = "work" => b = a
    BY <1>1 DEF LockInv
<1>4. AtWork = a[1]
    BY <1>1, <1>3, AtWorkIs
<1>5. \A b \in Attempts : phase'[b] # "work"
    BY <1>3 DEF FinishWork, return, TypeOK
<1>6. AtWork' = NoJob
    BY <1>5 DEF AtWork, Working
<1>7. UNCHANGED <<Placing, Tried>>
    BY <1>2 DEF Placing, Tried, TriesOf
<1>8. QED
    BY <1>1, <1>2, <1>4, <1>6, <1>7 DEF Lifecycle!EndApply, Lifecycle!NoOne, NoJob

\* A restart of the process forgets everything.
LEMMA RestartRefines == Restart => Lifecycle!Forget
<1> SUFFICES ASSUME Restart PROVE Lifecycle!Forget
    OBVIOUS
<1>1. Placing' \in [Jobs -> (Managers \cup {"router"}) \X (Cores \cup {"xray"})]
    BY DEF Restart, Placing
<1>2. Tried' = [j \in Jobs |-> 0]
    BY DEF Restart, Tried, TriesOf
<1>3. AtWork' = NoJob
    BY DEF Restart, AtWork, Working
<1>4. status' = [j \in Jobs |-> "none"]
    BY DEF Restart
<1>5. QED
    BY <1>1, <1>2, <1>3, <1>4 DEF Lifecycle!Forget, Lifecycle!NoOne, NoJob

\* Every step of the manager is a step of the lifecycle, or none.
LEMMA NextRefines == IInv /\ IInv' /\ [Next]_vars => [Lifecycle!Next]_Lifecycle!vars
<1> SUFFICES ASSUME IInv, IInv', [Next]_vars
             PROVE  Lifecycle!Next \/ UNCHANGED Lifecycle!vars
    OBVIOUS
<1>1. ASSUME NEW m \in Managers \cup {"router"}, NEW c \in Cores \cup {"xray"}, NEW j \in Jobs,
             Lifecycle!Start(j, <<m, c>>)
      PROVE  Lifecycle!Next
    BY <1>1 DEF Lifecycle!Next
<1>2. CASE \E m \in Managers, c \in Cores, j \in Jobs : EnqueueAuto(m, c, j)
  <2>1. PICK m \in Managers, c \in Cores, j \in Jobs : EnqueueAuto(m, c, j)
      BY <1>2
  <2>2. QED
      BY <1>1, <2>1, StartRefines DEF EnqueueAuto
<1>3. CASE \E j \in Jobs : ManualStart(j)
  <2>1. PICK j \in Jobs : ManualStart(j)
      BY <1>3
  <2>2. "router" \in Managers /\ handler \in Cores
      BY <2>1 DEF ManualStart, IInv, TypeOK, LockInv
  <2>3. QED
      BY <1>1, <2>1, <2>2, StartRefines DEF ManualStart
<1>4. CASE \E c \in Cores : ManualLock(c)
    BY <1>4, StutterRefines DEF ManualLock, jobVars, attemptVars, shown
<1>5. CASE ManualRefuse
    BY <1>5, StutterRefines DEF ManualRefuse, jobVars, attemptVars, shown
<1>6. CASE \E j \in Jobs : RunnerStep(j)
  <2> SUFFICES ASSUME NEW j \in Jobs, RunnerStep(j)
               PROVE  Lifecycle!Next \/ UNCHANGED Lifecycle!vars
      BY <1>6
  <2>1. CASE Run(j) \/ RetryTimer(j)
    <3>1. Lifecycle!Try(j) /\ (UNCHANGED AtWork \/ (AtWork = NoJob /\ AtWork' = j))
        BY <2>1, TryRefines DEF Run, RetryTimer
    <3>2. QED
        BY <3>1 DEF Lifecycle!Next, Lifecycle!NoOne, NoJob
  <2>2. CASE TakeResult(j) \/ TakeTimeout(j)
    <3>1. Lifecycle!Succeed(j) \/ Lifecycle!Fail(j) \/ UNCHANGED Lifecycle!vars
        BY <2>2, ConcludeRefines DEF TakeResult, TakeTimeout
    <3>2. QED
        BY <3>1 DEF Lifecycle!Next
  <2>3. CASE Cleaned(j) \/ CleanupTimeout(j)
      BY <2>3, CleanupRefines DEF Lifecycle!Next
  <2>4. CASE Deadline(j)
      BY <2>4, StutterRefines DEF Deadline, jobVars, shown
  <2>5. QED
      BY <2>1, <2>2, <2>3, <2>4 DEF RunnerStep
<1>7. CASE \E a \in Attempts : LockStep(a) \/ \E code \in WorkCodes : FinishWork(a, code)
  <2> SUFFICES ASSUME NEW a \in Attempts,
                      LockStep(a) \/ \E code \in WorkCodes : FinishWork(a, code)
               PROVE  Lifecycle!Next \/ UNCHANGED Lifecycle!vars
      BY <1>7
  <2>0. a[1] \in Jobs
      BY AttemptPair
  <2>1. CASE TryAcquire(a)
      BY <2>0, <2>1, AcquireRefines DEF Lifecycle!Next
  <2>2. CASE \E code \in WorkCodes : FinishWork(a, code)
      BY <2>2, FinishRefines DEF Lifecycle!Next
  <2>3. CASE AcquireSem(a) \/ SemCancelled(a) \/ AcquireFails(a) \/ Deliver(a)
    <3>1. UNCHANGED <<status, slot, pc, retry>>
        BY <2>3 DEF AcquireSem, SemCancelled, AcquireFails, Deliver, return, jobVars
    <3>2. /\ phase[a] # "work"
          /\ \E p \in {"flock", "return", "ended"} : phase' = [phase EXCEPT ![a] = p]
        BY <2>3 DEF AcquireSem, SemCancelled, AcquireFails, Deliver, return
    <3>3. \A b \in Attempts : phase'[b] = "work" <=> phase[b] = "work"
        BY <3>2 DEF IInv, TypeOK
    <3>4. QED
        BY <3>1, <3>3, QuietRefines
  <2>4. QED
      BY <2>1, <2>2, <2>3 DEF LockStep
<1>8. CASE Restart
    BY <1>8, RestartRefines DEF Lifecycle!Next
<1>9. CASE UNCHANGED vars
    BY <1>9, StutterRefines DEF vars, jobVars, attemptVars, shown
<1>10. QED
    BY <1>2, <1>3, <1>4, <1>5, <1>6, <1>7, <1>8, <1>9 DEF Next, Requests, HandlerStep

\* The job manager implements the life of jobs that its clients are promised,
\* for any number of jobs, retries, managers and cores.
THEOREM Refinement == Spec => ImplementsLifecycle
BY InitRefines, NextRefines, Invariance, PTL DEF Spec, ImplementsLifecycle, Lifecycle!Spec

=============================================================================
