---------------------------- MODULE JobLifecycle ----------------------------
(***************************************************************************)
(* What the apply-job manager promises to those who start jobs and poll    *)
(* them: the life of a job as CoreApplyJobStatus shows it, and that the    *)
(* cores are changed by one job at a time.  ApplyJobs implements it.       *)
(***************************************************************************)
EXTENDS Integers

CONSTANTS
    Jobs,    \* job ids
    Slots,   \* manager and core
    Tries    \* the most attempts a job makes

NoOne == 0

VARIABLES
    state,    \* the status a poll of a job shows
    place,    \* the slot it was started for
    tries,    \* attempts begun
    applying  \* the job whose attempt changes the cores, or NoOne

vars == <<state, place, tries, applying>>

Unfinished == {"queued", "running", "retrying"}

Init ==
    /\ state = [j \in Jobs |-> "none"]
    /\ place \in [Jobs -> Slots]
    /\ tries = [j \in Jobs |-> 0]
    /\ applying = NoOne

\* A slot takes a new job only when its last one has an end.
Start(j, s) ==
    /\ state[j] = "none"
    /\ \A k \in Jobs : state[k] \in Unfinished => place[k] # s
    /\ state' = [state EXCEPT ![j] = "queued"]
    /\ place' = [place EXCEPT ![j] = s]
    /\ UNCHANGED <<tries, applying>>

Try(j) ==
    /\ state[j] \in {"queued", "retrying"}
    /\ tries[j] < Tries
    /\ state' = [state EXCEPT ![j] = "running"]
    /\ tries' = [tries EXCEPT ![j] = @ + 1]
    /\ UNCHANGED place

\* A job goes to retry only when nothing of its last attempt is at work.
Retry(j) ==
    /\ state[j] = "running"
    /\ tries[j] < Tries
    /\ applying # j
    /\ state' = [state EXCEPT ![j] = "retrying"]
    /\ UNCHANGED <<place, tries, applying>>

\* Nor does a job succeed while its work goes on.
Succeed(j) ==
    /\ state[j] = "running"
    /\ applying # j
    /\ state' = [state EXCEPT ![j] = "succeeded"]
    /\ UNCHANGED <<place, tries, applying>>

Fail(j) ==
    /\ state[j] = "running"
    /\ state' = [state EXCEPT ![j] = "failed"]
    /\ UNCHANGED <<place, tries, applying>>

\* The work of a job may begin late, after the job has failed for a timeout,
\* but never beside other work.
BeginApply(j) ==
    /\ applying = NoOne
    /\ tries[j] > 0
    /\ state[j] \in {"running", "failed"}
    /\ applying' = j
    /\ UNCHANGED <<state, place, tries>>

EndApply ==
    /\ applying # NoOne
    /\ applying' = NoOne
    /\ UNCHANGED <<state, place, tries>>

\* A restart of the process forgets every job.
Forget ==
    /\ state' = [j \in Jobs |-> "none"]
    /\ place' \in [Jobs -> Slots]
    /\ tries' = [j \in Jobs |-> 0]
    /\ applying' = NoOne

Next ==
    \/ \E j \in Jobs, s \in Slots : Start(j, s)
    \/ \E j \in Jobs :
          \/ Try(j) /\ (UNCHANGED applying \/ (applying = NoOne /\ applying' = j))
          \/ Retry(j) \/ Succeed(j) \/ Fail(j) \/ BeginApply(j)
    \/ EndApply
    \/ Forget

Spec == Init /\ [][Next]_vars
=============================================================================
