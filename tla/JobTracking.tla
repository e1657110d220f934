------------------------------ MODULE JobTracking ------------------------------
(***************************************************************************)
(* How the panel in the browser follows the apply jobs that its saves have *)
(* started (src/web/src/lib/coreApply.ts).  A save's response carries a    *)
(* snapshot of the job of every core it changed; showCoreApplyWarning      *)
(* tells the administrator how the save stands and puts the active jobs    *)
(* into activeTrackedJobs.  One timer polls them; a poll asks for every    *)
(* tracked job, waits for all answers and then announces those that ended. *)
(* Nothing keeps a second poll from starting while one waits for answers:  *)
(* a new save arms the timer anew whatever is in flight.                   *)
(*                                                                         *)
(* The server's side is what the responses show of it: jobs per core, one  *)
(* active at most, that run, wait for a retry and end; a restart of the    *)
(* panel forgets them all.  A job is <<core, n>>.                          *)
(***************************************************************************)
EXTENDS Integers, Sequences

CONSTANTS
    TrackedCores,
    AutoApply,     \* values that the setting autoCoreApply may have, a set of BOOLEAN
    MaxSaves,      \* saves made
    MaxJobs,       \* jobs per core
    MaxFaults      \* failed requests, restarts of the panel and reloads of the page

ASSUME BoundsAssumption ==
    /\ {MaxSaves, MaxJobs, MaxFaults} \subseteq Nat
    /\ AutoApply \subseteq BOOLEAN

VARIABLES
    jobs,        \* [TrackedCores -> Seq(Job)]: byID of the server, oldest first
    responses,   \* responses of saves that the browser has not handled yet
    saves,       \* number of saves made
    tracked,     \* activeTrackedJobs: the last known snapshot of each job
    timer,       \* coreApplyPollTimer is set
    polls,       \* polls that wait for answers, oldest first
    announced,   \* the ends announced of each job, in order
    trackings,   \* how often each job was handed over for tracking
    overlaps,    \* times the timer was armed by a save while a poll was in flight
    faults, restarts, reloads

server == <<jobs, saves, restarts>>
browser == <<tracked, timer, polls>>
history == <<announced, trackings, overlaps>>
trackingVars == <<server, responses, browser, history, faults, reloads>>

Disturbances == faults + restarts + reloads

\* "queued", "running" and "retrying" are told apart by nothing that is done
\* with a snapshot: they are one value here.
Ended == {"succeeded", "failed"}
JobStatus == Ended \cup {"active", "forgotten"}

Id == TrackedCores \X (1..MaxJobs)
\* error: an attempt has failed, which is cleared by success only.
Job == [status: JobStatus, error: BOOLEAN]
JobSnapshot == [status: Ended \cup {"active"}, error: BOOLEAN]

\* What a save is told: the cases of coreApplyWarning that a save can meet;
\* "saved" is the empty warning, after which the page shows its plain success.
Message == {"syncFailed", "syncing", "pending", "saved"}

Response == [save: 1..MaxSaves, changed: SUBSET TrackedCores, refused: SUBSET TrackedCores,
             auto: UNION {[S -> JobSnapshot] : S \in SUBSET Id}, pending: BOOLEAN]

-----------------------------------------------------------------------------
(* The server *)

Latest(c) == jobs[c][Len(jobs[c])]
Known(id) == id[2] <= Len(jobs[id[1]])
StatusOf(id) == IF Known(id) THEN jobs[id[1]][id[2]].status ELSE "none"

\* running(core): the last job of the core is active.
Busy(c) == jobs[c] # <<>> /\ Latest(c).status = "active"

Fresh == [status |-> "active", error |-> FALSE]

\* enqueueCoreAutoApply for each core of started: a new job unless one is active.
Enqueued(started) ==
    [c \in TrackedCores |-> IF c \in started /\ ~Busy(c) THEN Append(jobs[c], Fresh) ELSE jobs[c]]

\* A save that changes the generated configuration of the cores changed.  For
\* those in refused there is no job but an error, of enqueueing or of marking
\* the core pending; those in late had an active job when enqueueCoreAutoApply
\* looked, which has ended before its status is read.
SaveChanges(changed, refused, late, pending) ==
    LET started == changed \ (refused \cup late)
        now == Enqueued(started)
        own == {id \in Id : id[1] \in changed \ refused /\ id[2] = Len(now[id[1]])}
    IN  /\ saves < MaxSaves
        /\ TRUE \in AutoApply
        /\ late \subseteq changed \ refused
        /\ \A c \in late : jobs[c] # <<>> /\ Latest(c).status \in Ended
        /\ \A c \in started : Busy(c) \/ Len(jobs[c]) < MaxJobs
        /\ saves' = saves + 1
        /\ jobs' = now
        /\ responses' = responses \cup
               {[save |-> saves + 1, changed |-> changed, refused |-> refused,
                 auto |-> [id \in own |-> now[id[1]][id[2]]], pending |-> pending]}
        /\ UNCHANGED <<restarts, browser, history, faults, reloads>>

\* The same with autoCoreApply off: the changed cores are marked pending.
SaveOnly(changed, pending) ==
    /\ saves < MaxSaves
    /\ FALSE \in AutoApply
    /\ changed # {} => pending
    /\ saves' = saves + 1
    /\ responses' = responses \cup
           {[save |-> saves + 1, changed |-> changed, refused |-> {},
             auto |-> <<>>, pending |-> pending]}
    /\ UNCHANGED <<jobs, restarts, browser, history, faults, reloads>>

SetJob(id, job) ==
    /\ jobs' = [jobs EXCEPT ![id[1]][id[2]] = job]
    /\ UNCHANGED <<saves, restarts, responses, browser, history, faults, reloads>>

\* markRetrying; markRunning leaves the error of the attempt before.
JobRetries(id) ==
    /\ StatusOf(id) = "active"
    /\ SetJob(id, [status |-> "active", error |-> TRUE])

\* markSucceeded and markFailed.
JobEnds(id) ==
    /\ StatusOf(id) = "active"
    /\ \E end \in Ended : SetJob(id, [status |-> end, error |-> end = "failed"])

\* The panel's process restarts: its jobs are gone and their ids unknown.
Restart ==
    /\ Disturbances < MaxFaults
    /\ restarts' = restarts + 1
    /\ jobs' = [c \in TrackedCores |-> [n \in 1..Len(jobs[c]) |->
                                    [jobs[c][n] EXCEPT !.status = "forgotten"]]]
    /\ UNCHANGED <<saves, responses, browser, history, faults, reloads>>

-----------------------------------------------------------------------------
(* The browser *)

coreApplyJobActive(job) == job.status = "active"

autoApplyQueuedOrRunning(r) == \E id \in DOMAIN r.auto : coreApplyJobActive(r.auto[id])

\* autoApplyFailureDetail is not empty: a core got no job, or the snapshot of
\* one has failed or carries an error.
autoApplyFailure(r) ==
    \/ r.refused # {}
    \/ \E id \in DOMAIN r.auto : r.auto[id].status = "failed" \/ r.auto[id].error

\* The first case that applies, in the order of the code.
coreApplyWarning(r) ==
    CASE autoApplyFailure(r) -> "syncFailed"
      [] ~autoApplyFailure(r) /\ r.changed # {} /\ autoApplyQueuedOrRunning(r) -> "syncing"
      [] ~autoApplyFailure(r) /\ r.changed # {} /\ ~autoApplyQueuedOrRunning(r)
            /\ r.pending -> "pending"
      [] OTHER -> "saved"

\* trackCoreApplyJobsFromResponse follows the active jobs of a changing save.
ToTrack(r) ==
    IF r.changed = {} THEN {} ELSE {id \in DOMAIN r.auto : coreApplyJobActive(r.auto[id])}

\* Map.set for every entry of new.
WithJobs(map, new) ==
    [id \in DOMAIN map \cup DOMAIN new |-> IF id \in DOMAIN new THEN new[id] ELSE map[id]]

\* showCoreApplyWarning, in a page's onSuccess: the timer is armed anew, after
\* the one that may be set has been cleared; polls in flight go on.
ShowSave(r) ==
    LET new == ToTrack(r) IN
    /\ r \in responses
    /\ responses' = responses \ {r}
    /\ tracked' = WithJobs(tracked, [id \in new |-> r.auto[id]])
    /\ timer' = (timer \/ new # {})
    /\ trackings' = [id \in Id |-> trackings[id] + (IF id \in new THEN 1 ELSE 0)]
    /\ overlaps' = overlaps + (IF new # {} /\ polls # <<>> THEN 1 ELSE 0)
    /\ UNCHANGED <<server, polls, announced, faults, reloads>>

\* Mutant of PollBegins: an interval in place of a timeout.
PollBeginsEvery ==
    /\ timer
    /\ polls' = Append(polls, [asks |-> tracked, answers |-> <<>>])
    /\ UNCHANGED <<server, responses, tracked, timer, history, faults, reloads>>

\* The timer's callback: pollCoreApplyJobs up to its await.  The poll's token
\* is always the current one, since whatever moves the token on also clears
\* the timer.
PollBegins ==
    /\ timer
    /\ timer' = FALSE
    /\ polls' = Append(polls, [asks |-> tracked, answers |-> <<>>])
    /\ UNCHANGED <<server, responses, tracked, history, faults, reloads>>

Got(p, id, snapshot) ==
    polls' = [polls EXCEPT ![p].answers = WithJobs(@, [i \in {id} |-> snapshot])]

\* The server answers the poll's request for one job.
Answer(p, id) ==
    /\ id \in DOMAIN polls[p].asks \ DOMAIN polls[p].answers
    /\ StatusOf(id) # "forgotten"
    /\ Got(p, id, jobs[id[1]][id[2]])
    /\ UNCHANGED <<server, responses, tracked, timer, history, faults, reloads>>

\* The request fails, as it always does for a job that is forgotten: the catch
\* keeps the snapshot that the poll has started with.
AnswerFails(p, id) ==
    /\ id \in DOMAIN polls[p].asks \ DOMAIN polls[p].answers
    /\ IF StatusOf(id) = "forgotten"
       THEN UNCHANGED faults
       ELSE Disturbances < MaxFaults /\ faults' = faults + 1
    /\ Got(p, id, polls[p].asks[id])
    /\ UNCHANGED <<server, responses, tracked, timer, history, reloads>>

\* Mutant of EndedIn: a job has ended when it carries an error.
EndedInByError(answers) ==
    {id \in DOMAIN answers : answers[id].status \in Ended \/ answers[id].error}

\* Mutant of EndedIn: only a success ends a job.
EndedInSuccess(answers) == {id \in DOMAIN answers : answers[id].status = "succeeded"}

\* The ends among the answers of a poll.
EndedIn(answers) == {id \in DOMAIN answers : answers[id].status \in Ended}

\* activeTrackedJobs after a poll: ended jobs are deleted, all others set to
\* the answer, whether they are still in the map or not.
TrackedAfter(answers) ==
    LET ended == EndedIn(answers)
        kept == WithJobs(tracked, answers)
    IN  [id \in DOMAIN kept \ ended |-> kept[id]]

RemoveNth(s, p) == [i \in 1..(Len(s) - 1) |-> IF i < p THEN s[i] ELSE s[i + 1]]

\* All requests of the poll have settled: pollCoreApplyJobs after its await.
PollEnds(p) ==
    LET answers == polls[p].answers IN
    /\ DOMAIN answers = DOMAIN polls[p].asks
    /\ polls' = RemoveNth(polls, p)
    /\ tracked' = TrackedAfter(answers)
    /\ timer' = (timer \/ DOMAIN TrackedAfter(answers) # {})
    /\ announced' = [id \in Id |-> IF id \in EndedIn(answers)
                                   THEN Append(announced[id], answers[id].status)
                                   ELSE announced[id]]
    /\ UNCHANGED <<server, responses, trackings, overlaps, faults, reloads>>

\* The page is loaded anew: the module's state is gone, and so are requests
\* whose responses it was to handle.
Reload ==
    /\ Disturbances < MaxFaults
    /\ reloads' = reloads + 1
    /\ responses' = {}
    /\ tracked' = <<>>
    /\ timer' = FALSE
    /\ polls' = <<>>
    /\ UNCHANGED <<server, history, faults>>

-----------------------------------------------------------------------------

JobInit ==
    /\ jobs = [c \in TrackedCores |-> <<>>]
    /\ responses = {}
    /\ tracked = <<>>
    /\ timer = FALSE
    /\ polls = <<>>
    /\ announced = [id \in Id |-> <<>>]
    /\ trackings = [id \in Id |-> 0]
    /\ overlaps = 0
    /\ saves = 0 /\ faults = 0 /\ restarts = 0 /\ reloads = 0

JobNext ==
    \/ \E changed, refused, late \in SUBSET TrackedCores : \E pending \in BOOLEAN :
           SaveChanges(changed, refused, late, pending)
    \/ \E changed \in SUBSET TrackedCores : \E pending \in BOOLEAN : SaveOnly(changed, pending)
    \/ \E id \in Id : JobRetries(id)
    \/ \E id \in Id : JobEnds(id)
    \/ Restart
    \/ \E r \in responses : ShowSave(r)
    \/ PollBegins
    \/ \E p \in DOMAIN polls : \E id \in DOMAIN polls[p].asks : Answer(p, id)
    \/ \E p \in DOMAIN polls : \E id \in DOMAIN polls[p].asks : AnswerFails(p, id)
    \/ \E p \in DOMAIN polls : PollEnds(p)
    \/ Reload

\* Jobs run to their end, timers fire, and the oldest poll is answered and
\* goes on; saves, failures, restarts and reloads may never come.
TrackingFairness ==
    /\ \A c \in TrackedCores : WF_trackingVars(\E n \in 1..MaxJobs : JobEnds(<<c, n>>))
    /\ WF_trackingVars(PollBegins)
    /\ WF_trackingVars(/\ polls # <<>>
                       /\ (\E id \in Id : Answer(1, id) \/ AnswerFails(1, id)) \/ PollEnds(1))

TrackingSpec == JobInit /\ [][JobNext]_trackingVars /\ TrackingFairness

-----------------------------------------------------------------------------
(* Properties *)

\* Snapshots, timers, polls and announcements keep to their types.
TrackingTypeOK ==
    /\ \A c \in TrackedCores : jobs[c] \in Seq(Job) /\ Len(jobs[c]) <= MaxJobs
    /\ \A r \in responses : r \in Response
    /\ DOMAIN tracked \subseteq Id /\ \A id \in DOMAIN tracked : tracked[id] \in JobSnapshot
    /\ timer \in BOOLEAN
    /\ \A p \in DOMAIN polls : DOMAIN polls[p].answers \subseteq DOMAIN polls[p].asks
    /\ \A id \in Id : announced[id] \in Seq(Ended)
    /\ saves \in 0..MaxSaves /\ Disturbances \in 0..MaxFaults

\* Only ends are announced, and as what they are: a job whose attempt failed
\* and that will be tried again is not announced as failed.
AnnouncedAsItEnded ==
    \A id \in Id : \A k \in DOMAIN announced[id] :
        StatusOf(id) \in {announced[id][k], "forgotten"}

\* While no save arms the timer during a poll, an end is announced once for
\* each time the job was handed over.
AnnouncedOnce ==
    overlaps = 0 => \A id \in Id : Len(announced[id]) <= trackings[id]

\* A save that changed a configuration is shown as a plain success only if
\* nothing is left to do: every job it met has succeeded and nothing is pending.
SilenceMeansDone ==
    \A r \in responses :
        coreApplyWarning(r) = "saved" /\ r.changed # {} =>
            /\ ~r.pending /\ r.refused = {}
            /\ \A id \in DOMAIN r.auto : r.auto[id].status = "succeeded"

\* What the administrator reads of a save and of its jobs is as it is.
ToldAsItIs == AnnouncedAsItEnded /\ AnnouncedOnce /\ SilenceMeansDone

\* Polls do not multiply: besides the one chain of polls there is at most one
\* more for every save that armed the timer during a poll.
PollsAreBounded == Len(polls) + (IF timer THEN 1 ELSE 0) <= 1 + overlaps

\* A job that was handed over is not lost: until its end is announced the browser
\* tracks it, unless the page was loaded anew, and while the browser tracks a job
\* a poll is under way or the timer is set for one.  (Part of EndsAreHeard.)
OwedEndsAreAskedFor ==
    /\ \A id \in Id :
          trackings[id] > 0 /\ announced[id] = <<>> /\ reloads = 0 => id \in DOMAIN tracked
    /\ DOMAIN tracked # {} => timer \/ polls # <<>>

\* Again and again no end is owed: no job is left that is tracked, or that was
\* handed over since the page was loaded and is not announced.  Only the jobs
\* that the panel forgets are excepted.
EndsAreHeard ==
    /\ []OwedEndsAreAskedFor
    /\ []<>(\A id \in Id :
              StatusOf(id) # "forgotten" =>
                  /\ id \notin DOMAIN tracked
                  /\ trackings[id] > 0 /\ reloads = 0 => announced[id] # <<>>)

=============================================================================
