---------------------------- MODULE TrackingProofs ----------------------------
(***************************************************************************)
(* The polls of the browser do not multiply, and what the administrator is *)
(* told of a save and of its jobs is as it is, for any cores, jobs, saves  *)
(* and faults.                                                             *)
(***************************************************************************)
EXTENDS JobTracking, TLAPS

\* What the bound rests on: the polls in flight are a sequence, of whatever.
IsSequence(s) == \E S : s \in Seq(S)

PollsInv ==
    /\ IsSequence(polls)
    /\ timer \in BOOLEAN
    /\ overlaps \in Nat
    /\ PollsAreBounded

-----------------------------------------------------------------------------
(* Sequences *)

\* A poll begins.
LEMMA AppendIsSequence ==
    ASSUME NEW s, IsSequence(s), NEW x
    PROVE  IsSequence(Append(s, x)) /\ Len(Append(s, x)) = Len(s) + 1
<1>1. PICK S : s \in Seq(S)
  BY DEF IsSequence
<1>2. s \in Seq(S \cup {x}) /\ x \in S \cup {x}
  BY <1>1
<1>3. Append(s, x) \in Seq(S \cup {x}) /\ Len(Append(s, x)) = Len(s) + 1
  BY <1>2
<1> QED
  BY <1>3 DEF IsSequence

\* A poll ends.
LEMMA RemoveIsSequence ==
    ASSUME NEW s, IsSequence(s), NEW p \in DOMAIN s
    PROVE  IsSequence(RemoveNth(s, p)) /\ Len(RemoveNth(s, p)) = Len(s) - 1
<1>1. PICK S : s \in Seq(S)
  BY DEF IsSequence
<1>2. Len(s) \in Nat /\ p \in 1..Len(s) /\ \A i \in 1..Len(s) : s[i] \in S
  BY <1>1
<1> DEFINE u == RemoveNth(s, p)
<1>3. Len(s) - 1 \in Nat /\ u \in [1..(Len(s) - 1) -> S]
  BY <1>2 DEF RemoveNth
<1> HIDE DEF u
<1>4. u \in Seq(S) /\ Len(u) = Len(s) - 1
  BY <1>3
<1> QED
  BY <1>4 DEF IsSequence, u

\* An answer comes for a poll.
LEMMA ExceptIsSequence ==
    ASSUME NEW s, IsSequence(s), NEW p, NEW x
    PROVE  IsSequence([s EXCEPT ![p] = x]) /\ Len([s EXCEPT ![p] = x]) = Len(s)
<1>1. PICK S : s \in Seq(S)
  BY DEF IsSequence
<1> DEFINE u == [s EXCEPT ![p] = x]
<1>2. Len(s) \in Nat /\ s \in [1..Len(s) -> S]
  BY <1>1
<1>3. u \in [1..Len(s) -> S \cup {x}]
  BY <1>2
<1> HIDE DEF u
<1>4. u \in Seq(S \cup {x}) /\ Len(u) = Len(s)
  BY <1>2, <1>3
<1> QED
  BY <1>4 DEF IsSequence, u

\* The lengths that the bound adds up are numbers.
LEMMA LengthIsNatural ==
    ASSUME NEW s, IsSequence(s)
    PROVE  Len(s) \in Nat
<1>1. PICK S : s \in Seq(S)
  BY DEF IsSequence
<1> QED
  BY <1>1

\* No poll is in flight at first and after a reload.
LEMMA EmptyIsSequence == IsSequence(<<>>) /\ Len(<<>>) = 0
<1>1. <<>> \in Seq({}) /\ Len(<<>>) = 0
  OBVIOUS
<1> QED
  BY <1>1 DEF IsSequence

-----------------------------------------------------------------------------
(* The invariant *)

\* A page that was just loaded polls nothing.
LEMMA PollsInit == JobInit => PollsInv
<1> SUFFICES ASSUME JobInit PROVE PollsInv
  OBVIOUS
<1>1. polls = <<>> /\ timer = FALSE /\ overlaps = 0
  BY DEF JobInit
<1>2. IsSequence(polls) /\ Len(polls) = 0
  BY <1>1, EmptyIsSequence
<1>3. PollsAreBounded
  BY <1>1, <1>2 DEF PollsAreBounded
<1> QED
  BY <1>1, <1>2, <1>3 DEF PollsInv

\* Steps of the server, and those between which no poll begins or ends.
LEMMA ServerKeeps ==
    ASSUME PollsInv, UNCHANGED <<timer, polls, overlaps>>
    PROVE  PollsInv'
BY DEF PollsInv, PollsAreBounded, IsSequence

\* ShowSave arms the timer: beside a poll in flight it counts as an overlap.
LEMMA ShowKeeps ==
    ASSUME PollsInv, NEW r \in responses, ShowSave(r)
    PROVE  PollsInv'
<1>1. Len(polls) \in Nat /\ (polls = <<>> => Len(polls) = 0)
  BY LengthIsNatural, EmptyIsSequence DEF PollsInv
<1>2. /\ polls' = polls /\ timer' \in BOOLEAN
      /\ timer' # timer /\ polls # <<>> => overlaps' = overlaps + 1
      /\ overlaps' \in {overlaps, overlaps + 1}
  BY DEF ShowSave, PollsInv
<1>3. PollsAreBounded'
  BY <1>1, <1>2 DEF PollsInv, PollsAreBounded
<1>4. IsSequence(polls)' /\ overlaps' \in Nat
  BY <1>2 DEF PollsInv, IsSequence
<1> QED
  BY <1>2, <1>3, <1>4 DEF PollsInv

\* PollBegins: the timer becomes a poll.
LEMMA BeginKeeps ==
    ASSUME PollsInv, PollBegins
    PROVE  PollsInv'
<1>1. Len(polls) \in Nat /\ IsSequence(polls)
  BY LengthIsNatural DEF PollsInv
<1>2. IsSequence(polls') /\ Len(polls') = Len(polls) + 1
  BY <1>1, AppendIsSequence DEF PollBegins
<1>3. timer /\ timer' = FALSE /\ overlaps' = overlaps
  BY DEF PollBegins, history
<1>4. PollsAreBounded'
  BY <1>1, <1>2, <1>3 DEF PollsInv, PollsAreBounded
<1> QED
  BY <1>2, <1>3, <1>4 DEF PollsInv, IsSequence

\* Answer, AnswerFails: the number of polls stays.
LEMMA AnswerKeeps ==
    ASSUME PollsInv, NEW p \in DOMAIN polls, NEW id, Answer(p, id) \/ AnswerFails(p, id)
    PROVE  PollsInv'
<1>1. PICK x : polls' = [polls EXCEPT ![p] = x]
  BY DEF Answer, AnswerFails, Got
<1>2. timer' = timer /\ overlaps' = overlaps
  BY DEF Answer, AnswerFails, history
<1>3. IsSequence(polls') /\ Len(polls') = Len(polls)
  BY <1>1, ExceptIsSequence DEF PollsInv
<1>4. PollsAreBounded'
  BY <1>2, <1>3 DEF PollsInv, PollsAreBounded
<1> QED
  BY <1>2, <1>3, <1>4 DEF PollsInv, IsSequence

\* PollEnds: the poll becomes the timer, or nothing.
LEMMA EndKeeps ==
    ASSUME PollsInv, NEW p \in DOMAIN polls, PollEnds(p)
    PROVE  PollsInv'
<1>1. Len(polls) \in Nat /\ IsSequence(polls)
  BY LengthIsNatural DEF PollsInv
<1>2. IsSequence(polls') /\ Len(polls') = Len(polls) - 1
  BY <1>1, RemoveIsSequence DEF PollEnds
<1>3. timer' \in BOOLEAN /\ (timer => timer') /\ overlaps' = overlaps
  BY DEF PollEnds, PollsInv
<1>4. PollsAreBounded'
  BY <1>1, <1>2, <1>3 DEF PollsInv, PollsAreBounded
<1> QED
  BY <1>2, <1>3, <1>4 DEF PollsInv, IsSequence

\* Reload forgets the timer and the polls.
LEMMA ReloadKeeps ==
    ASSUME PollsInv, Reload
    PROVE  PollsInv'
<1>1. polls' = <<>> /\ timer' = FALSE /\ overlaps' = overlaps
  BY DEF Reload, history
<1>2. IsSequence(polls') /\ Len(polls') = 0
  BY <1>1, EmptyIsSequence
<1>3. PollsAreBounded'
  BY <1>1, <1>2 DEF PollsInv, PollsAreBounded
<1> QED
  BY <1>1, <1>2, <1>3 DEF PollsInv, IsSequence

\* Every step of the server and of the browser keeps the invariant.
LEMMA PollsNext == PollsInv /\ [JobNext]_trackingVars => PollsInv'
<1> SUFFICES ASSUME PollsInv, [JobNext]_trackingVars
             PROVE  PollsInv'
  OBVIOUS
<1>1. CASE \/ \E changed, refused, late \in SUBSET TrackedCores : \E pending \in BOOLEAN :
                  SaveChanges(changed, refused, late, pending)
           \/ \E changed \in SUBSET TrackedCores : \E pending \in BOOLEAN : SaveOnly(changed, pending)
           \/ \E id \in Id : JobRetries(id)
           \/ \E id \in Id : JobEnds(id)
           \/ Restart
           \/ UNCHANGED trackingVars
  <2>1. UNCHANGED <<timer, polls, overlaps>>
    BY <1>1 DEF SaveChanges, SaveOnly, JobRetries, JobEnds, SetJob, Restart, trackingVars,
                browser, history
  <2> QED
    BY <2>1, ServerKeeps
<1>2. CASE \E r \in responses : ShowSave(r)
  BY <1>2, ShowKeeps
<1>3. CASE PollBegins
  BY <1>3, BeginKeeps
<1>4. CASE \E p \in DOMAIN polls : \E id \in DOMAIN polls[p].asks : Answer(p, id) \/ AnswerFails(p, id)
  BY <1>4, AnswerKeeps
<1>5. CASE \E p \in DOMAIN polls : PollEnds(p)
  BY <1>5, EndKeeps
<1>6. CASE Reload
  BY <1>6, ReloadKeeps
<1> QED
  BY <1>1, <1>2, <1>3, <1>4, <1>5, <1>6 DEF JobNext

\* PollsAreBounded: besides the one chain of polls there is at most one more
\* for every save that armed the timer during a poll.
THEOREM PollsStayBounded == TrackingSpec => []PollsAreBounded
<1>1. TrackingSpec => []PollsInv
  BY PollsInit, PollsNext, PTL DEF TrackingSpec
<1>2. PollsInv => PollsAreBounded
  BY DEF PollsInv
<1> QED
  BY <1>1, <1>2, PTL

-----------------------------------------------------------------------------
(* What is told: the inductive invariant *)

Snapshots == UNION {[S -> JobSnapshot] : S \in SUBSET Id}
Poll == [asks: Snapshots, answers: Snapshots]

\* The types, with the sequences and maps as such.
TrackingShape ==
    /\ jobs \in [TrackedCores -> Seq(Job)]
    /\ \A c \in TrackedCores : Len(jobs[c]) <= MaxJobs
    /\ responses \subseteq Response
    /\ tracked \in Snapshots
    /\ timer \in BOOLEAN
    /\ polls \in Seq(Poll)
    /\ \A p \in DOMAIN polls : DOMAIN polls[p].answers \subseteq DOMAIN polls[p].asks
    /\ announced \in [Id -> Seq(Ended)]
    /\ trackings \in [Id -> Nat]
    /\ {overlaps, faults, restarts, reloads} \subseteq Nat
    /\ saves \in 0..MaxSaves
    /\ Disturbances <= MaxFaults

\* A map of jobs to follow: the server has had each, and none has ended.
FollowedMap(map) == \A id \in DOMAIN map : Known(id) /\ map[id].status = "active"

\* An end that was read stands, until the job is forgotten.
Stands(id, end) == end \in Ended => StatusOf(id) \in {end, "forgotten"}

\* What the browser holds of the jobs is, or was, as the server has it.
HeldAsItIs ==
    /\ \A r \in responses : \A id \in DOMAIN r.auto : Known(id)
    /\ FollowedMap(tracked)
    /\ \A p \in DOMAIN polls : FollowedMap(polls[p].asks)
    /\ \A p \in DOMAIN polls : \A id \in DOMAIN polls[p].answers :
           Stands(id, polls[p].answers[id].status)
    /\ AnnouncedAsItEnded

\* While no save has armed the timer during a poll: what the poll asks for is
\* still tracked, and each job was handed over once for each end announced,
\* and once more while it is tracked.
OwedOnce ==
    overlaps = 0 =>
        /\ \A p \in DOMAIN polls : DOMAIN polls[p].asks \subseteq DOMAIN tracked
        /\ \A id \in Id :
               Len(announced[id]) + (IF id \in DOMAIN tracked THEN 1 ELSE 0) <= trackings[id]

ToldInv == TrackingShape /\ HeldAsItIs /\ OwedOnce /\ PollsInv

-----------------------------------------------------------------------------
(* Lemmas about the model's operators *)

\* A map of snapshots is a function on some ids.
LEMMA SnapshotsAreMaps ==
    ASSUME NEW m
    PROVE  m \in Snapshots <=> DOMAIN m \subseteq Id /\ m \in [DOMAIN m -> JobSnapshot]
BY DEF Snapshots

\* Map.set for every entry of new.
LEMMA WithJobsIsMap ==
    ASSUME NEW m \in Snapshots, NEW n \in Snapshots
    PROVE  /\ WithJobs(m, n) \in Snapshots
           /\ DOMAIN WithJobs(m, n) = DOMAIN m \cup DOMAIN n
           /\ \A id \in DOMAIN n : WithJobs(m, n)[id] = n[id]
           /\ \A id \in DOMAIN m \ DOMAIN n : WithJobs(m, n)[id] = m[id]
<1>1. /\ DOMAIN m \subseteq Id /\ m \in [DOMAIN m -> JobSnapshot]
      /\ DOMAIN n \subseteq Id /\ n \in [DOMAIN n -> JobSnapshot]
  BY SnapshotsAreMaps
<1> DEFINE w == WithJobs(m, n)
<1>2. /\ w \in [DOMAIN m \cup DOMAIN n -> JobSnapshot]
      /\ \A id \in DOMAIN n : w[id] = n[id]
      /\ \A id \in DOMAIN m \ DOMAIN n : w[id] = m[id]
  BY <1>1 DEF WithJobs
<1> HIDE DEF w
<1>3. DOMAIN w = DOMAIN m \cup DOMAIN n
  BY <1>2
<1>4. w \in Snapshots
  BY <1>1, <1>2, <1>3, SnapshotsAreMaps
<1> QED
  BY <1>2, <1>3, <1>4 DEF w

\* A map that was restricted to some of its ids.
LEMMA RestrictedIsMap ==
    ASSUME NEW m \in Snapshots, NEW S
    PROVE  /\ [id \in DOMAIN m \ S |-> m[id]] \in Snapshots
           /\ DOMAIN [id \in DOMAIN m \ S |-> m[id]] = DOMAIN m \ S
<1>1. DOMAIN m \subseteq Id /\ m \in [DOMAIN m -> JobSnapshot]
  BY SnapshotsAreMaps
<1> DEFINE w == [id \in DOMAIN m \ S |-> m[id]]
<1>2. DOMAIN w = DOMAIN m \ S /\ w \in [DOMAIN m \ S -> JobSnapshot]
  BY <1>1
<1> HIDE DEF w
<1>3. w \in Snapshots
  BY <1>1, <1>2, SnapshotsAreMaps
<1> QED
  BY <1>2, <1>3 DEF w

\* The empty map: nothing is tracked, no answer has come, a save without jobs.
LEMMA EmptyIsMap == <<>> \in Snapshots /\ DOMAIN <<>> = {}
<1>1. DOMAIN <<>> = {} /\ <<>> \in [{} -> JobSnapshot]
  OBVIOUS
<1> QED
  BY <1>1, SnapshotsAreMaps

\* A job that the server has had is one of its core's sequence.
LEMMA KnownJobs ==
    ASSUME TrackingShape, NEW id \in Id
    PROVE  /\ id[1] \in TrackedCores /\ id[2] \in 1..MaxJobs
           /\ jobs[id[1]] \in Seq(Job)
           /\ Known(id) => /\ id[2] \in 1..Len(jobs[id[1]])
                           /\ jobs[id[1]][id[2]] \in Job
                           /\ StatusOf(id) = jobs[id[1]][id[2]].status
                           /\ StatusOf(id) \in JobStatus
<1>1. id[1] \in TrackedCores /\ id[2] \in 1..MaxJobs
  BY DEF Id
<1>2. jobs[id[1]] \in Seq(Job)
  BY <1>1 DEF TrackingShape
<1>3. ASSUME Known(id)
      PROVE  id[2] \in 1..Len(jobs[id[1]]) /\ jobs[id[1]][id[2]] \in Job
  <2>1. Len(jobs[id[1]]) \in Nat /\ id[2] \in Nat /\ 1 <= id[2] /\ id[2] <= Len(jobs[id[1]])
    BY <1>1, <1>2, <1>3, BoundsAssumption DEF Known
  <2>2. id[2] \in 1..Len(jobs[id[1]])
    BY <2>1
  <2> QED
    BY <1>2, <2>2
<1> QED
  BY <1>1, <1>2, <1>3 DEF StatusOf, Job

-----------------------------------------------------------------------------
(* The server *)

\* What a step of the server may do to a job: it is never lost, and an end
\* stands until the job is forgotten.
JobsGoOn ==
    \A id \in Id : Known(id) =>
        /\ Known(id)'
        /\ \/ StatusOf(id) = "active"
           \/ StatusOf(id)' \in {StatusOf(id), "forgotten"}

\* What stood before such a step stands after it.
LEMMA EndsStand ==
    ASSUME TrackingShape, JobsGoOn, NEW id \in Id
    PROVE  /\ Known(id) => Known(id)'
           /\ \A end \in Ended : StatusOf(id) \in {end, "forgotten"}
                                    => StatusOf(id)' \in {end, "forgotten"}
<1>1. Known(id) => Known(id)'
  BY DEF JobsGoOn
<1>2. ASSUME NEW end \in Ended, StatusOf(id) \in {end, "forgotten"}
      PROVE  StatusOf(id)' \in {end, "forgotten"}
  <2>1. Known(id)
    BY <1>2 DEF StatusOf, Ended
  <2>2. StatusOf(id) # "active"
    BY <1>2 DEF Ended
  <2> QED
    BY <1>2, <2>1, <2>2 DEF JobsGoOn
<1> QED
  BY <1>1, <1>2

\* So a step of the server leaves all that the browser holds as it is.
LEMMA ServerHolds ==
    ASSUME TrackingShape, HeldAsItIs, JobsGoOn,
           UNCHANGED <<tracked, polls, announced>>,
           \A r \in responses' \ responses : \A id \in DOMAIN r.auto : Known(id)'
    PROVE  HeldAsItIs'
<1>1. /\ DOMAIN tracked \subseteq Id
      /\ \A r \in responses : DOMAIN r.auto \subseteq Id
      /\ \A p \in DOMAIN polls : DOMAIN polls[p].asks \subseteq Id
                              /\ DOMAIN polls[p].answers \subseteq Id
  <2>1. \A p \in DOMAIN polls : polls[p] \in Poll
    BY DEF TrackingShape
  <2>2. \A p \in DOMAIN polls : polls[p].asks \in Snapshots /\ polls[p].answers \in Snapshots
    BY <2>1 DEF Poll
  <2>3. \A r \in responses : r.auto \in Snapshots
    BY DEF TrackingShape, Response, Snapshots
  <2>4. tracked \in Snapshots
    BY DEF TrackingShape
  <2> QED
    BY <2>2, <2>3, <2>4, SnapshotsAreMaps
<1>2. \A r \in responses' : \A id \in DOMAIN r.auto : Known(id)'
  BY <1>1, EndsStand DEF HeldAsItIs
<1>3. FollowedMap(tracked)'
  BY <1>1, EndsStand DEF HeldAsItIs, FollowedMap
<1>4. (\A p \in DOMAIN polls : FollowedMap(polls[p].asks))'
  BY <1>1, EndsStand DEF HeldAsItIs, FollowedMap
<1>5. (\A p \in DOMAIN polls : \A id \in DOMAIN polls[p].answers :
           Stands(id, polls[p].answers[id].status))'
  BY <1>1, EndsStand DEF HeldAsItIs, Stands
<1>6. AnnouncedAsItEnded'
  <2>1. \A id \in Id : \A k \in DOMAIN announced[id] : announced[id][k] \in Ended
    BY DEF TrackingShape
  <2> QED
    BY <2>1, EndsStand DEF HeldAsItIs, AnnouncedAsItEnded
<1> QED
  BY <1>2, <1>3, <1>4, <1>5, <1>6 DEF HeldAsItIs

\* enqueueCoreAutoApply: the jobs stay, and a core may get one more.
LEMMA EnqueuedJobs ==
    ASSUME TrackingShape, NEW started \in SUBSET TrackedCores,
           \A c \in started : Busy(c) \/ Len(jobs[c]) < MaxJobs
    PROVE  /\ Enqueued(started) \in [TrackedCores -> Seq(Job)]
           /\ \A c \in TrackedCores :
                 /\ Len(Enqueued(started)[c]) <= MaxJobs
                 /\ Len(jobs[c]) <= Len(Enqueued(started)[c])
                 /\ \A n \in 1..Len(jobs[c]) : Enqueued(started)[c][n] = jobs[c][n]
                 /\ ~Busy(c) /\ c \in started =>
                       /\ Len(Enqueued(started)[c]) = Len(jobs[c]) + 1
                       /\ Enqueued(started)[c][Len(jobs[c]) + 1] = Fresh
                 /\ Busy(c) \/ c \notin started => Enqueued(started)[c] = jobs[c]
<1>1. Fresh \in Job
  BY DEF Fresh, Job, JobStatus
<1>2. ASSUME NEW c \in TrackedCores
      PROVE  /\ jobs[c] \in Seq(Job) /\ Len(jobs[c]) \in Nat /\ Len(jobs[c]) <= MaxJobs
             /\ Append(jobs[c], Fresh) \in Seq(Job)
             /\ Len(Append(jobs[c], Fresh)) = Len(jobs[c]) + 1
             /\ \A n \in 1..Len(jobs[c]) : Append(jobs[c], Fresh)[n] = jobs[c][n]
             /\ Append(jobs[c], Fresh)[Len(jobs[c]) + 1] = Fresh
  BY <1>1 DEF TrackingShape
<1>3. MaxJobs \in Nat
  BY BoundsAssumption
<1>4. ASSUME NEW c \in TrackedCores
      PROVE  /\ Enqueued(started)[c] = IF c \in started /\ ~Busy(c)
                                       THEN Append(jobs[c], Fresh) ELSE jobs[c]
             /\ Enqueued(started)[c] \in Seq(Job)
  BY <1>2 DEF Enqueued
<1>5. Enqueued(started) \in [TrackedCores -> Seq(Job)]
  <2>1. Enqueued(started) = [c \in TrackedCores |-> Enqueued(started)[c]]
    BY DEF Enqueued
  <2> QED
    BY <1>4, <2>1
<1>6. ASSUME NEW c \in TrackedCores, c \in started, ~Busy(c)
      PROVE  /\ Enqueued(started)[c] = Append(jobs[c], Fresh)
             /\ Len(jobs[c]) + 1 <= MaxJobs
  <2>1. Len(jobs[c]) < MaxJobs
    BY <1>6
  <2>2. Enqueued(started)[c] = Append(jobs[c], Fresh)
    BY <1>4, <1>6
  <2>3. Len(jobs[c]) \in Nat
    BY <1>2
  <2>4. Len(jobs[c]) + 1 <= MaxJobs
    BY <1>3, <2>1, <2>3
  <2> QED
    BY <2>2, <2>4
<1> QED
  BY <1>2, <1>3, <1>4, <1>5, <1>6

\* The snapshot that a save gets of a core's job: it is active, or has ended
\* before it was read.
LEMMA OwnSnapshots ==
    ASSUME TrackingShape, NEW changed \in SUBSET TrackedCores,
           NEW refused \in SUBSET TrackedCores, NEW late \in SUBSET TrackedCores,
           NEW pending \in BOOLEAN, SaveChanges(changed, refused, late, pending),
           NEW id \in Id, id[1] \in changed \ refused,
           id[2] = Len(Enqueued(changed \ (refused \cup late))[id[1]])
    PROVE  Enqueued(changed \ (refused \cup late))[id[1]][id[2]] \in JobSnapshot
<1> DEFINE started == changed \ (refused \cup late)
           c == id[1]
           now == Enqueued(started)
<1>1. started \in SUBSET TrackedCores /\ c \in TrackedCores
      /\ \A d \in started : Busy(d) \/ Len(jobs[d]) < MaxJobs
  BY DEF SaveChanges
<1>2. /\ jobs[c] \in Seq(Job) /\ Len(jobs[c]) \in Nat
      /\ now[c] \in Seq(Job)
      /\ ~Busy(c) /\ c \in started =>
             Len(now[c]) = Len(jobs[c]) + 1 /\ now[c][Len(jobs[c]) + 1] = Fresh
      /\ Busy(c) \/ c \notin started => now[c] = jobs[c]
  <2>1. jobs[c] \in Seq(Job)
    BY <1>1 DEF TrackingShape
  <2> HIDE DEF started
  <2>2. /\ now \in [TrackedCores -> Seq(Job)]
        /\ ~Busy(c) /\ c \in started =>
               Len(now[c]) = Len(jobs[c]) + 1 /\ now[c][Len(jobs[c]) + 1] = Fresh
        /\ Busy(c) \/ c \notin started => now[c] = jobs[c]
    BY <1>1, EnqueuedJobs
  <2> QED
    BY <1>1, <2>1, <2>2
<1>3. CASE ~Busy(c) /\ c \in started
  <2>1. now[c][id[2]] = Fresh
    BY <1>2, <1>3
  <2>2. Fresh \in JobSnapshot
    BY DEF Fresh, JobSnapshot
  <2> QED
    BY <2>1, <2>2
<1>4. CASE Busy(c)
  <2>1. now[c] = jobs[c] /\ id[2] = Len(jobs[c])
    BY <1>2, <1>4
  <2>2. jobs[c] # <<>> /\ jobs[c][Len(jobs[c])].status = "active"
    BY <1>4 DEF Busy, Latest
  <2>3. jobs[c][Len(jobs[c])] \in Job
    BY <1>2, <2>2
  <2> QED
    BY <2>1, <2>2, <2>3 DEF Job, JobSnapshot
<1>5. CASE c \notin started
  <2>1. now[c] = jobs[c] /\ id[2] = Len(jobs[c]) /\ c \in late
    BY <1>2, <1>5
  <2>2. jobs[c] # <<>> /\ jobs[c][Len(jobs[c])].status \in Ended
    BY <2>1 DEF SaveChanges, Latest
  <2>3. jobs[c][Len(jobs[c])] \in Job
    BY <1>2, <2>2
  <2> QED
    BY <2>1, <2>2, <2>3 DEF Job, JobSnapshot
<1> QED
  BY <1>3, <1>4, <1>5

\* A save: its response tells of jobs that the server has.
LEMMA SaveChangesTells ==
    ASSUME TrackingShape, HeldAsItIs, NEW changed \in SUBSET TrackedCores,
           NEW refused \in SUBSET TrackedCores, NEW late \in SUBSET TrackedCores,
           NEW pending \in BOOLEAN, SaveChanges(changed, refused, late, pending)
    PROVE  TrackingShape' /\ HeldAsItIs'
<1> DEFINE started == changed \ (refused \cup late)
           now == Enqueued(started)
           own == {id \in Id : id[1] \in changed \ refused /\ id[2] = Len(now[id[1]])}
           auto == [id \in own |-> now[id[1]][id[2]]]
           new == [save |-> saves + 1, changed |-> changed, refused |-> refused,
                   auto |-> auto, pending |-> pending]
<1>1. /\ jobs' = now /\ responses' = responses \cup {new}
      /\ saves' = saves + 1 /\ saves < MaxSaves
      /\ UNCHANGED <<restarts, tracked, timer, polls, announced, trackings, overlaps, faults, reloads>>
  BY DEF SaveChanges, browser, history
<1>2. started \in SUBSET TrackedCores
      /\ \A d \in started : Busy(d) \/ Len(jobs[d]) < MaxJobs
  BY DEF SaveChanges
<1>3. auto \in [own -> JobSnapshot] /\ own \in SUBSET Id
  <2>1. \A id \in own : now[id[1]][id[2]] \in JobSnapshot
    BY OwnSnapshots
  <2> QED
    BY <2>1
<1>4. /\ now \in [TrackedCores -> Seq(Job)]
      /\ \A c \in TrackedCores :
            /\ Len(now[c]) <= MaxJobs
            /\ Len(jobs[c]) <= Len(now[c])
            /\ \A n \in 1..Len(jobs[c]) : now[c][n] = jobs[c][n]
  <2> HIDE DEF started
  <2> QED
    BY <1>2, EnqueuedJobs
<1>5. saves + 1 \in 1..MaxSaves /\ saves + 1 \in 0..MaxSaves
  BY <1>1, BoundsAssumption DEF TrackingShape
<1>6. new \in Response
  <2> HIDE DEF auto, own
  <2>1. auto \in UNION {[S -> JobSnapshot] : S \in SUBSET Id}
    BY <1>3
  <2> QED
    BY <1>5, <2>1 DEF Response
<1> HIDE DEF new, now
<1>7. TrackingShape'
  BY <1>1, <1>4, <1>5, <1>6 DEF TrackingShape, Disturbances, Snapshots, Poll
<1>8. JobsGoOn
  <2> SUFFICES ASSUME NEW id \in Id, Known(id)
               PROVE  Known(id)' /\ StatusOf(id)' = StatusOf(id)
    BY DEF JobsGoOn
  <2>1. /\ id[1] \in TrackedCores /\ id[2] \in 1..Len(jobs[id[1]]) /\ jobs[id[1]] \in Seq(Job)
        /\ StatusOf(id) = jobs[id[1]][id[2]].status
    BY KnownJobs
  <2>2. now[id[1]][id[2]] = jobs[id[1]][id[2]] /\ id[2] <= Len(now[id[1]])
    <3>1. Len(now[id[1]]) \in Nat /\ Len(jobs[id[1]]) \in Nat
      BY <1>4, <2>1
    <3> QED
      BY <1>4, <2>1, <3>1
  <2>3. Known(id)'
    BY <1>1, <2>2 DEF Known
  <2>4. StatusOf(id)' = now[id[1]][id[2]].status
    BY <1>1, <2>3 DEF StatusOf
  <2> QED
    BY <2>1, <2>2, <2>3, <2>4
<1>9. ASSUME NEW id \in own PROVE Known(id)'
  <2>1. id[2] = Len(now[id[1]]) /\ id[2] \in 1..MaxJobs
    BY DEF Id
  <2>2. id[2] <= Len(now[id[1]])
    BY <2>1, BoundsAssumption
  <2> QED
    BY <1>1, <2>2 DEF Known
<1>10. \A r \in responses' \ responses : \A id \in DOMAIN r.auto : Known(id)'
  BY <1>1, <1>9 DEF new
<1>11. HeldAsItIs'
  BY <1>1, <1>8, <1>10, ServerHolds
<1> QED
  BY <1>7, <1>11

\* A save with autoCoreApply off tells of no job.
LEMMA SaveOnlyTells ==
    ASSUME TrackingShape, HeldAsItIs, NEW changed \in SUBSET TrackedCores,
           NEW pending \in BOOLEAN, SaveOnly(changed, pending)
    PROVE  TrackingShape' /\ HeldAsItIs'
<1> DEFINE new == [save |-> saves + 1, changed |-> changed, refused |-> {},
                   auto |-> <<>>, pending |-> pending]
<1>1. /\ responses' = responses \cup {new} /\ saves' = saves + 1 /\ saves < MaxSaves
      /\ UNCHANGED <<jobs, restarts, tracked, timer, polls, announced, trackings, overlaps,
                     faults, reloads>>
  BY DEF SaveOnly, browser, history
<1>2. saves + 1 \in 1..MaxSaves /\ saves + 1 \in 0..MaxSaves
  BY <1>1, BoundsAssumption DEF TrackingShape
<1>3. new \in Response
  <2>1. <<>> \in UNION {[S -> JobSnapshot] : S \in SUBSET Id}
    BY EmptyIsMap DEF Snapshots
  <2> QED
    BY <1>2, <2>1 DEF Response
<1>4. DOMAIN new.auto = {}
  BY EmptyIsMap
<1> HIDE DEF new
<1>5. TrackingShape'
  BY <1>1, <1>2, <1>3 DEF TrackingShape, Disturbances, Snapshots, Poll
<1>6. \A id \in Id : Known(id)' = Known(id) /\ StatusOf(id)' = StatusOf(id)
  BY <1>1 DEF Known, StatusOf
<1>7. JobsGoOn
  BY <1>6 DEF JobsGoOn
<1>8. HeldAsItIs'
  BY <1>1, <1>4, <1>6, <1>7, ServerHolds DEF HeldAsItIs
<1> QED
  BY <1>5, <1>8

\* An active job is set: it waits for a retry or ends.
LEMMA SetJobTells ==
    ASSUME TrackingShape, HeldAsItIs, NEW id \in Id, StatusOf(id) = "active",
           NEW job \in Job, job.status # "forgotten", SetJob(id, job)
    PROVE  TrackingShape' /\ HeldAsItIs'
<1> DEFINE c == id[1]
           n == id[2]
           set == [jobs[c] EXCEPT ![n] = job]
<1>1. /\ jobs' = [jobs EXCEPT ![c] = set]
      /\ UNCHANGED <<saves, restarts, responses, tracked, timer, polls, announced, trackings,
                     overlaps, faults, reloads>>
  BY DEF SetJob, browser, history
<1>2. Known(id)
  BY DEF StatusOf
<1>3. c \in TrackedCores /\ n \in 1..Len(jobs[c]) /\ jobs[c] \in Seq(Job)
  BY <1>2, KnownJobs
<1>4. set \in Seq(Job) /\ Len(set) = Len(jobs[c]) /\ set[n] = job
      /\ \A m \in 1..Len(jobs[c]) : m # n => set[m] = jobs[c][m]
  BY <1>3
<1> HIDE DEF set
<1>5. /\ jobs' \in [TrackedCores -> Seq(Job)] /\ jobs'[c] = set
      /\ \A d \in TrackedCores : d # c => jobs'[d] = jobs[d]
  BY <1>1, <1>3, <1>4 DEF TrackingShape
<1>6. \A d \in TrackedCores : Len(jobs'[d]) = Len(jobs[d])
  BY <1>4, <1>5
<1>7. TrackingShape'
  <2>1. \A d \in TrackedCores : Len(jobs'[d]) <= MaxJobs
    BY <1>6 DEF TrackingShape
  <2> QED
    BY <1>1, <1>5, <2>1 DEF TrackingShape, Disturbances, Snapshots, Poll
<1>8. JobsGoOn
  <2> SUFFICES ASSUME NEW i \in Id, Known(i)
               PROVE  Known(i)' /\ (StatusOf(i) = "active" \/ StatusOf(i)' = StatusOf(i))
    BY DEF JobsGoOn
  <2>1. /\ i[1] \in TrackedCores /\ i[2] \in 1..Len(jobs[i[1]])
        /\ StatusOf(i) = jobs[i[1]][i[2]].status
    BY KnownJobs
  <2>2. Known(i)'
    BY <1>6, <2>1 DEF Known
  <2>3. StatusOf(i)' = jobs'[i[1]][i[2]].status
    BY <2>2 DEF StatusOf
  <2>4. CASE i[1] = c /\ i[2] = n
    <3>1. StatusOf(i) = StatusOf(id)
      BY <2>4 DEF StatusOf, Known
    <3> QED
      BY <2>2, <3>1
  <2>5. CASE i[1] # c
    BY <1>5, <2>1, <2>2, <2>3, <2>5
  <2>6. CASE i[1] = c /\ i[2] # n
    BY <1>4, <1>5, <2>1, <2>2, <2>3, <2>6
  <2> QED
    BY <2>4, <2>5, <2>6
<1>9. HeldAsItIs'
  BY <1>1, <1>8, ServerHolds
<1> QED
  BY <1>7, <1>9

\* A restart forgets what it does not lose.
LEMMA RestartTells ==
    ASSUME TrackingShape, HeldAsItIs, Restart
    PROVE  TrackingShape' /\ HeldAsItIs'
<1> DEFINE gone(c) == [n \in 1..Len(jobs[c]) |-> [jobs[c][n] EXCEPT !.status = "forgotten"]]
<1>1. /\ jobs' = [c \in TrackedCores |-> gone(c)]
      /\ restarts' = restarts + 1 /\ Disturbances < MaxFaults
      /\ UNCHANGED <<saves, responses, tracked, timer, polls, announced, trackings, overlaps,
                     faults, reloads>>
  BY DEF Restart, browser, history
<1>2. ASSUME NEW c \in TrackedCores
      PROVE  /\ gone(c) \in Seq(Job) /\ Len(gone(c)) = Len(jobs[c])
             /\ \A n \in 1..Len(jobs[c]) : gone(c)[n].status = "forgotten"
  <2>1. jobs[c] \in Seq(Job)
    BY DEF TrackingShape
  <2>2. \A n \in 1..Len(jobs[c]) : jobs[c][n] \in Job
    BY <2>1
  <2>3. \A n \in 1..Len(jobs[c]) : /\ [jobs[c][n] EXCEPT !.status = "forgotten"] \in Job
                                   /\ [jobs[c][n] EXCEPT !.status = "forgotten"].status = "forgotten"
    BY <2>2 DEF Job, JobStatus
  <2>4. Len(jobs[c]) \in Nat /\ gone(c) \in [1..Len(jobs[c]) -> Job]
    BY <2>1, <2>3
  <2>5. \A n \in 1..Len(jobs[c]) : gone(c)[n].status = "forgotten"
    BY <2>3
  <2> QED
    BY <2>4, <2>5
<1>3. \A c \in TrackedCores : jobs'[c] = gone(c)
  BY <1>1
<1>4. jobs' \in [TrackedCores -> Seq(Job)]
  BY <1>1, <1>2
<1> HIDE DEF gone
<1>5. \A c \in TrackedCores : Len(jobs'[c]) = Len(jobs[c])
  BY <1>2, <1>3
<1>6. TrackingShape'
  <2>1. \A d \in TrackedCores : Len(jobs'[d]) <= MaxJobs
    BY <1>5 DEF TrackingShape
  <2>2. Disturbances' <= MaxFaults /\ restarts' \in Nat
    BY <1>1, BoundsAssumption DEF TrackingShape, Disturbances
  <2> QED
    BY <1>1, <1>4, <2>1, <2>2 DEF TrackingShape, Snapshots, Poll
<1>7. JobsGoOn
  <2> SUFFICES ASSUME NEW i \in Id, Known(i)
               PROVE  Known(i)' /\ StatusOf(i)' = "forgotten"
    BY DEF JobsGoOn
  <2>1. i[1] \in TrackedCores /\ i[2] \in 1..Len(jobs[i[1]])
    BY KnownJobs
  <2>2. Known(i)'
    BY <1>5, <2>1 DEF Known
  <2> QED
    BY <1>2, <1>3, <2>1, <2>2 DEF StatusOf
<1>8. HeldAsItIs'
  BY <1>1, <1>7, ServerHolds
<1> QED
  BY <1>6, <1>8

-----------------------------------------------------------------------------
(* The browser *)

\* A poll in flight asks for jobs that are followed and has answers to some.
LEMMA PollsAreMaps ==
    ASSUME TrackingShape, NEW p \in DOMAIN polls
    PROVE  /\ p \in 1..Len(polls) /\ Len(polls) \in Nat
           /\ polls[p] \in Poll
           /\ polls[p].asks \in Snapshots /\ DOMAIN polls[p].asks \subseteq Id
           /\ polls[p].answers \in Snapshots /\ DOMAIN polls[p].answers \subseteq Id
<1>1. polls \in Seq(Poll)
  BY DEF TrackingShape
<1>2. p \in 1..Len(polls) /\ Len(polls) \in Nat /\ polls[p] \in Poll
  BY <1>1
<1>3. polls[p].asks \in Snapshots /\ polls[p].answers \in Snapshots
  BY <1>2 DEF Poll
<1> QED
  BY <1>2, <1>3, SnapshotsAreMaps

\* ShowSave: the active jobs of the response are followed, and counted.
LEMMA ShowTells ==
    ASSUME ToldInv, NEW r \in responses, ShowSave(r)
    PROVE  TrackingShape' /\ HeldAsItIs' /\ OwedOnce'
<1> DEFINE new == ToTrack(r)
           more == [id \in new |-> r.auto[id]]
<1>1. TrackingShape /\ HeldAsItIs /\ OwedOnce
  BY DEF ToldInv
<1>2. /\ responses' = responses \ {r} /\ tracked' = WithJobs(tracked, more)
      /\ timer' = (timer \/ new # {})
      /\ trackings' = [id \in Id |-> trackings[id] + (IF id \in new THEN 1 ELSE 0)]
      /\ overlaps' = overlaps + (IF new # {} /\ polls # <<>> THEN 1 ELSE 0)
      /\ UNCHANGED <<jobs, saves, restarts, polls, announced, faults, reloads>>
  BY DEF ShowSave, server
<1>3. r.auto \in Snapshots
  BY <1>1 DEF TrackingShape, Response, Snapshots
<1>4. /\ new \subseteq DOMAIN r.auto
      /\ \A id \in new : Known(id) /\ r.auto[id].status = "active"
  BY <1>1 DEF ToTrack, coreApplyJobActive, HeldAsItIs
<1>5. more \in Snapshots /\ DOMAIN more = new /\ new \subseteq Id
  <2>1. DOMAIN r.auto \subseteq Id /\ r.auto \in [DOMAIN r.auto -> JobSnapshot]
    BY <1>3, SnapshotsAreMaps
  <2>2. new \subseteq Id /\ more \in [new -> JobSnapshot]
    BY <1>4, <2>1
  <2>3. DOMAIN more = new
    OBVIOUS
  <2> HIDE DEF more, new
  <2> QED
    BY <2>2, <2>3, SnapshotsAreMaps
<1>6. \A id \in new : more[id].status = "active"
  BY <1>4
<1> HIDE DEF more, new
<1>7. /\ tracked' \in Snapshots /\ DOMAIN tracked' = DOMAIN tracked \cup new
      /\ \A id \in new : tracked'[id] = more[id]
      /\ \A id \in DOMAIN tracked \ new : tracked'[id] = tracked[id]
  <2>1. tracked \in Snapshots
    BY <1>1 DEF TrackingShape
  <2>2. /\ WithJobs(tracked, more) \in Snapshots
        /\ DOMAIN WithJobs(tracked, more) = DOMAIN tracked \cup DOMAIN more
        /\ \A id \in DOMAIN more : WithJobs(tracked, more)[id] = more[id]
        /\ \A id \in DOMAIN tracked \ DOMAIN more : WithJobs(tracked, more)[id] = tracked[id]
    BY <1>5, <2>1, WithJobsIsMap
  <2> QED
    BY <1>2, <1>5, <2>2
<1>8. TrackingShape'
  <2>1. trackings' \in [Id -> Nat]
    BY <1>1, <1>2 DEF TrackingShape
  <2>2. overlaps' \in Nat /\ timer' \in BOOLEAN
    BY <1>1, <1>2 DEF TrackingShape
  <2> QED
    BY <1>1, <1>2, <1>7, <2>1, <2>2 DEF TrackingShape, Disturbances, Snapshots, Poll
<1>9. HeldAsItIs'
  <2>1. \A id \in Id : Known(id)' = Known(id) /\ StatusOf(id)' = StatusOf(id)
    BY <1>2 DEF Known, StatusOf
  <2>2. FollowedMap(tracked)'
    <3> SUFFICES ASSUME NEW id \in DOMAIN tracked'
                 PROVE  Known(id)' /\ tracked'[id].status = "active"
      BY DEF FollowedMap
    <3>1. Known(id) = Known(id)'
      BY <1>2 DEF Known
    <3>2. CASE id \in new
      BY <1>4, <1>6, <1>7, <3>1, <3>2
    <3>3. CASE id \in DOMAIN tracked \ new
      BY <1>1, <1>7, <3>1, <3>3 DEF HeldAsItIs, FollowedMap
    <3> QED
      BY <1>7, <3>2, <3>3
  <2> QED
    BY <1>1, <1>2, <2>2 DEF HeldAsItIs, FollowedMap, Stands, AnnouncedAsItEnded, Known, StatusOf
<1>10. OwedOnce'
  <2> SUFFICES ASSUME overlaps' = 0
               PROVE  /\ \A p \in DOMAIN polls : DOMAIN polls[p].asks \subseteq DOMAIN tracked'
                      /\ \A id \in Id : Len(announced[id])
                            + (IF id \in DOMAIN tracked' THEN 1 ELSE 0) <= trackings'[id]
    BY <1>2 DEF OwedOnce
  <2>1. overlaps = 0
    BY <1>1, <1>2 DEF TrackingShape
  <2>2. \A p \in DOMAIN polls : DOMAIN polls[p].asks \subseteq DOMAIN tracked'
    BY <1>1, <1>7, <2>1 DEF OwedOnce
  <2>3. ASSUME NEW id \in Id
        PROVE  Len(announced[id]) + (IF id \in DOMAIN tracked' THEN 1 ELSE 0) <= trackings'[id]
    <3>1. Len(announced[id]) \in Nat /\ trackings[id] \in Nat
      <4>1. announced[id] \in Seq(Ended) /\ trackings[id] \in Nat
        BY <1>1 DEF TrackingShape
      <4> QED
        BY <4>1
    <3>2. Len(announced[id]) + (IF id \in DOMAIN tracked THEN 1 ELSE 0) <= trackings[id]
      BY <1>1, <2>1 DEF OwedOnce
    <3>3. trackings'[id] = trackings[id] + (IF id \in new THEN 1 ELSE 0)
      BY <1>2
    <3> DEFINE before == IF id \in DOMAIN tracked THEN 1 ELSE 0
               now == IF id \in DOMAIN tracked' THEN 1 ELSE 0
    <3>4. before \in {0, 1} /\ now \in {0, 1}
      OBVIOUS
    <3>5. CASE id \in new
      <4>1. trackings'[id] = trackings[id] + 1
        BY <3>3, <3>5
      <4> HIDE DEF before, now
      <4>2. Len(announced[id]) + before <= trackings[id]
        BY <3>2 DEF before
      <4>3. Len(announced[id]) + now <= trackings'[id]
        BY <3>1, <3>4, <4>1, <4>2
      <4> QED
        BY <4>3 DEF now
    <3>6. CASE id \notin new
      <4>1. now = before
        BY <1>7, <3>6
      <4>2. trackings'[id] = trackings[id]
        BY <3>1, <3>3, <3>6
      <4>3. Len(announced[id]) + before <= trackings[id]
        BY <3>2
      <4> HIDE DEF before, now
      <4>4. Len(announced[id]) + now <= trackings'[id]
        BY <4>1, <4>2, <4>3
      <4> QED
        BY <4>4 DEF now
    <3> QED
      BY <3>5, <3>6
  <2> QED
    BY <2>2, <2>3
<1> QED
  BY <1>8, <1>9, <1>10

\* PollBegins: what is tracked is asked for.
LEMMA BeginTells ==
    ASSUME ToldInv, PollBegins
    PROVE  TrackingShape' /\ HeldAsItIs' /\ OwedOnce'
<1> DEFINE poll == [asks |-> tracked, answers |-> <<>>]
<1>1. TrackingShape /\ HeldAsItIs /\ OwedOnce
  BY DEF ToldInv
<1>2. /\ timer' = FALSE /\ polls' = Append(polls, poll)
      /\ UNCHANGED <<jobs, saves, restarts, responses, tracked, announced, trackings, overlaps,
                     faults, reloads>>
  BY DEF PollBegins, server, history
<1>3. poll \in Poll /\ DOMAIN poll.answers = {} /\ poll.asks = tracked
  BY <1>1, EmptyIsMap DEF Poll, TrackingShape
<1> HIDE DEF poll
<1>4. /\ polls' \in Seq(Poll)
      /\ DOMAIN polls' = DOMAIN polls \cup {Len(polls) + 1}
      /\ \A p \in DOMAIN polls : polls'[p] = polls[p]
      /\ polls'[Len(polls) + 1] = poll
  <2>1. polls \in Seq(Poll)
    BY <1>1 DEF TrackingShape
  <2> QED
    BY <1>2, <1>3, <2>1
<1>5. \A p \in DOMAIN polls' : p \in DOMAIN polls \/ polls'[p] = poll
  BY <1>4
<1>6. \A p \in DOMAIN polls' : DOMAIN polls'[p].answers \subseteq DOMAIN polls'[p].asks
  BY <1>1, <1>3, <1>4, <1>5 DEF TrackingShape
<1>7. TrackingShape'
  BY <1>1, <1>2, <1>4, <1>6 DEF TrackingShape, Disturbances, Snapshots, Poll
<1>8. HeldAsItIs'
  <2>1. \A p \in DOMAIN polls' : \A id \in DOMAIN polls'[p].asks :
            Known(id) /\ polls'[p].asks[id].status = "active"
    BY <1>1, <1>3, <1>4, <1>5 DEF HeldAsItIs, FollowedMap
  <2>2. \A p \in DOMAIN polls' : \A id \in DOMAIN polls'[p].answers :
            Stands(id, polls'[p].answers[id].status)
    BY <1>1, <1>3, <1>4, <1>5 DEF HeldAsItIs
  <2> QED
    BY <1>1, <1>2, <2>1, <2>2 DEF HeldAsItIs, FollowedMap, Stands, AnnouncedAsItEnded, Known, StatusOf
<1>9. OwedOnce'
  <2>1. overlaps = 0 => \A p \in DOMAIN polls' : DOMAIN polls'[p].asks \subseteq DOMAIN tracked
    BY <1>1, <1>3, <1>4, <1>5 DEF OwedOnce
  <2> QED
    BY <1>1, <1>2, <2>1 DEF OwedOnce
<1> QED
  BY <1>7, <1>8, <1>9

\* Got: one more answer of a poll, which stands.
LEMMA GotTells ==
    ASSUME ToldInv, NEW p \in DOMAIN polls, NEW id \in DOMAIN polls[p].asks,
           NEW snapshot \in JobSnapshot, Stands(id, snapshot.status), Got(p, id, snapshot),
           UNCHANGED <<jobs, saves, restarts, responses, tracked, timer, announced, trackings,
                       overlaps, reloads>>,
           faults' \in Nat, Disturbances' <= MaxFaults
    PROVE  TrackingShape' /\ HeldAsItIs' /\ OwedOnce'
<1> DEFINE one == [i \in {id} |-> snapshot]
           answers == WithJobs(polls[p].answers, one)
           poll == [polls[p] EXCEPT !.answers = answers]
<1>1. TrackingShape /\ HeldAsItIs /\ OwedOnce
  BY DEF ToldInv
<1>2. /\ polls[p] \in Poll /\ polls[p].answers \in Snapshots
      /\ id \in Id /\ polls \in Seq(Poll)
  BY <1>1, PollsAreMaps DEF TrackingShape
<1>3. one \in Snapshots /\ DOMAIN one = {id} /\ one[id] = snapshot
  <2>1. DOMAIN one = {id} /\ one \in [{id} -> JobSnapshot] /\ one[id] = snapshot
    OBVIOUS
  <2> HIDE DEF one
  <2> QED
    BY <1>2, <2>1, SnapshotsAreMaps
<1>4. polls' = [polls EXCEPT ![p] = poll]
  BY DEF Got
<1> HIDE DEF one
<1>5. /\ answers \in Snapshots /\ DOMAIN answers = DOMAIN polls[p].answers \cup {id}
      /\ answers[id] = snapshot
      /\ \A i \in DOMAIN polls[p].answers : i # id => answers[i] = polls[p].answers[i]
  <2>1. /\ WithJobs(polls[p].answers, one) \in Snapshots
        /\ DOMAIN WithJobs(polls[p].answers, one) = DOMAIN polls[p].answers \cup DOMAIN one
        /\ \A i \in DOMAIN one : WithJobs(polls[p].answers, one)[i] = one[i]
        /\ \A i \in DOMAIN polls[p].answers \ DOMAIN one :
              WithJobs(polls[p].answers, one)[i] = polls[p].answers[i]
    BY <1>2, <1>3, WithJobsIsMap
  <2> QED
    BY <1>3, <2>1
<1> HIDE DEF answers
<1>6. poll \in Poll /\ poll.asks = polls[p].asks /\ poll.answers = answers
  BY <1>2, <1>5 DEF Poll
<1> HIDE DEF poll
<1>7. /\ polls' \in Seq(Poll) /\ DOMAIN polls' = DOMAIN polls
      /\ polls'[p] = poll /\ \A q \in DOMAIN polls : q # p => polls'[q] = polls[q]
  BY <1>2, <1>4, <1>6
<1>8. \A q \in DOMAIN polls : polls'[q].asks = polls[q].asks
  BY <1>6, <1>7
<1>9. \A q \in DOMAIN polls : \A i \in DOMAIN polls'[q].answers :
          \/ i \in DOMAIN polls[q].answers /\ polls'[q].answers[i] = polls[q].answers[i]
          \/ i \in DOMAIN polls[q].asks /\ i = id /\ polls'[q].answers[i] = snapshot
  BY <1>5, <1>6, <1>7
<1>10. TrackingShape'
  <2>1. \A q \in DOMAIN polls' : DOMAIN polls'[q].answers \subseteq DOMAIN polls'[q].asks
    BY <1>1, <1>7, <1>8, <1>9 DEF TrackingShape
  <2> QED
    BY <1>1, <1>7, <2>1 DEF TrackingShape, Snapshots, Poll
<1>11. HeldAsItIs'
  <2>1. \A q \in DOMAIN polls' : \A i \in DOMAIN polls'[q].asks :
            Known(i) /\ polls'[q].asks[i].status = "active"
    BY <1>1, <1>7, <1>8 DEF HeldAsItIs, FollowedMap
  <2>2. \A q \in DOMAIN polls' : \A i \in DOMAIN polls'[q].answers :
            Stands(i, polls'[q].answers[i].status)
    BY <1>1, <1>7, <1>9 DEF HeldAsItIs
  <2> QED
    BY <1>1, <2>1, <2>2 DEF HeldAsItIs, FollowedMap, Stands, AnnouncedAsItEnded, Known, StatusOf
<1>12. OwedOnce'
  BY <1>1, <1>7, <1>8 DEF OwedOnce
<1> QED
  BY <1>10, <1>11, <1>12

\* Answer, AnswerFails: the job as it is now, or as the poll has known it.
LEMMA AnswerTells ==
    ASSUME ToldInv, NEW p \in DOMAIN polls, NEW id \in DOMAIN polls[p].asks,
           Answer(p, id) \/ AnswerFails(p, id)
    PROVE  TrackingShape' /\ HeldAsItIs' /\ OwedOnce'
<1>1. TrackingShape /\ HeldAsItIs
  BY DEF ToldInv
<1>2. /\ UNCHANGED <<jobs, saves, restarts, responses, tracked, timer, announced, trackings,
                     overlaps, reloads>>
      /\ \/ faults' = faults
         \/ faults' = faults + 1 /\ Disturbances < MaxFaults
  BY DEF Answer, AnswerFails, server, history
<1>3. faults' \in Nat /\ Disturbances' <= MaxFaults
  BY <1>1, <1>2, BoundsAssumption DEF TrackingShape, Disturbances
<1>4. id \in Id /\ polls[p].asks \in Snapshots
  BY <1>1, PollsAreMaps
<1>5. Known(id) /\ polls[p].asks[id].status = "active"
  BY <1>1 DEF HeldAsItIs, FollowedMap
<1>6. CASE Answer(p, id)
  <2> DEFINE job == jobs[id[1]][id[2]]
  <2>1. job \in Job /\ StatusOf(id) = job.status
    BY <1>1, <1>4, <1>5, KnownJobs
  <2>2. job.status # "forgotten" /\ Got(p, id, job)
    BY <1>6, <2>1 DEF Answer
  <2>3. job \in JobSnapshot
    BY <2>1, <2>2 DEF Job, JobSnapshot, JobStatus
  <2>4. Stands(id, job.status)
    BY <2>1 DEF Stands
  <2> HIDE DEF job
  <2> QED
    BY <1>2, <1>3, <2>2, <2>3, <2>4, GotTells
<1>7. CASE AnswerFails(p, id)
  <2> DEFINE job == polls[p].asks[id]
  <2>1. Got(p, id, job)
    BY <1>7 DEF AnswerFails
  <2>2. job \in JobSnapshot
    BY <1>4, SnapshotsAreMaps
  <2>3. Stands(id, job.status)
    BY <1>5 DEF Stands, Ended
  <2> HIDE DEF job
  <2> QED
    BY <1>2, <1>3, <2>1, <2>2, <2>3, GotTells
<1> QED
  BY <1>6, <1>7

\* A poll that ended is taken out: the others are as they were.
LEMMA RemoveKeepsOthers ==
    ASSUME NEW S, NEW s \in Seq(S), NEW p \in DOMAIN s
    PROVE  /\ RemoveNth(s, p) \in Seq(S)
           /\ Len(RemoveNth(s, p)) = Len(s) - 1
           /\ \A q \in DOMAIN RemoveNth(s, p) : \E i \in DOMAIN s : RemoveNth(s, p)[q] = s[i]
<1>1. Len(s) \in Nat /\ p \in 1..Len(s) /\ \A i \in 1..Len(s) : s[i] \in S
  OBVIOUS
<1> DEFINE u == RemoveNth(s, p)
<1>2. Len(s) - 1 \in Nat /\ u \in [1..(Len(s) - 1) -> S]
  BY <1>1 DEF RemoveNth
<1>3. \A q \in 1..(Len(s) - 1) : u[q] = IF q < p THEN s[q] ELSE s[q + 1]
  BY DEF RemoveNth
<1> HIDE DEF u
<1>4. u \in Seq(S) /\ Len(u) = Len(s) - 1 /\ DOMAIN u = 1..(Len(s) - 1)
  BY <1>2
<1>5. ASSUME NEW q \in DOMAIN u PROVE \E i \in DOMAIN s : u[q] = s[i]
  <2>1. q \in 1..Len(s) /\ q + 1 \in 1..Len(s) /\ DOMAIN s = 1..Len(s)
    BY <1>1, <1>4
  <2>2. u[q] = s[q] \/ u[q] = s[q + 1]
    BY <1>3, <1>4
  <2> QED
    BY <2>1, <2>2
<1> QED
  BY <1>4, <1>5 DEF u

\* What a poll leaves tracked: what was tracked or answered, without the ends.
LEMMA TrackedAfterIsMap ==
    ASSUME TrackingShape, NEW answers \in Snapshots
    PROVE  /\ TrackedAfter(answers) \in Snapshots
           /\ DOMAIN TrackedAfter(answers) = (DOMAIN tracked \cup DOMAIN answers) \ EndedIn(answers)
           /\ \A id \in DOMAIN TrackedAfter(answers) :
                 \/ id \in DOMAIN answers /\ answers[id].status = "active"
                       /\ TrackedAfter(answers)[id] = answers[id]
                 \/ id \in DOMAIN tracked /\ TrackedAfter(answers)[id] = tracked[id]
<1> DEFINE kept == WithJobs(tracked, answers)
           after == [id \in DOMAIN kept \ EndedIn(answers) |-> kept[id]]
<1>1. tracked \in Snapshots
  BY DEF TrackingShape
<1>2. /\ kept \in Snapshots /\ DOMAIN kept = DOMAIN tracked \cup DOMAIN answers
      /\ \A id \in DOMAIN answers : kept[id] = answers[id]
      /\ \A id \in DOMAIN tracked \ DOMAIN answers : kept[id] = tracked[id]
  BY <1>1, WithJobsIsMap
<1>3. TrackedAfter(answers) = after
  BY DEF TrackedAfter
<1> HIDE DEF kept
<1>4. after \in Snapshots /\ DOMAIN after = DOMAIN kept \ EndedIn(answers)
  BY <1>2, RestrictedIsMap
<1>5. \A id \in DOMAIN kept \ EndedIn(answers) : after[id] = kept[id]
  OBVIOUS
<1> HIDE DEF after
<1>6. ASSUME NEW id \in DOMAIN answers, id \notin EndedIn(answers)
      PROVE  answers[id].status = "active"
  <2>1. answers[id] \in JobSnapshot
    BY SnapshotsAreMaps
  <2>2. answers[id].status \in Ended \cup {"active"}
    BY <2>1 DEF JobSnapshot
  <2> QED
    BY <1>6, <2>2 DEF EndedIn
<1> QED
  BY <1>2, <1>3, <1>4, <1>5, <1>6

\* PollEnds: the ends that were read are announced and no longer tracked.
LEMMA EndTells ==
    ASSUME ToldInv, NEW p \in DOMAIN polls, PollEnds(p)
    PROVE  TrackingShape' /\ HeldAsItIs' /\ OwedOnce'
<1> DEFINE answers == polls[p].answers
           ended == EndedIn(answers)
<1>1. TrackingShape /\ HeldAsItIs /\ OwedOnce /\ PollsInv
  BY DEF ToldInv
<1>2. /\ DOMAIN answers = DOMAIN polls[p].asks
      /\ polls' = RemoveNth(polls, p)
      /\ tracked' = TrackedAfter(answers)
      /\ timer' = (timer \/ DOMAIN TrackedAfter(answers) # {})
      /\ announced' = [id \in Id |-> IF id \in ended
                                     THEN Append(announced[id], answers[id].status)
                                     ELSE announced[id]]
      /\ UNCHANGED <<jobs, saves, restarts, responses, trackings, overlaps, faults, reloads>>
  BY DEF PollEnds, server
<1>3. answers \in Snapshots /\ DOMAIN answers \subseteq Id
  BY <1>1, PollsAreMaps
<1>4. /\ \A id \in DOMAIN answers : Known(id) /\ Stands(id, answers[id].status)
      /\ \A id \in ended : id \in DOMAIN answers /\ answers[id].status \in Ended
  BY <1>1, <1>2 DEF HeldAsItIs, FollowedMap, EndedIn
<1> HIDE DEF answers, ended
<1>5. /\ tracked' \in Snapshots
      /\ DOMAIN tracked' = (DOMAIN tracked \cup DOMAIN answers) \ ended
      /\ \A id \in DOMAIN tracked' :
            \/ id \in DOMAIN answers /\ answers[id].status = "active" /\ tracked'[id] = answers[id]
            \/ id \in DOMAIN tracked /\ tracked'[id] = tracked[id]
  BY <1>1, <1>2, <1>3, TrackedAfterIsMap DEF ended
<1>6. /\ polls' \in Seq(Poll) /\ Len(polls') = Len(polls) - 1
      /\ \A q \in DOMAIN polls' : \E i \in DOMAIN polls : polls'[q] = polls[i]
  <2>1. polls \in Seq(Poll)
    BY <1>1 DEF TrackingShape
  <2> QED
    BY <1>2, <2>1, RemoveKeepsOthers
<1>7. ASSUME NEW id \in Id
      PROVE  /\ announced[id] \in Seq(Ended) /\ Len(announced[id]) \in Nat
             /\ announced'[id] \in Seq(Ended)
             /\ id \notin ended => announced'[id] = announced[id]
             /\ id \in ended => /\ Len(announced'[id]) = Len(announced[id]) + 1
                                /\ \A k \in DOMAIN announced'[id] :
                                      \/ k \in DOMAIN announced[id]
                                            /\ announced'[id][k] = announced[id][k]
                                      \/ announced'[id][k] = answers[id].status
  <2>1. announced[id] \in Seq(Ended) /\ Len(announced[id]) \in Nat
    <3>1. announced[id] \in Seq(Ended)
      BY <1>1 DEF TrackingShape
    <3> QED
      BY <3>1
  <2>2. CASE id \in ended
    <3> DEFINE new == answers[id].status
    <3>1. announced'[id] = Append(announced[id], new) /\ new \in Ended
      BY <1>2, <1>4, <2>2
    <3> HIDE DEF new
    <3>2. /\ Append(announced[id], new) \in Seq(Ended)
          /\ Len(Append(announced[id], new)) = Len(announced[id]) + 1
          /\ \A k \in DOMAIN Append(announced[id], new) :
                \/ k \in DOMAIN announced[id] /\ Append(announced[id], new)[k] = announced[id][k]
                \/ Append(announced[id], new)[k] = new
      BY <2>1, <3>1
    <3> QED
      BY <2>1, <2>2, <3>1, <3>2 DEF new
  <2>3. CASE id \notin ended
    BY <1>2, <2>1, <2>3
  <2> QED
    BY <2>2, <2>3
<1>8. TrackingShape'
  <2>1. announced' \in [Id -> Seq(Ended)]
    <3>1. announced' = [id \in Id |-> announced'[id]]
      BY <1>2
    <3> QED
      BY <1>7, <3>1
  <2>2. \A q \in DOMAIN polls' : DOMAIN polls'[q].answers \subseteq DOMAIN polls'[q].asks
    BY <1>1, <1>6 DEF TrackingShape
  <2>3. timer' \in BOOLEAN
    BY <1>1, <1>2 DEF TrackingShape
  <2> QED
    BY <1>1, <1>2, <1>5, <1>6, <2>1, <2>2, <2>3 DEF TrackingShape, Disturbances, Snapshots, Poll
<1>9. HeldAsItIs'
  <2>1. \A id \in DOMAIN tracked' : Known(id) /\ tracked'[id].status = "active"
    BY <1>1, <1>4, <1>5 DEF HeldAsItIs, FollowedMap
  <2>2. \A q \in DOMAIN polls' : \A id \in DOMAIN polls'[q].asks :
            Known(id) /\ polls'[q].asks[id].status = "active"
    BY <1>1, <1>6 DEF HeldAsItIs, FollowedMap
  <2>3. \A q \in DOMAIN polls' : \A id \in DOMAIN polls'[q].answers :
            Stands(id, polls'[q].answers[id].status)
    BY <1>1, <1>6 DEF HeldAsItIs
  <2>4. ASSUME NEW id \in Id, NEW k \in DOMAIN announced'[id]
        PROVE  StatusOf(id) \in {announced'[id][k], "forgotten"}
    <3>1. CASE id \in ended
      <4>1. StatusOf(id) \in {answers[id].status, "forgotten"}
        BY <1>4, <3>1 DEF Stands
      <4> QED
        BY <1>1, <1>7, <3>1, <4>1 DEF HeldAsItIs, AnnouncedAsItEnded
    <3>2. CASE id \notin ended
      BY <1>1, <1>7, <3>2 DEF HeldAsItIs, AnnouncedAsItEnded
    <3> QED
      BY <3>1, <3>2
  <2> QED
    BY <1>1, <1>2, <2>1, <2>2, <2>3, <2>4
       DEF HeldAsItIs, FollowedMap, Stands, AnnouncedAsItEnded, Known, StatusOf
<1>10. OwedOnce'
  <2> SUFFICES ASSUME overlaps = 0
               PROVE  /\ DOMAIN polls' = {}
                      /\ \A id \in Id : Len(announced'[id])
                            + (IF id \in DOMAIN tracked' THEN 1 ELSE 0) <= trackings[id]
    BY <1>2 DEF OwedOnce
  <2>1. Len(polls) \in Nat /\ DOMAIN polls' = 1..Len(polls')
    BY <1>1, <1>6 DEF TrackingShape
  <2>2. Len(polls) <= 1
    BY <1>1, <2>1 DEF PollsInv, PollsAreBounded
  <2>3. DOMAIN polls' = {}
    BY <1>6, <2>1, <2>2
  <2>4. DOMAIN answers \subseteq DOMAIN tracked
    BY <1>1, <1>2 DEF OwedOnce
  <2>5. ASSUME NEW id \in Id
        PROVE  Len(announced'[id]) + (IF id \in DOMAIN tracked' THEN 1 ELSE 0) <= trackings[id]
    <3>1. Len(announced[id]) + (IF id \in DOMAIN tracked THEN 1 ELSE 0) <= trackings[id]
      BY <1>1 DEF OwedOnce
    <3>2. CASE id \in ended
      <4>1. id \in DOMAIN tracked /\ id \notin DOMAIN tracked'
        BY <1>4, <1>5, <2>4, <3>2
      <4> QED
        BY <1>7, <3>1, <3>2, <4>1
    <3>3. CASE id \notin ended
      <4>1. id \in DOMAIN tracked' <=> id \in DOMAIN tracked
        BY <1>5, <2>4, <3>3
      <4>2. announced'[id] = announced[id]
        BY <1>7, <3>3
      <4> QED
        BY <3>1, <4>1, <4>2
    <3> QED
      BY <3>2, <3>3
  <2> QED
    BY <2>3, <2>5
<1> QED
  BY <1>8, <1>9, <1>10

\* The ends announced of a job, tracked or not, are as many as it was handed
\* over.
LEMMA AnnouncedAreOwed ==
    ASSUME TrackingShape, OwedOnce, overlaps = 0, NEW id \in Id
    PROVE  Len(announced[id]) <= trackings[id]
<1> DEFINE owed == IF id \in DOMAIN tracked THEN 1 ELSE 0
<1>1. announced[id] \in Seq(Ended) /\ trackings[id] \in Nat
  BY DEF TrackingShape
<1>2. Len(announced[id]) \in Nat /\ owed \in {0, 1}
  BY <1>1
<1>3. Len(announced[id]) + owed <= trackings[id]
  BY DEF OwedOnce
<1>4. trackings[id] \in Nat
  BY <1>1
<1> HIDE DEF owed
<1> QED
  BY <1>2, <1>3, <1>4

\* Reload: nothing is held any more.
LEMMA ReloadTells ==
    ASSUME ToldInv, Reload
    PROVE  TrackingShape' /\ HeldAsItIs' /\ OwedOnce'
<1>1. TrackingShape /\ HeldAsItIs /\ OwedOnce
  BY DEF ToldInv
<1>2. /\ responses' = {} /\ tracked' = <<>> /\ timer' = FALSE /\ polls' = <<>>
      /\ reloads' = reloads + 1 /\ Disturbances < MaxFaults
      /\ UNCHANGED <<jobs, saves, restarts, announced, trackings, overlaps, faults>>
  BY DEF Reload, server, history
<1>3. tracked' \in Snapshots /\ DOMAIN tracked' = {}
  BY <1>2, EmptyIsMap
<1>4. polls' \in Seq(Poll) /\ DOMAIN polls' = {}
  BY <1>2
<1>5. reloads' \in Nat /\ Disturbances' <= MaxFaults
  BY <1>1, <1>2, BoundsAssumption DEF TrackingShape, Disturbances
<1>6. TrackingShape'
  BY <1>1, <1>2, <1>3, <1>4, <1>5 DEF TrackingShape, Snapshots, Poll
<1>7. HeldAsItIs'
  <2>1. AnnouncedAsItEnded'
    BY <1>1, <1>2 DEF HeldAsItIs, AnnouncedAsItEnded, Known, StatusOf
  <2> QED
    BY <1>2, <1>3, <1>4, <2>1 DEF HeldAsItIs, FollowedMap
<1>8. OwedOnce'
  <2>1. ASSUME overlaps = 0, NEW id \in Id PROVE Len(announced[id]) + 0 <= trackings[id]
    <3>1. announced[id] \in Seq(Ended) /\ trackings[id] \in Nat
      BY <1>1 DEF TrackingShape
    <3>2. Len(announced[id]) \in Nat
      BY <3>1
    <3>3. Len(announced[id]) <= trackings[id]
      BY <1>1, <2>1, AnnouncedAreOwed
    <3> QED
      BY <3>2, <3>3
  <2> QED
    BY <1>2, <1>3, <1>4, <2>1 DEF OwedOnce
<1> QED
  BY <1>6, <1>7, <1>8

-----------------------------------------------------------------------------
(* What is told *)

\* At first nothing was saved, tracked or announced.
LEMMA ToldInit == JobInit => ToldInv
<1> SUFFICES ASSUME JobInit PROVE ToldInv
  OBVIOUS
<1>1. PollsInv
  BY PollsInit
<1>2. tracked \in Snapshots /\ DOMAIN tracked = {}
  BY EmptyIsMap DEF JobInit
<1>3. polls \in Seq(Poll) /\ DOMAIN polls = {} /\ responses = {}
  BY DEF JobInit
<1>0. MaxSaves \in Nat /\ MaxJobs \in Nat /\ MaxFaults \in Nat
  BY BoundsAssumption
<1>4. \A c \in TrackedCores : Len(jobs[c]) <= MaxJobs /\ jobs[c] \in Seq(Job)
  <2>1. \A c \in TrackedCores : jobs[c] = <<>>
    BY DEF JobInit
  <2>2. <<>> \in Seq(Job) /\ Len(<<>>) = 0
    OBVIOUS
  <2>3. 0 <= MaxJobs
    BY <1>0
  <2> QED
    BY <2>1, <2>2, <2>3
<1>5. jobs \in [TrackedCores -> Seq(Job)]
  BY <1>4 DEF JobInit
<1>6. \A id \in Id : announced[id] = <<>> /\ DOMAIN announced[id] = {} /\ Len(announced[id]) = 0
  BY DEF JobInit
<1>7. announced \in [Id -> Seq(Ended)] /\ trackings \in [Id -> Nat]
  BY DEF JobInit
<1>8. /\ timer \in BOOLEAN /\ {overlaps, faults, restarts, reloads} \subseteq Nat
      /\ saves \in 0..MaxSaves /\ Disturbances <= MaxFaults
  <2>1. faults = 0 /\ restarts = 0 /\ reloads = 0 /\ overlaps = 0 /\ saves = 0 /\ timer = FALSE
    BY DEF JobInit
  <2>2. Disturbances <= MaxFaults
    BY <1>0, <2>1 DEF Disturbances
  <2>3. timer \in BOOLEAN
    BY <2>1
  <2>4. overlaps \in Nat /\ faults \in Nat /\ restarts \in Nat /\ reloads \in Nat
    BY <2>1
  <2>5. saves \in 0..MaxSaves
    BY <1>0, <2>1
  <2> QED
    BY <2>2, <2>3, <2>4, <2>5
<1>9. TrackingShape
  BY <1>2, <1>3, <1>4, <1>5, <1>7, <1>8 DEF TrackingShape
<1>10. HeldAsItIs
  BY <1>2, <1>3, <1>6 DEF HeldAsItIs, FollowedMap, AnnouncedAsItEnded
<1>11. OwedOnce
  <2>1. \A id \in Id : trackings[id] = 0
    BY DEF JobInit
  <2> QED
    BY <1>2, <1>3, <1>6, <2>1 DEF OwedOnce
<1> QED
  BY <1>1, <1>9, <1>10, <1>11 DEF ToldInv

\* Every step of the server and of the browser keeps the invariant.
LEMMA ToldNext == ToldInv /\ [JobNext]_trackingVars => ToldInv'
<1> SUFFICES ASSUME ToldInv, [JobNext]_trackingVars
             PROVE  ToldInv'
  OBVIOUS
<1>1. TrackingShape /\ HeldAsItIs /\ OwedOnce /\ PollsInv
  BY DEF ToldInv
<1>2. PollsInv'
  BY <1>1, PollsNext
<1> SUFFICES TrackingShape' /\ HeldAsItIs' /\ OwedOnce'
  BY <1>2 DEF ToldInv
<1>3. CASE \/ \E changed, refused, late \in SUBSET TrackedCores : \E pending \in BOOLEAN :
                  SaveChanges(changed, refused, late, pending)
           \/ \E changed \in SUBSET TrackedCores : \E pending \in BOOLEAN : SaveOnly(changed, pending)
           \/ \E id \in Id : JobRetries(id)
           \/ \E id \in Id : JobEnds(id)
           \/ Restart
  <2>1. OwedOnce'
    <3>1. UNCHANGED <<tracked, polls, announced, trackings, overlaps>>
      BY <1>3 DEF SaveChanges, SaveOnly, JobRetries, JobEnds, SetJob, Restart, browser, history
    <3> QED
      BY <1>1, <3>1 DEF OwedOnce
  <2>2. CASE \E changed, refused, late \in SUBSET TrackedCores : \E pending \in BOOLEAN :
                  SaveChanges(changed, refused, late, pending)
    BY <1>1, <2>1, <2>2, SaveChangesTells
  <2>3. CASE \E changed \in SUBSET TrackedCores : \E pending \in BOOLEAN : SaveOnly(changed, pending)
    BY <1>1, <2>1, <2>3, SaveOnlyTells
  <2>4. CASE \E id \in Id : JobRetries(id)
    <3>1. PICK id \in Id : JobRetries(id)
      BY <2>4
    <3> DEFINE job == [status |-> "active", error |-> TRUE]
    <3>2. StatusOf(id) = "active" /\ SetJob(id, job)
      BY <3>1 DEF JobRetries
    <3>3. job \in Job /\ job.status # "forgotten"
      BY DEF Job, JobStatus
    <3> HIDE DEF job
    <3> QED
      BY <1>1, <2>1, <3>2, <3>3, SetJobTells
  <2>5. CASE \E id \in Id : JobEnds(id)
    <3>1. PICK id \in Id, end \in Ended :
              StatusOf(id) = "active" /\ SetJob(id, [status |-> end, error |-> end = "failed"])
      BY <2>5 DEF JobEnds
    <3> DEFINE job == [status |-> end, error |-> end = "failed"]
    <3>2. job \in Job /\ job.status # "forgotten"
      BY DEF Job, JobStatus, Ended
    <3> HIDE DEF job
    <3> QED
      BY <1>1, <2>1, <3>1, <3>2, SetJobTells DEF job
  <2>6. CASE Restart
    BY <1>1, <2>1, <2>6, RestartTells
  <2> QED
    BY <1>3, <2>2, <2>3, <2>4, <2>5, <2>6
<1>4. CASE \E r \in responses : ShowSave(r)
  BY <1>4, ShowTells
<1>5. CASE PollBegins
  BY <1>5, BeginTells
<1>6. CASE \E p \in DOMAIN polls : \E id \in DOMAIN polls[p].asks : Answer(p, id) \/ AnswerFails(p, id)
  BY <1>6, AnswerTells
<1>7. CASE \E p \in DOMAIN polls : PollEnds(p)
  BY <1>7, EndTells
<1>8. CASE Reload
  BY <1>8, ReloadTells
<1>9. CASE UNCHANGED trackingVars
  <2>1. UNCHANGED <<jobs, saves, restarts, responses, tracked, timer, polls, announced, trackings,
                    overlaps, faults, reloads>>
    BY <1>9 DEF trackingVars, server, browser, history
  <2> QED
    BY <1>1, <2>1 DEF TrackingShape, HeldAsItIs, OwedOnce, FollowedMap, Stands, AnnouncedAsItEnded,
                      Known, StatusOf, Disturbances, Snapshots, Poll
<1> QED
  BY <1>3, <1>4, <1>5, <1>6, <1>7, <1>8, <1>9 DEF JobNext

\* A plain success follows from what the response says, case by case.
LEMMA SilenceIsRight == TrackingShape => SilenceMeansDone
<1> SUFFICES ASSUME TrackingShape, NEW r \in responses,
                    coreApplyWarning(r) = "saved", r.changed # {}
             PROVE  /\ ~r.pending /\ r.refused = {}
                    /\ \A id \in DOMAIN r.auto : r.auto[id].status = "succeeded"
  BY DEF SilenceMeansDone
<1>1. r \in Response
  BY DEF TrackingShape
<1>2. r.auto \in Snapshots /\ r.pending \in BOOLEAN
  BY <1>1 DEF Response, Snapshots
<1>3. ~autoApplyFailure(r) /\ ~autoApplyQueuedOrRunning(r) /\ ~r.pending
  BY <1>2 DEF coreApplyWarning
<1>4. ASSUME NEW id \in DOMAIN r.auto PROVE r.auto[id].status = "succeeded"
  <2>1. r.auto[id] \in JobSnapshot
    BY <1>2, SnapshotsAreMaps
  <2>2. r.auto[id].status \in {"succeeded", "failed", "active"}
    BY <2>1 DEF JobSnapshot, Ended
  <2>3. r.auto[id].status # "failed" /\ r.auto[id].status # "active"
    BY <1>3 DEF autoApplyFailure, autoApplyQueuedOrRunning, coreApplyJobActive
  <2> QED
    BY <2>2, <2>3
<1> QED
  BY <1>3, <1>4 DEF autoApplyFailure

\* The inductive invariant of what is told, for any cores and bounds.
THEOREM ToldInvariance == TrackingSpec => []ToldInv
BY ToldInit, ToldNext, PTL DEF TrackingSpec

\* ToldAsItIs: an end is announced as what it is, once for each time the job
\* was handed over while no save arms the timer during a poll, and a save is
\* shown as a plain success only when nothing is left to do.
THEOREM ToldHolds == TrackingSpec => []ToldAsItIs
<1>1. ASSUME ToldInv PROVE ToldAsItIs
  <2>1. TrackingShape /\ AnnouncedAsItEnded /\ OwedOnce
    BY <1>1 DEF ToldInv, HeldAsItIs
  <2>2. SilenceMeansDone
    BY <2>1, SilenceIsRight
  <2>3. AnnouncedOnce
    BY <2>1, AnnouncedAreOwed DEF AnnouncedOnce
  <2> QED
    BY <2>1, <2>2, <2>3 DEF ToldAsItIs
<1> QED
  BY <1>1, ToldInvariance, PTL

\* TrackingTypeOK: snapshots, timers, polls and announcements keep to their
\* types, and the counters to their bounds.
THEOREM TrackingTypeCorrect == TrackingSpec => []TrackingTypeOK
<1>1. ASSUME TrackingShape PROVE TrackingTypeOK
  <2>1. DOMAIN tracked \subseteq Id /\ \A id \in DOMAIN tracked : tracked[id] \in JobSnapshot
    BY <1>1, SnapshotsAreMaps DEF TrackingShape
  <2>2. Disturbances \in 0..MaxFaults
    BY <1>1, BoundsAssumption DEF TrackingShape, Disturbances
  <2>3. \A c \in TrackedCores : jobs[c] \in Seq(Job) /\ Len(jobs[c]) <= MaxJobs
    BY <1>1 DEF TrackingShape
  <2>4. \A id \in Id : announced[id] \in Seq(Ended)
    BY <1>1 DEF TrackingShape
  <2> QED
    BY <1>1, <2>1, <2>2, <2>3, <2>4 DEF TrackingShape, TrackingTypeOK
<1>2. ToldInv => TrackingTypeOK
  BY <1>1 DEF ToldInv
<1> QED
  BY <1>2, ToldInvariance, PTL

-----------------------------------------------------------------------------
(* What is owed is asked for *)

\* A poll that ends announces, or leaves tracked and the timer set.
LEMMA EndIsAskedFor ==
    ASSUME ToldInv, OwedEndsAreAskedFor, NEW p \in DOMAIN polls, PollEnds(p)
    PROVE  OwedEndsAreAskedFor'
<1> DEFINE answers == polls[p].answers
           ended == EndedIn(answers)
<1>1. TrackingShape
  BY DEF ToldInv
<1>2. /\ tracked' = TrackedAfter(answers)
      /\ timer' = (timer \/ DOMAIN TrackedAfter(answers) # {})
      /\ announced' = [id \in Id |-> IF id \in ended
                                     THEN Append(announced[id], answers[id].status)
                                     ELSE announced[id]]
      /\ UNCHANGED <<trackings, reloads>>
  BY DEF PollEnds
<1>3. answers \in Snapshots
  BY <1>1, PollsAreMaps
<1>4. \A id \in ended : answers[id].status \in Ended
  BY DEF EndedIn
<1> HIDE DEF answers, ended
<1>5. DOMAIN tracked' = (DOMAIN tracked \cup DOMAIN answers) \ ended
  BY <1>1, <1>2, <1>3, TrackedAfterIsMap DEF ended
<1>6. ASSUME NEW id \in Id, announced'[id] = <<>>
      PROVE  id \notin ended /\ announced[id] = <<>>
  <2>1. announced[id] \in Seq(Ended)
    BY <1>1 DEF TrackingShape
  <2>2. ASSUME id \in ended PROVE FALSE
    <3>1. Append(announced[id], answers[id].status) = <<>>
      BY <1>2, <1>6, <2>2
    <3>2. Len(Append(announced[id], answers[id].status)) = Len(announced[id]) + 1
      BY <1>4, <2>1, <2>2
    <3>3. Len(announced[id]) \in Nat
      BY <2>1
    <3> QED
      BY <3>1, <3>2, <3>3, EmptyIsSequence
  <2> QED
    BY <1>2, <1>6, <2>2
<1>7. ASSUME NEW id \in Id, trackings'[id] > 0, announced'[id] = <<>>, reloads' = 0
      PROVE  id \in DOMAIN tracked'
  BY <1>2, <1>5, <1>6, <1>7 DEF OwedEndsAreAskedFor
<1>8. DOMAIN tracked' # {} => timer'
  BY <1>2
<1> QED
  BY <1>7, <1>8 DEF OwedEndsAreAskedFor

\* A save that hands jobs over sets the timer.
LEMMA ShowIsAskedFor ==
    ASSUME ToldInv, OwedEndsAreAskedFor, NEW r \in responses, ShowSave(r)
    PROVE  OwedEndsAreAskedFor'
<1> DEFINE new == ToTrack(r)
           handed == [id \in new |-> r.auto[id]]
<1>1. /\ tracked' = WithJobs(tracked, handed)
      /\ timer' = (timer \/ new # {})
      /\ trackings' = [id \in Id |-> trackings[id] + (IF id \in new THEN 1 ELSE 0)]
      /\ UNCHANGED <<polls, announced, reloads>>
  BY DEF ShowSave
<1>2. \A id \in Id : trackings[id] \in Nat
  BY DEF ToldInv, TrackingShape
<1> HIDE DEF new
<1>3. DOMAIN tracked' = DOMAIN tracked \cup new
  BY <1>1 DEF WithJobs
<1>4. ASSUME NEW id \in Id, trackings'[id] > 0, announced'[id] = <<>>, reloads' = 0
      PROVE  id \in DOMAIN tracked'
  <2>1. CASE id \in new
    BY <1>3, <2>1
  <2>2. CASE id \notin new
    <3>1. trackings[id] > 0
      BY <1>1, <1>2, <1>4, <2>2
    <3> QED
      BY <1>1, <1>3, <1>4, <3>1 DEF OwedEndsAreAskedFor
  <2> QED
    BY <2>1, <2>2
<1>5. DOMAIN tracked' # {} => timer' \/ polls' # <<>>
  BY <1>1, <1>3 DEF OwedEndsAreAskedFor
<1> QED
  BY <1>4, <1>5 DEF OwedEndsAreAskedFor

\* The poll that the timer starts asks in its place.
LEMMA BeginIsAskedFor ==
    ASSUME ToldInv, OwedEndsAreAskedFor, PollBegins
    PROVE  OwedEndsAreAskedFor'
<1>1. /\ UNCHANGED <<tracked, announced, trackings, reloads>>
      /\ polls' = Append(polls, [asks |-> tracked, answers |-> <<>>])
  BY DEF PollBegins, history
<1>2. IsSequence(polls)
  BY DEF ToldInv, PollsInv
<1>3. polls' # <<>>
  BY <1>1, <1>2, AppendIsSequence, EmptyIsSequence, LengthIsNatural
<1> QED
  BY <1>1, <1>3 DEF OwedEndsAreAskedFor

\* An answer, or the failure of a request, leaves its poll under way.
LEMMA AnswerIsAskedFor ==
    ASSUME ToldInv, OwedEndsAreAskedFor, NEW p \in DOMAIN polls, NEW id \in DOMAIN polls[p].asks,
           Answer(p, id) \/ AnswerFails(p, id)
    PROVE  OwedEndsAreAskedFor'
<1>1. UNCHANGED <<tracked, timer, announced, trackings, reloads>>
  BY DEF Answer, AnswerFails, history
<1>2. PICK x : polls' = [polls EXCEPT ![p] = x]
  BY DEF Answer, AnswerFails, Got
<1>3. IsSequence(polls)
  BY DEF ToldInv, PollsInv
<1>4. polls' = <<>> => polls = <<>>
  <2>1. p \in 1..Len(polls) /\ Len(polls) \in Nat
    BY <1>3, LengthIsNatural DEF IsSequence
  <2>2. Len(polls') = Len(polls)
    BY <1>2, <1>3, ExceptIsSequence
  <2> QED
    BY <2>1, <2>2, EmptyIsSequence
<1> QED
  BY <1>1, <1>4 DEF OwedEndsAreAskedFor

\* OwedEndsAreAskedFor: no job that was handed over is dropped before its end is
\* announced, whatever polls overlap, and the polls do not stop while one is tracked.
THEOREM OwedEndsStayAskedFor == TrackingSpec => []OwedEndsAreAskedFor
<1>1. JobInit => OwedEndsAreAskedFor
  BY EmptyIsMap DEF JobInit, OwedEndsAreAskedFor
<1>2. ToldInv /\ OwedEndsAreAskedFor /\ [JobNext]_trackingVars => OwedEndsAreAskedFor'
  <2> SUFFICES ASSUME ToldInv, OwedEndsAreAskedFor, [JobNext]_trackingVars
               PROVE  OwedEndsAreAskedFor'
    OBVIOUS
  <2>1. CASE \/ \E changed, refused, late \in SUBSET TrackedCores : \E pending \in BOOLEAN :
                    SaveChanges(changed, refused, late, pending)
             \/ \E changed \in SUBSET TrackedCores : \E pending \in BOOLEAN : SaveOnly(changed, pending)
             \/ \E id \in Id : JobRetries(id)
             \/ \E id \in Id : JobEnds(id)
             \/ Restart
             \/ UNCHANGED trackingVars
    <3>1. UNCHANGED <<tracked, timer, polls, announced, trackings, reloads>>
      BY <2>1 DEF SaveChanges, SaveOnly, JobRetries, JobEnds, SetJob, Restart, browser, history,
                  trackingVars
    <3> QED
      BY <3>1 DEF OwedEndsAreAskedFor
  <2>2. CASE \E r \in responses : ShowSave(r)
    BY <2>2, ShowIsAskedFor
  <2>3. CASE PollBegins
    BY <2>3, BeginIsAskedFor
  <2>4. CASE \E p \in DOMAIN polls : \E id \in DOMAIN polls[p].asks : Answer(p, id) \/ AnswerFails(p, id)
    BY <2>4, AnswerIsAskedFor
  <2>5. CASE \E p \in DOMAIN polls : PollEnds(p)
    BY <2>5, EndIsAskedFor
  <2>6. CASE Reload
    <3>1. reloads \in Nat /\ reloads' = reloads + 1 /\ DOMAIN tracked' = {}
      BY <2>6, EmptyIsMap DEF Reload, ToldInv, TrackingShape
    <3>2. reloads' # 0
      BY <3>1
    <3> QED
      BY <3>1, <3>2 DEF OwedEndsAreAskedFor
  <2> QED
    BY <2>1, <2>2, <2>3, <2>4, <2>5, <2>6 DEF JobNext
<1> QED
  BY <1>1, <1>2, ToldInvariance, PTL DEF TrackingSpec

=============================================================================
