-------------------------- MODULE AsyncActivities --------------------------
(***************************************************************************)
(* A run of the workflow engine whose transitions carry asynchronous        *)
(* activities.                                                              *)
(*                                                                          *)
(* Taking such a transition enqueues one job per activity and parks the run *)
(* as WAITING_FOR_ACTIVITIES, in a transaction that holds the row lock of   *)
(* the instance; the jobs are in the queue before it commits.  A worker     *)
(* waits for that lock, executes its activity, records an event, and then   *)
(* asks whether all of them are done.  That question counts the events of   *)
(* the run.  A job whose attempt failed is delivered again by the queue,    *)
(* and one whose worker died as well.                                       *)
(*                                                                          *)
(* A round is one parked transition; the cursor is the round that comes     *)
(* next.  Branches, outputs and synchronous activities are left out.        *)
(***************************************************************************)
EXTENDS Naturals, FiniteSets

CONSTANTS
    Callers,        \* requests that start or retry the run
    Workers,        \* processes that consume activity jobs
    Rounds,         \* number of transitions with asynchronous activities
    Activities,     \* for each round, its activities
    MaxAttempts,    \* retryPolicy.maxAttempts of each activity, 1 when it has no policy
    Faults,         \* which kinds of fault may happen, a subset of FaultKinds
    MaxFaults,      \* bound on faults
    MaxRepeats      \* bound on requests beyond the first, which also start it or retry it

FaultKinds == {"fails", "crash", "park_fails", "resume_fails"}
NoOne == "no one"
Acts == UNION {Activities[r] : r \in 1..Rounds}

ASSUME ActivitiesAssumption ==
    /\ Callers # {} /\ Callers \cap Workers = {} /\ NoOne \notin Callers \cup Workers
    /\ Rounds \in Nat \ {0}
    /\ \A r \in 1..Rounds : IsFiniteSet(Activities[r]) /\ Activities[r] # {}
    /\ \A r, q \in 1..Rounds : r # q => Activities[r] \cap Activities[q] = {}
    /\ MaxAttempts \in [Acts -> 1..10]
    /\ Faults \subseteq FaultKinds
    /\ MaxFaults \in Nat /\ MaxRepeats \in Nat

QueueAttempts == 3   \* both strategies of the queue, whatever the policy says

Handlers == Callers \cup Workers
RoundOf(r) == IF r \in 1..Rounds THEN Activities[r] ELSE {}

VARIABLES
    inst,      \* status and cursor of the instance, and the number of pending jobs it recorded
    parking,   \* the handler inside a parking transaction, which holds the row lock
    sent,      \* activities whose job that transaction has enqueued
    visits,    \* number of parking transactions so far, which makes jobs distinct
    jobs,      \* jobs in the queue, with the number of their failed attempts
    hs,        \* what each handler is doing, with which job, and how its attempt went
    completed, \* number of ACTIVITY_COMPLETED events
    failed,    \* number of ACTIVITY_FAILED events
    faults, repeats,
    finished,  \* history: activities that completed
    parked,    \* history: rounds the run was parked in
    recounted, \* history: whether an activity was counted as completed twice
    lost       \* history: whether work was dropped that nobody will carry on

counts == <<completed, failed>>
hist == <<finished, parked, recounted, lost>>
vars == <<inst, parking, sent, visits, jobs, hs, counts, faults, repeats, hist>>

InstStatus == {"RUNNING", "WAITING_FOR_ACTIVITIES", "COMPLETED", "FAILED"}
Pcs == {"idle", "drive", "park", "run", "resume", "acknowledge", "retry"}
Jobs == [act : Acts, visit : Nat, attempts : Nat]
NoJob == [visit |-> 0]
Idle == [pc |-> "idle", job |-> NoJob, outcome |-> "done"]

\* Several requests may execute a new instance: one that launches it, and one that finds
\* it not yet executed.
Init ==
    /\ inst = [status |-> "RUNNING", round |-> 1, pending |-> 0]
    /\ parking = NoOne /\ sent = {} /\ visits = 0
    /\ jobs = {}
    /\ \E starters \in SUBSET Callers :
         /\ Cardinality(starters) \in 1..(MaxRepeats + 1) /\ repeats = Cardinality(starters) - 1
         /\ hs = [h \in Handlers |-> IF h \in starters THEN [Idle EXCEPT !.pc = "drive"] ELSE Idle]
    /\ completed = 0 /\ failed = 0 /\ faults = 0
    /\ finished = {} /\ parked = {} /\ recounted = "none" /\ lost = "none"

Fault(kind) == kind \in Faults /\ faults < MaxFaults /\ faults' = faults + 1
At(h, pc) == hs[h].pc = pc
Goto(h, pc) == hs' = [hs EXCEPT ![h].pc = pc]
Unlocked == parking = NoOne

\* A worker inside a drive still holds a job to acknowledge.
AfterDrive(h) == IF h \in Workers THEN "acknowledge" ELSE "idle"

-----------------------------------------------------------------------------
(***************************************************************************)
(* executeWorkflow, up to the next transition with asynchronous activities. *)
(***************************************************************************)
Due == inst.status \in {"RUNNING", "FAILED"}   \* a FAILED run is not stopped here

DriveIdles(h) ==
    /\ At(h, "drive") /\ Unlocked
    /\ ~Due
    /\ Goto(h, AfterDrive(h))
    /\ UNCHANGED <<inst, parking, sent, visits, jobs, counts, faults, repeats, hist>>

DriveEnd(h) ==
    /\ At(h, "drive") /\ Unlocked
    /\ Due /\ inst.round > Rounds
    /\ inst' = [inst EXCEPT !.status = "COMPLETED"]
    /\ Goto(h, AfterDrive(h))
    /\ UNCHANGED <<parking, sent, visits, jobs, counts, faults, repeats, hist>>

\* The transition is taken: its transaction has the row lock from here to its end.
Park(h) ==
    /\ At(h, "drive") /\ Unlocked
    /\ Due /\ inst.round <= Rounds
    /\ parking' = h /\ sent' = {} /\ visits' = visits + 1
    /\ Goto(h, "park")
    /\ UNCHANGED <<inst, jobs, counts, faults, repeats, hist>>

\* enqueueActivity: the job is in the queue at once.
EnqueueActivity(h) == \E a \in RoundOf(inst.round) \ sent :
    /\ At(h, "park")
    /\ jobs' = jobs \cup {[act |-> a, visit |-> visits, attempts |-> 0]}
    /\ sent' = sent \cup {a}
    /\ UNCHANGED <<inst, parking, visits, hs, counts, faults, repeats, hist>>

ParkCommits(h) ==
    /\ At(h, "park")
    /\ sent = RoundOf(inst.round)
    /\ inst' = [inst EXCEPT !.status = "WAITING_FOR_ACTIVITIES", !.pending = Cardinality(sent)]
    /\ parked' = parked \cup {inst.round}
    /\ parking' = NoOne
    /\ Goto(h, AfterDrive(h))
    /\ UNCHANGED <<sent, visits, jobs, counts, faults, repeats, finished, recounted, lost>>

\* The transition or the transaction fails: the run is FAILED, the jobs stay enqueued.
ParkFails(h) ==
    /\ At(h, "park")
    /\ Fault("park_fails")
    /\ inst' = [inst EXCEPT !.status = "FAILED"]
    /\ parking' = NoOne
    /\ Goto(h, AfterDrive(h))
    /\ UNCHANGED <<sent, visits, jobs, counts, repeats, hist>>

-----------------------------------------------------------------------------
(***************************************************************************)
(* The activity worker.                                                    *)
(***************************************************************************)
\* Mutant: the worker does not wait for the transaction that parks the run.
NoBarrier == TRUE

\* awaitStepParkingCommit takes the row lock and gives it back.
AwaitStepParkingCommit == Unlocked

InHand(j) == \E w \in Workers : ~At(w, "idle") /\ hs[w].job = j

Take(w) == \E j \in jobs :
    /\ At(w, "idle")
    /\ ~InHand(j)
    /\ AwaitStepParkingCommit
    /\ hs' = [hs EXCEPT ![w] = [pc |-> "run", job |-> j, outcome |-> "done"]]
    /\ UNCHANGED <<inst, parking, sent, visits, jobs, counts, faults, repeats, hist>>

ActivityCompletes(w) ==
    /\ At(w, "run")
    /\ completed' = completed + 1
    /\ recounted' = IF hs[w].job.act \in finished THEN "some" ELSE recounted
    /\ finished' = finished \cup {hs[w].job.act}
    /\ Goto(w, "resume")
    /\ UNCHANGED <<inst, parking, sent, visits, jobs, failed, faults, repeats, parked, lost>>

AttemptNumber(j) == j.attempts + 1

\* Mutant: the last attempt is not recognised.
PolicyExceeded(j) == AttemptNumber(j) > MaxAttempts[j.act]

PolicyExhausted(j) == AttemptNumber(j) >= MaxAttempts[j.act]

\* The activity throws or times out.  Every attempt is an event; the last one that its
\* policy allows goes on to resume.
ActivityFails(w) ==
    /\ At(w, "run")
    /\ Fault("fails")
    /\ failed' = failed + 1
    /\ hs' = [hs EXCEPT ![w].pc = IF PolicyExhausted(hs[w].job) THEN "resume" ELSE "acknowledge",
                        ![w].outcome = "failed"]
    /\ UNCHANGED <<inst, parking, sent, visits, jobs, completed, repeats, hist>>

\* resumeWorkflowAfterActivities, in one transaction with the row lock.
\* Mutant: the status of the instance is not tested.
WaitingOrNot == TRUE

Waiting == inst.status = "WAITING_FOR_ACTIVITIES"

\* Mutant: failed activities are not counted.
CompletedOnly == completed >= inst.pending
\* Mutant: one event too few is enough.
AlmostProcessed == completed + failed + 1 >= inst.pending

AllProcessed == completed + failed >= inst.pending

\* Mutant: the run goes on although an activity failed.
FailuresIgnored == FALSE

SomeFailed == failed > 0

\* "Workflow instance not waiting", "Activities still pending": nothing happens.  A row that
\* does not match the query when it is read is not waited for, so the first answer may
\* come in the middle of a transaction that parks the run.
ResumeRefused(w) ==
    /\ At(w, "resume")
    /\ ~Waiting \/ (Unlocked /\ ~AllProcessed)
    /\ Goto(w, "acknowledge")
    /\ UNCHANGED <<inst, parking, sent, visits, jobs, counts, faults, repeats, hist>>

ResumeFailsRun(w) ==
    /\ At(w, "resume") /\ Unlocked
    /\ Waiting /\ AllProcessed
    /\ SomeFailed
    /\ inst' = [inst EXCEPT !.status = "FAILED"]
    /\ Goto(w, "acknowledge")
    /\ UNCHANGED <<parking, sent, visits, jobs, counts, faults, repeats, hist>>

ResumeContinues(w) ==
    /\ At(w, "resume") /\ Unlocked
    /\ Waiting /\ AllProcessed
    /\ ~SomeFailed
    /\ inst' = [status |-> "RUNNING", round |-> inst.round + 1, pending |-> 0]
    /\ Goto(w, "drive")
    /\ UNCHANGED <<parking, sent, visits, jobs, counts, faults, repeats, hist>>

\* The transaction throws; checkAndResumeWorkflow logs that and the job succeeds.
ResumeSwallowed(w) ==
    /\ At(w, "resume") /\ Unlocked
    /\ Fault("resume_fails")
    /\ Goto(w, "acknowledge")
    /\ lost' = "some"
    /\ UNCHANGED <<inst, parking, sent, visits, jobs, counts, repeats, finished, parked, recounted>>

\* The queue drops a job that succeeded or has had all its attempts, and retries others.
Acknowledge(w) ==
    LET j == hs[w].job
        again == hs[w].outcome = "failed" /\ AttemptNumber(j) < QueueAttempts
    IN  /\ At(w, "acknowledge")
        /\ jobs' = (jobs \ {j}) \cup (IF again THEN {[j EXCEPT !.attempts = @ + 1]} ELSE {})
        /\ lost' = IF hs[w].outcome = "failed" /\ ~again /\ ~PolicyExhausted(j) THEN "some" ELSE lost
        /\ hs' = [hs EXCEPT ![w] = Idle]
        /\ UNCHANGED <<inst, parking, sent, visits, counts, faults, repeats, finished, parked, recounted>>

-----------------------------------------------------------------------------
(***************************************************************************)
(* The retry of a failed run, and the death of a handler.                  *)
(***************************************************************************)
ReadForRetry(c) ==
    /\ At(c, "idle")
    /\ inst.status = "FAILED"
    /\ repeats < MaxRepeats /\ repeats' = repeats + 1
    /\ Goto(c, "retry")
    /\ UNCHANGED <<inst, parking, sent, visits, jobs, counts, faults, hist>>

\* The route writes the status whatever it has become, and drives the run.
Retry(c) ==
    /\ At(c, "retry") /\ Unlocked
    /\ inst' = [inst EXCEPT !.status = "RUNNING"]
    /\ Goto(c, "drive")
    /\ UNCHANGED <<parking, sent, visits, jobs, counts, faults, repeats, hist>>

\* An open transaction is rolled back.  The job of a worker is delivered again.
Crash(h) ==
    /\ ~At(h, "idle")
    /\ Fault("crash")
    /\ parking' = IF parking = h THEN NoOne ELSE parking
    /\ lost' = IF hs[h].pc \in {"drive", "park"} /\ Due THEN "some" ELSE lost
    /\ hs' = [hs EXCEPT ![h] = Idle]
    /\ UNCHANGED <<inst, sent, visits, jobs, counts, repeats, finished, parked, recounted>>

Execute(h) == DriveIdles(h) \/ DriveEnd(h) \/ Park(h) \/ EnqueueActivity(h) \/ ParkCommits(h) \/ ParkFails(h)
Resume(w) == ResumeRefused(w) \/ ResumeFailsRun(w) \/ ResumeContinues(w) \/ ResumeSwallowed(w)
Work(w) == Take(w) \/ ActivityCompletes(w) \/ ActivityFails(w) \/ Resume(w) \/ Acknowledge(w)

Next ==
    \/ \E h \in Handlers : Execute(h) \/ Crash(h)
    \/ \E w \in Workers : Work(w)
    \/ \E c \in Callers : ReadForRetry(c) \/ Retry(c)

\* Handlers that live go on and the queue delivers; nobody has to retry a failed run.
Fairness ==
    /\ \A h \in Handlers : WF_vars(Execute(h))
    /\ \A w \in Workers : WF_vars(Work(w))
    /\ \A c \in Callers : WF_vars(Retry(c))
Spec == Init /\ [][Next]_vars /\ Fairness

-----------------------------------------------------------------------------
TypeOK ==
    /\ inst \in [status : InstStatus, round : 1..(Rounds + 1), pending : Nat]
    /\ parking \in Handlers \cup {NoOne} /\ sent \subseteq Acts /\ visits \in Nat
    /\ jobs \subseteq Jobs
    /\ hs \in [Handlers -> [pc : Pcs, job : Jobs \cup {NoJob}, outcome : {"done", "failed"}]]
    /\ completed \in Nat /\ failed \in Nat
    /\ faults \in 0..MaxFaults /\ repeats \in 0..MaxRepeats
    /\ finished \subseteq Acts /\ parked \subseteq 1..Rounds
    /\ recounted \in {"none", "some"} /\ lost \in {"none", "some"}

\* A round is not skipped: however many workers find together that all activities are
\* done, the run moves by one round, and only out of one it was parked in.
RoundsNotSkipped == \A r \in 1..Rounds : r < inst.round => r \in parked

\* The first round is left only when each of its activities has completed, unless some
\* activity was executed and counted twice.
FirstRoundComplete == inst.round > 1 /\ recounted = "none" => RoundOf(1) \subseteq finished

\* A round is never passed once an attempt at an activity failed, retried or not: a
\* failed run that is retried fails again.
NoRoundOverFailure == [][failed > 0 => inst'.round = inst.round]_vars

\* A run that waits has a job left whose worker will ask whether all is done: the last
\* worker to record its event finds them all, however the workers interleave.
NoLostWakeup == Waiting /\ jobs = {} => lost = "some"

\* Workers and drivers alone bring a run to its end, unless work was lost.
ComesToRest == []<>(inst.status \in {"COMPLETED", "FAILED"} \/ lost = "some")

\* "Called by the activity worker after all async activities finish execution. Checks if
\* all activities are done" (resumeWorkflowAfterActivities): each round is left only when
\* all its activities have completed.
ResumedWhenDone == [][inst'.round # inst.round => RoundOf(inst.round) \subseteq finished]_vars
=============================================================================
