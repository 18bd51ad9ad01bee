----------------------- MODULE AsyncActivitiesProofs -----------------------
(***************************************************************************)
(* The invariants of AsyncActivities for any number of workers, requests,   *)
(* rounds and activities, and any faults.                                   *)
(*                                                                          *)
(* Two counting arguments carry them.  In the round that waits every        *)
(* activity has an event or a fresh job, so the events and the fresh jobs   *)
(* together are at least as many as the pending ones (CountInv): a worker   *)
(* that is told "still pending" leaves a fresh job behind, and with it a    *)
(* later worker that asks again.  And as long as no activity was counted    *)
(* twice, the completed events of the first round are exactly as many as    *)
(* its finished activities (FirstInv).                                      *)
(***************************************************************************)
EXTENDS AsyncActivities, FiniteSetTheorems, TLAPS

\* The job a worker holds; each job of the queue is held by at most one worker, and there
\* is at most one job for an activity in a visit.
Holds(w, j) == hs[w].pc # "idle" /\ hs[w].job = j
JobsInv ==
    /\ IsFiniteSet(jobs)
    /\ \A j \in jobs : j.visit <= visits
    /\ \A j, k \in jobs : j.act = k.act /\ j.visit = k.visit => j = k
    /\ \A w \in Workers : ~At(w, "idle") => hs[w].job \in jobs /\ hs[w].pc # "retry"
    /\ \A w, v \in Workers : Holds(w, hs[v].job) /\ ~At(v, "idle") => w = v

\* The row lock: one handler parks the run, and nobody has taken its jobs yet.
LockInv ==
    /\ \A h \in Handlers : At(h, "park") <=> parking = h
    /\ parking # NoOne => Due /\ inst.round <= Rounds
    /\ parking # NoOne => \A w \in Workers : ~At(w, "idle") => hs[w].job.visit < visits
    /\ parking # NoOne => sent \subseteq RoundOf(inst.round)
    /\ parking # NoOne => {j \in jobs : j.visit = visits}
                            = {[act |-> a, visit |-> visits, attempts |-> 0] : a \in sent}

\* The jobs of the round that waits whose activity has no event yet.
Executed(w) == hs[w].pc \in {"resume", "drive", "park", "acknowledge"}
Fresh == {j \in jobs : j.visit = visits /\ j.attempts = 0
                         /\ ~\E w \in Workers : Holds(w, j) /\ Executed(w)}
CountInv == Waiting => /\ completed + failed + Cardinality(Fresh) >= inst.pending
                       /\ inst.round <= Rounds /\ inst.pending = Cardinality(RoundOf(inst.round))

\* The worker of the job has asked, or will not ask, and the queue will drop the job.
SpentBy(w, j) ==
    /\ Holds(w, j)
    /\ hs[w].pc \in {"drive", "park", "acknowledge"}
    /\ hs[w].outcome = "done" \/ (AttemptNumber(j) >= QueueAttempts /\ PolicyExhausted(j))
Spent(j) == \E w \in Workers : SpentBy(w, j)
WakeupInv == Waiting /\ lost = "none" => \E j \in jobs : ~Spent(j)

FirstInv ==
    /\ IsFiniteSet(finished)
    /\ recounted = "none" => completed = Cardinality(finished)
    /\ inst.round = 1 => finished \subseteq RoundOf(1) /\ \A j \in jobs : j.act \in RoundOf(1)
    /\ FirstRoundComplete
IInv == TypeOK /\ JobsInv /\ LockInv /\ CountInv /\ WakeupInv /\ FirstInv /\ RoundsNotSkipped /\ (Waiting => inst.round \in parked)

-----------------------------------------------------------------------------
\* Activities of a round are activities of the run, finitely many.
LEMMA RoundFacts == \A r : RoundOf(r) \subseteq Acts /\ IsFiniteSet(RoundOf(r))
  <1>1. IsFiniteSet({})  BY FS_EmptySet
  <1> QED  BY <1>1, ActivitiesAssumption DEF RoundOf, Acts

\* The initial states have the types of TypeOK.
LEMMA TypeInit == Init => TypeOK
  <1> SUFFICES ASSUME Init PROVE TypeOK  OBVIOUS
  <1> USE ActivitiesAssumption DEF Init
  <1>1. inst \in [status : InstStatus, round : 1..(Rounds + 1), pending : Nat]
    BY DEF InstStatus
  <1>2. hs \in [Handlers -> [pc : Pcs, job : Jobs \cup {NoJob}, outcome : {"done", "failed"}]]
    BY DEF Idle, Pcs
  <1> QED  BY <1>1, <1>2 DEF TypeOK

\* The record of a handler after one of its fields changed.
HandlerRecords == [pc : Pcs, job : Jobs \cup {NoJob}, outcome : {"done", "failed"}]

LEMMA HandlerTypes ==
  ASSUME hs \in [Handlers -> HandlerRecords], NEW h \in Handlers
  PROVE  /\ \A pc \in Pcs : [hs EXCEPT ![h].pc = pc] \in [Handlers -> HandlerRecords]
         /\ [hs EXCEPT ![h] = Idle] \in [Handlers -> HandlerRecords]
         /\ \A j \in Jobs : [hs EXCEPT ![h] = [pc |-> "run", job |-> j, outcome |-> "done"]]
                              \in [Handlers -> HandlerRecords]
         /\ \A pc \in Pcs : [hs EXCEPT ![h].pc = pc, ![h].outcome = "failed"] \in [Handlers -> HandlerRecords]
  BY DEF HandlerRecords, Idle, Pcs

\* Every step keeps the types.
LEMMA TypeStep == TypeOK /\ JobsInv /\ LockInv /\ CountInv /\ [Next]_vars => TypeOK'
  <1> SUFFICES ASSUME TypeOK, JobsInv, LockInv, CountInv, [Next]_vars PROVE TypeOK'  OBVIOUS
  <1> USE ActivitiesAssumption
  <1>t. /\ hs \in [Handlers -> HandlerRecords]
        /\ Pcs = {"idle", "drive", "park", "run", "resume", "acknowledge", "retry"}
    BY DEF TypeOK, HandlerRecords, Pcs
  <1>s. hs' \in [Handlers -> HandlerRecords] => hs' \in [Handlers ->
           [pc : Pcs, job : Jobs \cup {NoJob}, outcome : {"done", "failed"}]]
    BY DEF HandlerRecords
  <1>f. \A k : Fault(k) => faults' \in 0..MaxFaults
    BY DEF Fault, TypeOK
  <1>a. \A h \in Handlers : AfterDrive(h) \in Pcs
    BY DEF AfterDrive, Pcs
  <1>i. /\ inst \in [status : InstStatus, round : 1..(Rounds + 1), pending : Nat]
        /\ \A st \in InstStatus : [inst EXCEPT !.status = st] \in [status : InstStatus, round : 1..(Rounds + 1), pending : Nat]
        /\ {"RUNNING", "WAITING_FOR_ACTIVITIES", "COMPLETED", "FAILED"} = InstStatus
    BY DEF TypeOK, InstStatus
  <1>1. ASSUME NEW h \in Handlers, DriveIdles(h) PROVE TypeOK'
    <2>1. hs' \in [Handlers -> HandlerRecords]  BY <1>1, <1>t, <1>a, HandlerTypes DEF DriveIdles, Goto
    <2> QED  BY <1>1, <2>1, <1>s DEF DriveIdles, TypeOK, counts, hist
  <1>2. ASSUME NEW h \in Handlers, DriveEnd(h) PROVE TypeOK'
    <2>1. hs' \in [Handlers -> HandlerRecords]  BY <1>2, <1>t, <1>a, HandlerTypes DEF DriveEnd, Goto
    <2> QED  BY <1>2, <2>1, <1>s, <1>i DEF DriveEnd, TypeOK, counts, hist
  <1>3. ASSUME NEW h \in Handlers, Park(h) PROVE TypeOK'
    <2>1. hs' \in [Handlers -> HandlerRecords]  BY <1>3, <1>t, HandlerTypes DEF Park, Goto
    <2> QED  BY <1>3, <2>1, <1>s DEF Park, TypeOK, counts, hist
  <1>4. ASSUME NEW h \in Handlers, EnqueueActivity(h) PROVE TypeOK'
    <2>1. PICK a \in RoundOf(inst.round) \ sent : jobs' = jobs \cup {[act |-> a, visit |-> visits, attempts |-> 0]}
                                                  /\ sent' = sent \cup {a}
      BY <1>4 DEF EnqueueActivity
    <2>2. jobs' \subseteq Jobs /\ sent' \subseteq Acts  BY <2>1, RoundFacts DEF TypeOK, Jobs
    <2> QED  BY <1>4, <2>2 DEF EnqueueActivity, TypeOK, counts, hist
  <1>5. ASSUME NEW h \in Handlers, ParkCommits(h) PROVE TypeOK'
    <2>1. hs' \in [Handlers -> HandlerRecords]  BY <1>5, <1>t, <1>a, HandlerTypes DEF ParkCommits, Goto
    <2>2. Cardinality(sent) \in Nat  BY <1>5, RoundFacts, FS_CardinalityType DEF ParkCommits
    <2>3. inst' \in [status : InstStatus, round : 1..(Rounds + 1), pending : Nat]
      BY <1>5, <2>2, <1>i DEF ParkCommits
    <2>4. inst.round \in 1..Rounds
      <3>1. parking # NoOne  BY <1>5 DEF LockInv, ParkCommits, At, Handlers
      <3> QED  BY <1>5, <3>1, <1>i DEF LockInv
    <2> QED  BY <1>5, <2>1, <2>3, <2>4, <1>s DEF ParkCommits, TypeOK, counts, hist
  <1>6. ASSUME NEW h \in Handlers, ParkFails(h) PROVE TypeOK'
    <2>1. hs' \in [Handlers -> HandlerRecords]  BY <1>6, <1>t, <1>a, HandlerTypes DEF ParkFails, Goto
    <2> QED  BY <1>6, <2>1, <1>s, <1>i, <1>f DEF ParkFails, TypeOK, counts, hist
  <1>7. ASSUME NEW h \in Handlers, Crash(h) PROVE TypeOK'
    <2>1. hs' \in [Handlers -> HandlerRecords]  BY <1>7, <1>t, HandlerTypes DEF Crash
    <2> QED  BY <1>7, <2>1, <1>s, <1>f DEF Crash, TypeOK, counts
  <1>8. ASSUME NEW w \in Workers, Take(w) PROVE TypeOK'
    <2>1. PICK j \in jobs : hs' = [hs EXCEPT ![w] = [pc |-> "run", job |-> j, outcome |-> "done"]]
      BY <1>8 DEF Take
    <2>2. j \in Jobs /\ w \in Handlers  BY DEF TypeOK, Handlers
    <2>3. hs' \in [Handlers -> HandlerRecords]  BY <2>1, <2>2, <1>t, HandlerTypes
    <2> QED  BY <1>8, <2>3, <1>s DEF Take, TypeOK, counts, hist
  <1>9. ASSUME NEW w \in Workers, ActivityCompletes(w) PROVE TypeOK'
    <2>1. hs' \in [Handlers -> HandlerRecords]
      BY <1>9, <1>t, HandlerTypes DEF ActivityCompletes, Goto, Handlers
    <2>2. hs[w].job.act \in Acts
      BY <1>9 DEF ActivityCompletes, At, JobsInv, TypeOK, Jobs
    <2> QED  BY <1>9, <2>1, <2>2, <1>s DEF ActivityCompletes, TypeOK
  <1>10. ASSUME NEW w \in Workers, ActivityFails(w) PROVE TypeOK'
    <2>1. hs' \in [Handlers -> HandlerRecords]
      BY <1>10, <1>t, HandlerTypes DEF ActivityFails, Handlers
    <2> QED  BY <1>10, <2>1, <1>s, <1>f DEF ActivityFails, TypeOK, hist
  <1>11. ASSUME NEW w \in Workers, Resume(w) PROVE TypeOK'
    <2>0. PICK pc \in Pcs : hs' = [hs EXCEPT ![w].pc = pc]
      BY <1>11, <1>t DEF Resume, ResumeRefused, ResumeFailsRun, ResumeContinues, ResumeSwallowed, Goto
    <2>h. w \in Handlers  BY DEF Handlers
    <2>1. hs' \in [Handlers -> HandlerRecords]  BY <2>0, <2>h, <1>t, HandlerTypes
    <2>2. CASE ResumeRefused(w)
      BY <2>2, <2>1, <1>s DEF ResumeRefused, TypeOK, counts, hist
    <2>3. CASE ResumeFailsRun(w)
      BY <2>3, <2>1, <1>s, <1>i DEF ResumeFailsRun, TypeOK, counts, hist
    <2>4. CASE ResumeContinues(w)
      <3>1. inst.round \in 1..Rounds  BY <2>4, <1>i DEF ResumeContinues, CountInv
      <3>2. inst' \in [status : InstStatus, round : 1..(Rounds + 1), pending : Nat]
        BY <2>4, <3>1, <1>i DEF ResumeContinues
      <3> QED  BY <2>4, <2>1, <3>2, <1>s DEF ResumeContinues, TypeOK, counts, hist
    <2>5. CASE ResumeSwallowed(w)
      BY <2>5, <2>1, <1>s, <1>f DEF ResumeSwallowed, TypeOK, counts
    <2> QED  BY <1>11, <2>2, <2>3, <2>4, <2>5 DEF Resume
  <1>12. ASSUME NEW w \in Workers, Acknowledge(w) PROVE TypeOK'
    <2>1. hs' \in [Handlers -> HandlerRecords]
      BY <1>12, <1>t, HandlerTypes DEF Acknowledge, Handlers
    <2>2. hs[w].job \in Jobs
      BY <1>12 DEF Acknowledge, At, JobsInv, TypeOK
    <2>3. [hs[w].job EXCEPT !.attempts = @ + 1] \in Jobs  BY <2>2 DEF Jobs
    <2>4. jobs' \subseteq Jobs  BY <1>12, <2>3 DEF Acknowledge, TypeOK
    <2> QED  BY <1>12, <2>1, <2>4, <1>s DEF Acknowledge, TypeOK, counts
  <1>13. ASSUME NEW c \in Callers, ReadForRetry(c) PROVE TypeOK'
    <2>1. hs' \in [Handlers -> HandlerRecords]
      BY <1>13, <1>t, HandlerTypes DEF ReadForRetry, Goto, Handlers
    <2> QED  BY <1>13, <2>1, <1>s DEF ReadForRetry, TypeOK, counts, hist
  <1>14. ASSUME NEW c \in Callers, Retry(c) PROVE TypeOK'
    <2>1. hs' \in [Handlers -> HandlerRecords]
      BY <1>14, <1>t, HandlerTypes DEF Retry, Goto, Handlers
    <2> QED  BY <1>14, <2>1, <1>s, <1>i DEF Retry, TypeOK, counts, hist
  <1>15. CASE UNCHANGED vars
    BY <1>15 DEF vars, TypeOK, counts, hist
  <1> QED
    BY <1>1, <1>2, <1>3, <1>4, <1>5, <1>6, <1>7, <1>8, <1>9, <1>10, <1>11, <1>12, <1>13, <1>14, <1>15
       DEF Next, Execute, Work

-----------------------------------------------------------------------------
\* What a step does to the records of the handlers: h moves to another pc, or its record
\* is replaced, and the others stay.
LEMMA HandlerMoves ==
  ASSUME hs \in [Handlers -> HandlerRecords], NEW h \in Handlers, NEW pc,
         hs' = [hs EXCEPT ![h].pc = pc]
  PROVE  \A g \in Handlers : /\ hs'[g].job = hs[g].job /\ hs'[g].outcome = hs[g].outcome
                             /\ hs'[g].pc = IF g = h THEN pc ELSE hs[g].pc
  BY DEF HandlerRecords

\* A worker keeps its job through a step, or is done with it.
Keeps(w) == \/ hs'[w].pc = "idle"
            \/ hs[w].pc # "idle" /\ hs'[w].pc # "retry" /\ hs'[w].job = hs[w].job

LEMMA JobsKept ==
  ASSUME JobsInv, TypeOK, jobs' = jobs, visits' \in Nat, visits <= visits', \A w \in Workers : Keeps(w)
  PROVE  JobsInv'
  <1>1. \A j \in jobs : j.visit \in Nat  BY DEF TypeOK, Jobs
  <1>2. \A j \in jobs' : j.visit <= visits'  BY <1>1 DEF JobsInv, TypeOK
  <1>3. \A w \in Workers : ~At(w, "idle")' => hs'[w].job \in jobs' /\ hs'[w].pc # "retry"
    BY DEF JobsInv, Keeps, At
  <1>4. \A w, v \in Workers : Holds(w, hs[v].job)' /\ ~At(v, "idle")' => w = v
    BY DEF JobsInv, Keeps, At, Holds
  <1> QED  BY <1>2, <1>3, <1>4 DEF JobsInv

\* Moving on a handler that is not idle keeps the jobs of the workers.
LEMMA MovesKeep ==
  ASSUME TypeOK, NEW h \in Handlers, ~At(h, "idle") \/ h \notin Workers, NEW pc \in Pcs \ {"retry"},
         hs' = [hs EXCEPT ![h].pc = pc]
  PROVE  JobsInv => \A w \in Workers : Keeps(w)
  <1>1. hs \in [Handlers -> HandlerRecords]  BY DEF TypeOK, HandlerRecords
  <1>2. \A g \in Handlers : hs'[g].job = hs[g].job /\ hs'[g].pc = IF g = h THEN pc ELSE hs[g].pc
    BY <1>1, HandlerMoves
  <1> QED  BY <1>2 DEF Keeps, JobsInv, At, Handlers

\* Every step keeps the jobs apart.
LEMMA JobsStep == TypeOK /\ JobsInv /\ LockInv /\ [Next]_vars => JobsInv'
  <1> SUFFICES ASSUME TypeOK, JobsInv, LockInv, [Next]_vars PROVE JobsInv'  OBVIOUS
  <1> USE ActivitiesAssumption
  <1>t. hs \in [Handlers -> HandlerRecords]  BY DEF TypeOK, HandlerRecords
  <1>v. visits \in Nat /\ visits <= visits  BY DEF TypeOK
  <1>a. \A h \in Handlers : AfterDrive(h) \in Pcs \ {"retry"}  BY DEF AfterDrive, Pcs
  <1>p. {"idle", "drive", "park", "run", "resume", "acknowledge"} \subseteq Pcs \ {"retry"}  BY DEF Pcs
  <1>w. \A w \in Workers : w \in Handlers /\ w \notin Callers  BY DEF Handlers
  <1>1. ASSUME NEW h \in Handlers, DriveIdles(h) \/ DriveEnd(h) \/ ParkCommits(h) \/ ParkFails(h) PROVE JobsInv'
    <2>1. hs' = [hs EXCEPT ![h].pc = AfterDrive(h)] /\ ~At(h, "idle")
      BY <1>1 DEF DriveIdles, DriveEnd, ParkCommits, ParkFails, Goto, At
    <2>2. jobs' = jobs /\ visits' = visits  BY <1>1 DEF DriveIdles, DriveEnd, ParkCommits, ParkFails
    <2>3. \A w \in Workers : Keeps(w)  BY <2>1, <1>a, MovesKeep
    <2> QED  BY <2>2, <2>3, <1>v, JobsKept
  <1>2. ASSUME NEW h \in Handlers, Park(h) PROVE JobsInv'
    <2>1. hs' = [hs EXCEPT ![h].pc = "park"] /\ ~At(h, "idle")  BY <1>2 DEF Park, Goto, At
    <2>2. \A w \in Workers : Keeps(w)  BY <2>1, <1>p, MovesKeep
    <2>3. jobs' = jobs /\ visits' \in Nat /\ visits <= visits'  BY <1>2, <1>v DEF Park
    <2> QED  BY <2>2, <2>3, JobsKept
  <1>3. ASSUME NEW h \in Handlers, EnqueueActivity(h) PROVE JobsInv'
    <2> DEFINE new(a) == [act |-> a, visit |-> visits, attempts |-> 0]
    <2>1. PICK a \in RoundOf(inst.round) \ sent : jobs' = jobs \cup {new(a)}
      BY <1>3 DEF EnqueueActivity
    <2>2. parking # NoOne  BY <1>3 DEF EnqueueActivity, LockInv, Handlers
    <2>3. {j \in jobs : j.visit = visits} = {[act |-> b, visit |-> visits, attempts |-> 0] : b \in sent}
      BY <2>2 DEF LockInv
    <2>4. \A j \in jobs : j.visit = visits => j.act \in sent  BY <2>3
    <2>5. IsFiniteSet(jobs')  BY <2>1, FS_AddElement DEF JobsInv
    <2>6. \A j \in jobs' : j.visit <= visits'  BY <1>3, <2>1, <1>v DEF EnqueueActivity, JobsInv
    <2>7. \A j, k \in jobs' : j.act = k.act /\ j.visit = k.visit => j = k
      BY <2>1, <2>4 DEF JobsInv
    <2>8. hs' = hs /\ jobs \subseteq jobs'  BY <1>3, <2>1 DEF EnqueueActivity
    <2> QED  BY <2>5, <2>6, <2>7, <2>8 DEF JobsInv, Holds, At
  <1>4. ASSUME NEW h \in Handlers, Crash(h) PROVE JobsInv'
    <2>0. \A g \in Handlers : hs'[g] = IF g = h THEN Idle ELSE hs[g]  BY <1>4, <1>t DEF Crash
    <2>1. \A w \in Workers : Keeps(w)  BY <2>0, <1>w DEF Keeps, Idle, JobsInv, At
    <2> QED  BY <1>4, <2>1, <1>v, JobsKept DEF Crash
  <1>5. ASSUME NEW w \in Workers, Take(w) PROVE JobsInv'
    <2>1. PICK j \in jobs : ~InHand(j) /\ hs' = [hs EXCEPT ![w] = [pc |-> "run", job |-> j, outcome |-> "done"]]
      BY <1>5 DEF Take
    <2>2. hs'[w].job = j /\ hs'[w].pc = "run" /\ \A g \in Workers \ {w} : hs'[g] = hs[g]
      BY <2>1, <1>w, <1>t
    <2>3. \A g \in Workers \ {w} : ~Holds(g, j)'  BY <2>1, <2>2 DEF InHand, Holds, At
    <2>4. jobs' = jobs /\ visits' = visits  BY <1>5 DEF Take
    <2> QED  BY <2>2, <2>3, <2>4 DEF JobsInv, Holds, At
  <1>6. ASSUME NEW w \in Workers, ActivityCompletes(w) \/ Resume(w) PROVE JobsInv'
    <2>1. PICK pc \in {"resume", "acknowledge", "drive"} : hs' = [hs EXCEPT ![w].pc = pc] /\ ~At(w, "idle")
      BY <1>6 DEF ActivityCompletes, Resume, ResumeRefused, ResumeFailsRun, ResumeContinues, ResumeSwallowed, Goto, At
    <2>2. jobs' = jobs /\ visits' = visits
      BY <1>6 DEF ActivityCompletes, Resume, ResumeRefused, ResumeFailsRun, ResumeContinues, ResumeSwallowed
    <2>3. \A g \in Workers : Keeps(g)  BY <2>1, <1>p, <1>w, MovesKeep
    <2> QED  BY <2>2, <2>3, <1>v, JobsKept
  <1>7. ASSUME NEW w \in Workers, ActivityFails(w) PROVE JobsInv'
    <2>1. \A g \in Workers : Keeps(g)
      BY <1>7, <1>w, <1>t DEF ActivityFails, Keeps, HandlerRecords, JobsInv, At
    <2> QED  BY <1>7, <2>1, <1>v, JobsKept DEF ActivityFails
  <1>8. ASSUME NEW w \in Workers, Acknowledge(w) PROVE JobsInv'
    <2> DEFINE j == hs[w].job
               k == [j EXCEPT !.attempts = @ + 1]
    <2>1. jobs' = jobs \ {j} \/ jobs' = (jobs \ {j}) \cup {k}  BY <1>8 DEF Acknowledge
    <2>2. j \in jobs /\ j \in Jobs  BY <1>8 DEF Acknowledge, JobsInv, At, TypeOK
    <2>3. k.act = j.act /\ k.visit = j.visit  BY <2>2 DEF Jobs
    <2>4. IsFiniteSet(jobs')
      <3>1. IsFiniteSet(jobs \ {j})  BY FS_RemoveElement DEF JobsInv
      <3>2. IsFiniteSet((jobs \ {j}) \cup {k})  BY <3>1, FS_AddElement
      <3> QED  BY <2>1, <3>1, <3>2
    <2>5. hs'[w].pc = "idle" /\ \A g \in Workers \ {w} : hs'[g] = hs[g]
      BY <1>8, <1>w, <1>t DEF Acknowledge, Idle
    <2>6. \A g \in Workers \ {w} : ~At(g, "idle") => hs[g].job \in jobs \ {j}
      BY <1>8 DEF JobsInv, Holds, At, Acknowledge
    <2>7. visits' = visits  BY <1>8 DEF Acknowledge
    <2>8. \A i \in jobs' : i.visit <= visits'  BY <2>1, <2>2, <2>3, <2>7 DEF JobsInv
    <2>9. \A i, l \in jobs' : i.act = l.act /\ i.visit = l.visit => i = l
      <3>1. \A i, l \in jobs : i.act = l.act /\ i.visit = l.visit => i = l  BY DEF JobsInv
      <3>2. CASE jobs' = jobs \ {j}  BY <3>1, <3>2
      <3>3. CASE jobs' = (jobs \ {j}) \cup {k}
        <4>1. \A i \in jobs \ {j} : ~(i.act = k.act /\ i.visit = k.visit)  BY <2>2, <2>3, <3>1
        <4> QED  BY <3>1, <3>3, <4>1
      <3> QED  BY <2>1, <3>2, <3>3
    <2>10. \A g \in Workers : ~At(g, "idle")' => hs'[g].job \in jobs' /\ hs'[g].pc # "retry"
      BY <2>1, <2>5, <2>6 DEF JobsInv, At
    <2>11. \A g, v \in Workers : Holds(g, hs[v].job)' /\ ~At(v, "idle")' => g = v
      BY <2>5 DEF JobsInv, Holds, At
    <2> QED  BY <2>4, <2>8, <2>9, <2>10, <2>11 DEF JobsInv
  <1>9. ASSUME NEW c \in Callers, ReadForRetry(c) \/ Retry(c) PROVE JobsInv'
    <2>1. \A g \in Workers : hs'[g] = hs[g]
      BY <1>9, <1>w, <1>t DEF ReadForRetry, Retry, Goto
    <2>2. \A g \in Workers : Keeps(g)  BY <2>1 DEF Keeps, JobsInv, At
    <2>3. jobs' = jobs /\ visits' = visits  BY <1>9 DEF ReadForRetry, Retry
    <2> QED  BY <2>2, <2>3, <1>v, JobsKept
  <1>10. CASE UNCHANGED vars
    BY <1>10 DEF vars, JobsInv, Holds, At
  <1> QED
    BY <1>1, <1>2, <1>3, <1>4, <1>5, <1>6, <1>7, <1>8, <1>9, <1>10 DEF Next, Execute, Work

-----------------------------------------------------------------------------
\* A step after which nobody parks the run keeps the invariant of the lock.
LEMMA LockFree ==
  ASSUME TypeOK, parking' = NoOne, \A h \in Handlers : hs'[h].pc # "park"
  PROVE  LockInv'
  BY ActivitiesAssumption DEF LockInv, At, Handlers

\* So does one that another handler takes while the run is parked.
LEMMA LockKept ==
  ASSUME TypeOK, LockInv, UNCHANGED <<inst, parking, sent, visits>>,
         \A h \in Handlers : hs'[h].pc = "park" <=> hs[h].pc = "park",
         \A w \in Workers : Keeps(w),
         {j \in jobs' : j.visit = visits} = {j \in jobs : j.visit = visits}
  PROVE  LockInv'
  <1>1. \A h \in Handlers : At(h, "park")' <=> parking' = h  BY DEF LockInv, At
  <1>2. parking' # NoOne => Due' /\ inst'.round <= Rounds  BY DEF LockInv, Due
  <1>3. parking' # NoOne => \A w \in Workers : ~At(w, "idle")' => hs'[w].job.visit < visits'
    BY DEF LockInv, At, Keeps
  <1>4. parking' # NoOne => sent' \subseteq RoundOf(inst'.round)  BY DEF LockInv
  <1>5. parking' # NoOne => {j \in jobs' : j.visit = visits'}
                              = {[act |-> a, visit |-> visits', attempts |-> 0] : a \in sent'}
    BY DEF LockInv
  <1> QED  BY <1>1, <1>2, <1>3, <1>4, <1>5 DEF LockInv

\* Every step keeps the invariant of the lock.
LEMMA LockStep == TypeOK /\ JobsInv /\ LockInv /\ [Next]_vars => LockInv'
  <1> SUFFICES ASSUME TypeOK, JobsInv, LockInv, [Next]_vars PROVE LockInv'  OBVIOUS
  <1> USE ActivitiesAssumption
  <1>t. hs \in [Handlers -> HandlerRecords]  BY DEF TypeOK, HandlerRecords
  <1>n. NoOne \notin Handlers  BY DEF Handlers
  <1>w. \A w \in Workers : w \in Handlers /\ w \notin Callers  BY DEF Handlers
  <1>u. Unlocked => \A h \in Handlers : hs[h].pc # "park"  BY <1>n DEF LockInv, Unlocked, At
  <1>1. ASSUME NEW h \in Handlers, DriveIdles(h) \/ DriveEnd(h) PROVE LockInv'
    <2>1. hs' = [hs EXCEPT ![h].pc = AfterDrive(h)] /\ Unlocked /\ parking' = parking
      BY <1>1 DEF DriveIdles, DriveEnd, Goto
    <2>2. \A g \in Handlers : hs'[g].pc # "park"  BY <2>1, <1>u, <1>t, HandlerMoves DEF AfterDrive
    <2> QED  BY <2>1, <2>2, LockFree DEF Unlocked
  <1>2. ASSUME NEW h \in Handlers, ParkCommits(h) \/ ParkFails(h) PROVE LockInv'
    <2>1. hs' = [hs EXCEPT ![h].pc = AfterDrive(h)] /\ At(h, "park") /\ parking' = NoOne
      BY <1>2 DEF ParkCommits, ParkFails, Goto
    <2>2. \A g \in Handlers \ {h} : hs[g].pc # "park"  BY <2>1 DEF LockInv, At
    <2>3. \A g \in Handlers : hs'[g].pc # "park"  BY <2>1, <2>2, <1>t, HandlerMoves DEF AfterDrive
    <2> QED  BY <2>1, <2>3, LockFree
  <1>3. ASSUME NEW h \in Handlers, Park(h) PROVE LockInv'
    <2>1. hs' = [hs EXCEPT ![h].pc = "park"] /\ hs[h].pc = "drive"  BY <1>3 DEF Park, Goto, At
    <2>2. /\ Unlocked /\ Due /\ inst.round <= Rounds /\ parking' = h /\ sent' = {}
          /\ visits' = visits + 1 /\ inst' = inst /\ jobs' = jobs
      BY <1>3 DEF Park
    <2>3. \A g \in Handlers : At(g, "park")' <=> parking' = g
      BY <2>1, <2>2, <1>u, <1>t, HandlerMoves DEF At
    <2>4. \A j \in jobs : j.visit \in Nat /\ j.visit < visits'
      BY <2>2 DEF JobsInv, TypeOK, Jobs
    <2>5. \A w \in Workers : ~At(w, "idle")' => hs'[w].job.visit < visits'
      BY <2>1, <2>4, <1>t, <1>w, HandlerMoves DEF JobsInv, At
    <2>6. {j \in jobs' : j.visit = visits'} = {}
      BY <2>2, <2>4 DEF TypeOK
    <2> QED  BY <2>2, <2>3, <2>5, <2>6 DEF LockInv, Due
  <1>4. ASSUME NEW h \in Handlers, EnqueueActivity(h) PROVE LockInv'
    <2>1. PICK a \in RoundOf(inst.round) \ sent :
             /\ jobs' = jobs \cup {[act |-> a, visit |-> visits, attempts |-> 0]}
             /\ sent' = sent \cup {a}
      BY <1>4 DEF EnqueueActivity
    <2>2. parking = h /\ parking # NoOne  BY <1>4, <1>n DEF EnqueueActivity, LockInv
    <2>3. UNCHANGED <<inst, parking, visits, hs>>  BY <1>4 DEF EnqueueActivity
    <2>4. {j \in jobs' : j.visit = visits}
            = {[act |-> b, visit |-> visits, attempts |-> 0] : b \in sent'}
      <3>1. {j \in jobs : j.visit = visits} = {[act |-> b, visit |-> visits, attempts |-> 0] : b \in sent}
        BY <2>2 DEF LockInv
      <3>2. {j \in jobs' : j.visit = visits}
              = {j \in jobs : j.visit = visits} \cup {[act |-> a, visit |-> visits, attempts |-> 0]}
        BY <2>1
      <3> QED  BY <2>1, <3>1, <3>2
    <2>5. sent' \subseteq RoundOf(inst'.round)  BY <2>1, <2>2, <2>3 DEF LockInv
    <2>6. Due' /\ inst'.round <= Rounds  BY <2>2, <2>3 DEF LockInv, Due
    <2>7. \A g \in Handlers : At(g, "park")' <=> parking' = g  BY <2>3 DEF LockInv, At
    <2>8. \A w \in Workers : ~At(w, "idle")' => hs'[w].job.visit < visits'
      BY <2>2, <2>3 DEF LockInv, At
    <2> QED  BY <2>3, <2>4, <2>5, <2>6, <2>7, <2>8 DEF LockInv
  <1>5. ASSUME NEW h \in Handlers, Crash(h) PROVE LockInv'
    <2>0. \A g \in Handlers : hs'[g] = IF g = h THEN Idle ELSE hs[g]  BY <1>5, <1>t DEF Crash
    <2>1. CASE parking = h
      <3>1. \A g \in Handlers : hs'[g].pc # "park"  BY <2>0, <2>1 DEF Idle, LockInv, At
      <3> QED  BY <1>5, <2>1, <3>1, LockFree DEF Crash
    <2>2. CASE parking # h
      <3>1. UNCHANGED <<inst, parking, sent, visits, jobs>>  BY <1>5, <2>2 DEF Crash
      <3>2. \A g \in Handlers : hs'[g].pc = "park" <=> hs[g].pc = "park"
        BY <2>0, <2>2 DEF Idle, LockInv, At
      <3>3. \A w \in Workers : Keeps(w)  BY <2>0, <1>w DEF Keeps, Idle, JobsInv, At
      <3> QED  BY <3>1, <3>2, <3>3, LockKept
    <2> QED  BY <2>1, <2>2
  <1>6. ASSUME NEW w \in Workers, Take(w) PROVE LockInv'
    <2>1. PICK j \in jobs : hs' = [hs EXCEPT ![w] = [pc |-> "run", job |-> j, outcome |-> "done"]]
      BY <1>6 DEF Take
    <2>2. Unlocked /\ parking' = parking  BY <1>6 DEF Take, AwaitStepParkingCommit
    <2>3. \A g \in Handlers : hs'[g].pc # "park"  BY <2>1, <2>2, <1>u, <1>t, <1>w
    <2> QED  BY <2>2, <2>3, LockFree DEF Unlocked
  <1>7. ASSUME NEW w \in Workers,
               ActivityCompletes(w) \/ ResumeRefused(w)
        PROVE LockInv'
    <2>1. PICK pc \in {"resume", "acknowledge"} : hs' = [hs EXCEPT ![w].pc = pc]
      BY <1>7 DEF ActivityCompletes, ResumeRefused, Goto
    <2>2. hs[w].pc \in {"run", "resume"}  BY <1>7 DEF ActivityCompletes, ResumeRefused, At
    <2>3. UNCHANGED <<inst, parking, sent, visits, jobs>>  BY <1>7 DEF ActivityCompletes, ResumeRefused
    <2>4. \A g \in Handlers : hs'[g].job = hs[g].job /\ hs'[g].pc = IF g = w THEN pc ELSE hs[g].pc
      BY <2>1, <1>t, <1>w, HandlerMoves
    <2>5. \A g \in Workers : Keeps(g)  BY <2>2, <2>4, <1>w DEF Keeps, JobsInv, At
    <2>6. \A g \in Handlers : hs'[g].pc = "park" <=> hs[g].pc = "park"  BY <2>2, <2>4
    <2> QED  BY <2>3, <2>5, <2>6, LockKept
  <1>8. ASSUME NEW w \in Workers, ActivityFails(w) PROVE LockInv'
    <2>1. UNCHANGED <<inst, parking, sent, visits, jobs>>  BY <1>8 DEF ActivityFails
    <2>2. \A g \in Workers : Keeps(g)
      BY <1>8, <1>w, <1>t DEF ActivityFails, Keeps, HandlerRecords, JobsInv, At
    <2>3. \A g \in Handlers : hs'[g].pc = "park" <=> hs[g].pc = "park"
      BY <1>8, <1>w, <1>t DEF ActivityFails, HandlerRecords, At
    <2> QED  BY <2>1, <2>2, <2>3, LockKept
  <1>9. ASSUME NEW w \in Workers, ResumeFailsRun(w) \/ ResumeContinues(w) \/ ResumeSwallowed(w) PROVE LockInv'
    <2>1. PICK pc \in {"acknowledge", "drive"} : hs' = [hs EXCEPT ![w].pc = pc]
      BY <1>9 DEF ResumeFailsRun, ResumeContinues, ResumeSwallowed, Goto
    <2>2. Unlocked /\ parking' = parking  BY <1>9 DEF ResumeFailsRun, ResumeContinues, ResumeSwallowed
    <2>3. \A g \in Handlers : hs'[g].pc # "park"  BY <2>1, <2>2, <1>u, <1>t, <1>w, HandlerMoves
    <2> QED  BY <2>2, <2>3, LockFree DEF Unlocked
  <1>10. ASSUME NEW w \in Workers, Acknowledge(w) PROVE LockInv'
    <2> DEFINE j == hs[w].job
               k == [j EXCEPT !.attempts = @ + 1]
    <2>1. UNCHANGED <<inst, parking, sent, visits>>  BY <1>10 DEF Acknowledge
    <2>2. \A g \in Handlers : hs'[g] = IF g = w THEN Idle ELSE hs[g]  BY <1>10, <1>t DEF Acknowledge
    <2>3. \A g \in Workers : Keeps(g)  BY <2>2, <1>w DEF Keeps, Idle, JobsInv, At
    <2>4. hs[w].pc = "acknowledge"  BY <1>10 DEF Acknowledge, At
    <2>5. \A g \in Handlers : hs'[g].pc = "park" <=> hs[g].pc = "park"  BY <2>2, <2>4 DEF Idle
    <2>6. CASE parking = NoOne
      <3>1. \A g \in Handlers : hs'[g].pc # "park"  BY <2>5, <2>6, <1>u DEF Unlocked
      <3> QED  BY <2>1, <2>6, <3>1, LockFree
    <2>7. CASE parking # NoOne
      <3>1. j.visit < visits /\ j \in Jobs  BY <2>4, <2>7 DEF LockInv, At, JobsInv, TypeOK
      <3>2. j.visit # visits /\ k.visit # visits  BY <3>1 DEF Jobs, TypeOK
      <3>3. jobs' = jobs \ {j} \/ jobs' = (jobs \ {j}) \cup {k}  BY <1>10 DEF Acknowledge
      <3>4. {i \in jobs' : i.visit = visits} = {i \in jobs : i.visit = visits}  BY <3>2, <3>3
      <3> QED  BY <2>1, <2>3, <2>5, <3>4, LockKept
    <2> QED  BY <2>6, <2>7
  <1>11. ASSUME NEW c \in Callers, ReadForRetry(c) PROVE LockInv'
    <2>1. UNCHANGED <<inst, parking, sent, visits, jobs>>  BY <1>11 DEF ReadForRetry
    <2>2. c \in Handlers /\ hs' = [hs EXCEPT ![c].pc = "retry"] /\ hs[c].pc = "idle"
      BY <1>11 DEF ReadForRetry, Goto, At, Handlers
    <2>3. \A g \in Handlers : hs'[g].job = hs[g].job /\ hs'[g].pc = IF g = c THEN "retry" ELSE hs[g].pc
      BY <2>2, <1>t, HandlerMoves
    <2>4. \A g \in Workers : Keeps(g)  BY <2>3, <1>w DEF Keeps, JobsInv, At
    <2>5. \A g \in Handlers : hs'[g].pc = "park" <=> hs[g].pc = "park"  BY <2>2, <2>3
    <2> QED  BY <2>1, <2>4, <2>5, LockKept
  <1>12. ASSUME NEW c \in Callers, Retry(c) PROVE LockInv'
    <2>1. c \in Handlers /\ hs' = [hs EXCEPT ![c].pc = "drive"] /\ Unlocked /\ parking' = parking
      BY <1>12 DEF Retry, Goto, Handlers
    <2>2. \A g \in Handlers : hs'[g].pc # "park"  BY <2>1, <1>u, <1>t, HandlerMoves
    <2> QED  BY <2>1, <2>2, LockFree DEF Unlocked
  <1>13. CASE UNCHANGED vars
    BY <1>13 DEF vars, LockInv, At, Due
  <1> QED
    BY <1>1, <1>2, <1>3, <1>4, <1>5, <1>6, <1>7, <1>8, <1>9, <1>10, <1>11, <1>12, <1>13
       DEF Next, Execute, Work, Resume

-----------------------------------------------------------------------------
\* The fresh jobs are finitely many.
LEMMA FreshFinite == JobsInv => IsFiniteSet(Fresh) /\ Cardinality(Fresh) \in Nat
  BY FS_Subset, FS_CardinalityType DEF JobsInv, Fresh

\* The fresh jobs but x stay so when they stay in the queue and nobody else executes them.
LEMMA FreshKept ==
  ASSUME NEW x, visits' = visits, Fresh \ {x} \subseteq jobs',
         \A w \in Workers : \A j \in Fresh \ {x} :
             Holds(w, j)' /\ Executed(w)' => Holds(w, j) /\ Executed(w)
  PROVE  Fresh \ {x} \subseteq Fresh'
  BY DEF Fresh

\* An event that uses up one fresh job, or none, keeps the count.
LEMMA CountKept ==
  ASSUME TypeOK, JobsInv, JobsInv', CountInv, inst' = inst,
         NEW x, Fresh \ {x} \subseteq Fresh',
         \/ counts' = counts /\ x \notin Fresh
         \/ completed' = completed + 1 /\ failed' = failed
         \/ completed' = completed /\ failed' = failed + 1
  PROVE  CountInv'
  <1>1. IsFiniteSet(Fresh) /\ Cardinality(Fresh) \in Nat  BY FreshFinite
  <1>2. IsFiniteSet(Fresh') /\ Cardinality(Fresh') \in Nat  BY FS_Subset, FS_CardinalityType DEF JobsInv, Fresh
  <1>3. Cardinality(Fresh \ {x}) <= Cardinality(Fresh')  BY <1>2, FS_Subset
  <1>4. /\ IsFiniteSet(Fresh \ {x})
        /\ Cardinality(Fresh \ {x}) = IF x \in Fresh THEN Cardinality(Fresh) - 1 ELSE Cardinality(Fresh)
    BY <1>1, FS_RemoveElement
  <1>5. Cardinality(Fresh \ {x}) \in Nat  BY <1>4, FS_CardinalityType
  <1>6. completed + failed + Cardinality(Fresh) <= completed' + failed' + Cardinality(Fresh')
    BY <1>1, <1>2, <1>3, <1>4, <1>5 DEF TypeOK, counts
  <1>7. inst.pending \in Nat /\ completed \in Nat /\ failed \in Nat /\ completed' \in Nat /\ failed' \in Nat
    BY DEF TypeOK, counts
  <1> QED  BY <1>1, <1>2, <1>6, <1>7 DEF CountInv, Waiting

\* The transaction that parks the run leaves as many fresh jobs as there are activities.
LEMMA ParkedJobsFresh ==
  ASSUME TypeOK, JobsInv, JobsInv', LockInv, NEW h \in Handlers, ParkCommits(h)
  PROVE  /\ Fresh' = {[act |-> a, visit |-> visits, attempts |-> 0] : a \in sent}
         /\ Cardinality(Fresh') = Cardinality(sent)
         /\ IsFiniteSet(sent)
  <1> DEFINE new(a) == [act |-> a, visit |-> visits, attempts |-> 0]
             N == {new(a) : a \in sent}
  <1>1. parking = h /\ parking # NoOne  BY ActivitiesAssumption DEF ParkCommits, LockInv, Handlers
  <1>2. {j \in jobs : j.visit = visits} = N  BY <1>1 DEF LockInv
  <1>3. jobs' = jobs /\ visits' = visits  BY DEF ParkCommits
  <1>4. hs \in [Handlers -> HandlerRecords] /\ hs' = [hs EXCEPT ![h].pc = AfterDrive(h)]
    BY DEF TypeOK, HandlerRecords, ParkCommits, Goto
  <1>5. \A w \in Workers : hs'[w].job = hs[w].job /\ (hs[w].pc = "idle" => hs'[w].pc = "idle")
    BY <1>4, HandlerMoves DEF Handlers, ParkCommits, At
  <1>6. \A w \in Workers : hs[w].pc # "idle" => hs[w].job \notin N
    <2>1. \A j \in N : j.visit = visits  OBVIOUS
    <2>2. \A w \in Workers : hs[w].pc # "idle" => hs[w].job \in Jobs /\ hs[w].job.visit < visits
      BY <1>1 DEF LockInv, At, JobsInv, TypeOK
    <2> QED  BY <2>1, <2>2 DEF TypeOK, Jobs
  <1>7. \A w \in Workers : \A j \in N : ~Holds(w, j)'  BY <1>5, <1>6 DEF Holds
  <1>8. \A j \in N : j.attempts = 0  OBVIOUS
  <1>9. Fresh' = N  BY <1>2, <1>3, <1>7, <1>8 DEF Fresh
  <1>10. sent = RoundOf(inst.round)  BY DEF ParkCommits
  <1>11. IsFiniteSet(sent)  BY <1>10, RoundFacts
  <1>12. ExistsBijection(sent, N)
    <2> DEFINE f == [a \in sent |-> new(a)]
    <2>1. f \in Injection(sent, N)  BY DEF Injection, IsInjective
    <2>2. f \in Surjection(sent, N)  BY DEF Surjection
    <2> QED  BY <2>1, <2>2 DEF ExistsBijection, Bijection
  <1>13. Cardinality(N) = Cardinality(sent)  BY <1>11, <1>12, FS_Bijection
  <1> QED  BY <1>9, <1>11, <1>13

\* The job of an idle handler is no job of the queue.
LEMMA NoJobIsNone == NoJob \notin Jobs
  BY DEF NoJob, Jobs

\* Every step keeps the count of events and fresh jobs.
LEMMA CountStep == TypeOK /\ JobsInv /\ JobsInv' /\ LockInv /\ CountInv /\ [Next]_vars => CountInv'
  <1> SUFFICES ASSUME TypeOK, JobsInv, JobsInv', LockInv, CountInv, [Next]_vars PROVE CountInv'  OBVIOUS
  <1> USE ActivitiesAssumption
  <1>t. hs \in [Handlers -> HandlerRecords]  BY DEF TypeOK, HandlerRecords
  <1>n. NoOne \notin Handlers  BY DEF Handlers
  <1>w. \A w \in Workers : w \in Handlers /\ w \notin Callers  BY DEF Handlers
  <1>d. Due => ~Waiting  BY DEF Due, Waiting
  <1>x. NoJob \notin Fresh
    <2>1. jobs \subseteq Jobs  BY DEF TypeOK
    <2> QED  BY <2>1, NoJobIsNone DEF Fresh
  <1>e. ASSUME inst' = inst, counts' = counts, visits' = visits, Fresh \subseteq jobs',
               \A w \in Workers : \A j \in Fresh : Holds(w, j)' /\ Executed(w)' => Holds(w, j) /\ Executed(w)
        PROVE CountInv'
    <2>1. Fresh \ {NoJob} = Fresh  BY <1>x
    <2>2. Fresh \ {NoJob} \subseteq Fresh'  BY <1>e, <2>1, FreshKept
    <2> QED  BY <1>e, <1>x, <2>2, CountKept
  <1>f. Fresh \subseteq jobs  BY DEF Fresh
  <1>1. ASSUME NEW h \in Handlers, DriveIdles(h) PROVE CountInv'
    <2>1. hs' = [hs EXCEPT ![h].pc = AfterDrive(h)] /\ hs[h].pc = "drive"
      BY <1>1 DEF DriveIdles, Goto, At
    <2>2. \A w \in Workers : hs'[w].job = hs[w].job /\ hs'[w].pc = IF w = h THEN AfterDrive(h) ELSE hs[w].pc
      BY <2>1, <1>t, <1>w, HandlerMoves
    <2>3. UNCHANGED <<inst, counts, visits, jobs>>  BY <1>1 DEF DriveIdles
    <2>4. \A w \in Workers : \A j \in Fresh : Holds(w, j)' /\ Executed(w)' => Holds(w, j) /\ Executed(w)
      BY <2>1, <2>2 DEF Holds, Executed
    <2> QED  BY <2>3, <2>4, <1>e, <1>f
  <1>2. ASSUME NEW h \in Handlers, DriveEnd(h) \/ ParkFails(h) PROVE CountInv'
    <2>1. inst'.status \in {"COMPLETED", "FAILED"}  BY <1>2 DEF DriveEnd, ParkFails, TypeOK
    <2> QED  BY <2>1 DEF CountInv, Waiting
  <1>3. ASSUME NEW h \in Handlers, Park(h) PROVE CountInv'
    BY <1>3, <1>d DEF Park, CountInv, Waiting
  <1>4. ASSUME NEW h \in Handlers, EnqueueActivity(h) PROVE CountInv'
    <2>1. Due /\ inst' = inst  BY <1>4, <1>n DEF EnqueueActivity, LockInv
    <2> QED  BY <2>1, <1>d DEF CountInv, Waiting
  <1>5. ASSUME NEW h \in Handlers, ParkCommits(h) PROVE CountInv'
    <2>1. Cardinality(Fresh') = Cardinality(sent) /\ IsFiniteSet(sent)  BY <1>5, ParkedJobsFresh
    <2>2. Cardinality(sent) \in Nat  BY <2>1, FS_CardinalityType
    <2>3. inst'.pending = Cardinality(sent) /\ inst'.round = inst.round /\ counts' = counts
      BY <1>5 DEF ParkCommits, TypeOK
    <2>4. inst.round <= Rounds /\ sent = RoundOf(inst.round)  BY <1>5, <1>n DEF ParkCommits, LockInv
    <2> QED  BY <2>1, <2>2, <2>3, <2>4 DEF CountInv, TypeOK, counts
  <1>6. ASSUME NEW h \in Handlers, Crash(h) PROVE CountInv'
    <2>1. \A w \in Workers : hs'[w] = IF w = h THEN Idle ELSE hs[w]  BY <1>6, <1>t, <1>w DEF Crash
    <2>2. UNCHANGED <<inst, counts, visits, jobs>>  BY <1>6 DEF Crash
    <2>3. \A w \in Workers : \A j \in Fresh : Holds(w, j)' /\ Executed(w)' => Holds(w, j) /\ Executed(w)
      BY <2>1 DEF Holds, Executed, Idle
    <2> QED  BY <2>2, <2>3, <1>e, <1>f
  <1>7. ASSUME NEW w \in Workers, Take(w) PROVE CountInv'
    <2>1. PICK i \in jobs : hs' = [hs EXCEPT ![w] = [pc |-> "run", job |-> i, outcome |-> "done"]]
      BY <1>7 DEF Take
    <2>2. \A v \in Workers : hs'[v] = IF v = w THEN [pc |-> "run", job |-> i, outcome |-> "done"] ELSE hs[v]
      BY <2>1, <1>t, <1>w
    <2>3. UNCHANGED <<inst, counts, visits, jobs>>  BY <1>7 DEF Take
    <2>4. \A v \in Workers : \A j \in Fresh : Holds(v, j)' /\ Executed(v)' => Holds(v, j) /\ Executed(v)
      BY <2>2 DEF Holds, Executed
    <2> QED  BY <2>3, <2>4, <1>e, <1>f
  <1>8. ASSUME NEW w \in Workers, ActivityCompletes(w) \/ ActivityFails(w) PROVE CountInv'
    <2>1. UNCHANGED <<inst, visits, jobs>>  BY <1>8 DEF ActivityCompletes, ActivityFails
    <2>2. \A v \in Workers \ {w} : hs'[v] = hs[v]
      BY <1>8, <1>t, <1>w DEF ActivityCompletes, ActivityFails, Goto
    <2>3. hs'[w].job = hs[w].job
      BY <1>8, <1>t, <1>w DEF ActivityCompletes, ActivityFails, Goto, HandlerRecords
    <2>4. \A v \in Workers : \A j \in Fresh \ {hs[w].job} :
             Holds(v, j)' /\ Executed(v)' => Holds(v, j) /\ Executed(v)
      BY <2>2, <2>3 DEF Holds, Executed
    <2>5. Fresh \ {hs[w].job} \subseteq Fresh'  BY <2>1, <2>4, <1>f, FreshKept
    <2>6. \/ completed' = completed + 1 /\ failed' = failed
          \/ completed' = completed /\ failed' = failed + 1
      BY <1>8 DEF ActivityCompletes, ActivityFails
    <2> QED  BY <2>1, <2>5, <2>6, CountKept
  <1>9. ASSUME NEW w \in Workers, ResumeRefused(w) \/ ResumeSwallowed(w) PROVE CountInv'
    <2>1. hs' = [hs EXCEPT ![w].pc = "acknowledge"] /\ hs[w].pc = "resume"
      BY <1>9 DEF ResumeRefused, ResumeSwallowed, Goto, At
    <2>2. \A v \in Workers : hs'[v].job = hs[v].job /\ hs'[v].pc = IF v = w THEN "acknowledge" ELSE hs[v].pc
      BY <2>1, <1>t, <1>w, HandlerMoves
    <2>3. UNCHANGED <<inst, counts, visits, jobs>>  BY <1>9 DEF ResumeRefused, ResumeSwallowed
    <2>4. \A v \in Workers : \A j \in Fresh : Holds(v, j)' /\ Executed(v)' => Holds(v, j) /\ Executed(v)
      BY <2>1, <2>2 DEF Holds, Executed
    <2> QED  BY <2>3, <2>4, <1>e, <1>f
  <1>10. ASSUME NEW w \in Workers, ResumeFailsRun(w) \/ ResumeContinues(w) PROVE CountInv'
    <2>1. inst'.status \in {"FAILED", "RUNNING"}  BY <1>10 DEF ResumeFailsRun, ResumeContinues, TypeOK
    <2> QED  BY <2>1 DEF CountInv, Waiting
  <1>11. ASSUME NEW w \in Workers, Acknowledge(w) PROVE CountInv'
    <2>1. UNCHANGED <<inst, counts, visits>> /\ jobs \ {hs[w].job} \subseteq jobs' /\ hs[w].pc = "acknowledge"
      BY <1>11 DEF Acknowledge, At
    <2>2. \A v \in Workers : hs'[v] = IF v = w THEN Idle ELSE hs[v]  BY <1>11, <1>t, <1>w DEF Acknowledge
    <2>3. hs[w].job \notin Fresh  BY <2>1 DEF Fresh, Holds, Executed
    <2>4. \A v \in Workers : \A j \in Fresh : Holds(v, j)' /\ Executed(v)' => Holds(v, j) /\ Executed(v)
      BY <2>2 DEF Holds, Executed, Idle
    <2>5. Fresh \subseteq jobs'  BY <2>1, <2>3, <1>f
    <2> QED  BY <2>1, <2>4, <2>5, <1>e
  <1>12. ASSUME NEW c \in Callers, ReadForRetry(c) PROVE CountInv'
    <2>1. \A v \in Workers : hs'[v] = hs[v]  BY <1>12, <1>t, <1>w DEF ReadForRetry, Goto
    <2>2. UNCHANGED <<inst, counts, visits, jobs>>  BY <1>12 DEF ReadForRetry
    <2>3. \A v \in Workers : \A j \in Fresh : Holds(v, j)' /\ Executed(v)' => Holds(v, j) /\ Executed(v)
      BY <2>1 DEF Holds, Executed
    <2> QED  BY <2>2, <2>3, <1>e, <1>f
  <1>13. ASSUME NEW c \in Callers, Retry(c) PROVE CountInv'
    BY <1>13 DEF Retry, CountInv, Waiting, TypeOK
  <1>14. CASE UNCHANGED vars
    BY <1>14 DEF vars, counts, CountInv, Waiting, Fresh, Holds, Executed
  <1> QED
    BY <1>1, <1>2, <1>3, <1>4, <1>5, <1>6, <1>7, <1>8, <1>9, <1>10, <1>11, <1>12, <1>13, <1>14
       DEF Next, Execute, Work, Resume

-----------------------------------------------------------------------------
\* A step that spends no job keeps a worker that will ask.
LEMMA WakeupKept ==
  ASSUME WakeupInv, inst' = inst, jobs' = jobs, lost' = "none" => lost = "none",
         \A w \in Workers : \A j \in jobs : SpentBy(w, j)' => SpentBy(w, j)
  PROVE  WakeupInv'
  BY DEF WakeupInv, Spent, Waiting

\* One job whose worker will ask is enough.
LEMMA WakeupLeft ==
  ASSUME NEW e \in jobs', \A w \in Workers : ~SpentBy(w, e)'
  PROVE  WakeupInv'
  BY DEF WakeupInv, Spent

\* Every step of a run that waits leaves a worker that will ask, or loses work.
LEMMA WakeupStep ==
  TypeOK /\ JobsInv /\ JobsInv' /\ LockInv /\ CountInv /\ WakeupInv /\ [Next]_vars => WakeupInv'
  <1> SUFFICES ASSUME TypeOK, JobsInv, JobsInv', LockInv, CountInv, WakeupInv, [Next]_vars
               PROVE WakeupInv'
    OBVIOUS
  <1> USE ActivitiesAssumption
  <1>t. hs \in [Handlers -> HandlerRecords]  BY DEF TypeOK, HandlerRecords
  <1>n. NoOne \notin Handlers  BY DEF Handlers
  <1>w. \A w \in Workers : w \in Handlers /\ w \notin Callers  BY DEF Handlers
  <1>d. Due => ~Waiting  BY DEF Due, Waiting
  <1>1. ASSUME NEW h \in Handlers, DriveIdles(h) PROVE WakeupInv'
    <2>1. hs' = [hs EXCEPT ![h].pc = AfterDrive(h)] /\ hs[h].pc = "drive"
      BY <1>1 DEF DriveIdles, Goto, At
    <2>2. \A w \in Workers : /\ hs'[w].job = hs[w].job /\ hs'[w].outcome = hs[w].outcome
                             /\ hs'[w].pc = IF w = h THEN AfterDrive(h) ELSE hs[w].pc
      BY <2>1, <1>t, <1>w, HandlerMoves
    <2>3. \A w \in Workers : \A j \in jobs : SpentBy(w, j)' => SpentBy(w, j)
      BY <2>1, <2>2 DEF SpentBy, Holds
    <2> QED  BY <1>1, <2>3, WakeupKept DEF DriveIdles, hist
  <1>2. ASSUME NEW h \in Handlers, DriveEnd(h) \/ ParkFails(h) PROVE WakeupInv'
    <2>1. inst'.status \in {"COMPLETED", "FAILED"}  BY <1>2 DEF DriveEnd, ParkFails, TypeOK
    <2> QED  BY <2>1 DEF WakeupInv, Waiting
  <1>3. ASSUME NEW h \in Handlers, Park(h) PROVE WakeupInv'
    BY <1>3, <1>d DEF Park, WakeupInv, Waiting
  <1>4. ASSUME NEW h \in Handlers, EnqueueActivity(h) PROVE WakeupInv'
    <2>1. Due /\ inst' = inst  BY <1>4, <1>n DEF EnqueueActivity, LockInv
    <2> QED  BY <2>1, <1>d DEF WakeupInv, Waiting
  <1>5. ASSUME NEW h \in Handlers, ParkCommits(h) PROVE WakeupInv'
    <2>1. Cardinality(Fresh') = Cardinality(sent) /\ IsFiniteSet(sent)  BY <1>5, ParkedJobsFresh
    <2>2. sent = RoundOf(inst.round) /\ inst.round <= Rounds  BY <1>5, <1>n DEF ParkCommits, LockInv
    <2>3. PICK a : a \in sent
      <3>1. inst.round \in 1..Rounds  BY <2>2 DEF TypeOK
      <3>2. \A r \in 1..Rounds : Activities[r] # {}  OBVIOUS
      <3> QED  BY <2>2, <3>1, <3>2 DEF RoundOf
    <2>4. PICK e : e \in Fresh'
      <3>1. Cardinality(sent) # 0  BY <2>1, <2>3, FS_EmptySet
      <3> QED  BY <2>1, <3>1, FS_EmptySet
    <2>5. e \in jobs' /\ \A w \in Workers : ~(Holds(w, e)' /\ Executed(w)')
      BY <2>4 DEF Fresh
    <2>6. \A w \in Workers : ~SpentBy(w, e)'  BY <2>5 DEF SpentBy, Executed
    <2> QED  BY <2>5, <2>6, WakeupLeft
  <1>6. ASSUME NEW h \in Handlers, Crash(h) PROVE WakeupInv'
    <2>1. \A w \in Workers : hs'[w] = IF w = h THEN Idle ELSE hs[w]  BY <1>6, <1>t, <1>w DEF Crash
    <2>2. \A w \in Workers : \A j \in jobs : SpentBy(w, j)' => SpentBy(w, j)
      BY <2>1 DEF SpentBy, Holds, Idle
    <2>3. lost' = "none" => lost = "none"  BY <1>6 DEF Crash
    <2> QED  BY <1>6, <2>2, <2>3, WakeupKept DEF Crash
  <1>7. ASSUME NEW w \in Workers, Take(w) PROVE WakeupInv'
    <2>1. PICK i \in jobs : hs' = [hs EXCEPT ![w] = [pc |-> "run", job |-> i, outcome |-> "done"]]
      BY <1>7 DEF Take
    <2>2. \A v \in Workers : hs'[v] = IF v = w THEN [pc |-> "run", job |-> i, outcome |-> "done"] ELSE hs[v]
      BY <2>1, <1>t, <1>w
    <2>3. \A v \in Workers : \A j \in jobs : SpentBy(v, j)' => SpentBy(v, j)
      BY <2>2 DEF SpentBy, Holds
    <2> QED  BY <1>7, <2>3, WakeupKept DEF Take, hist
  <1>8. ASSUME NEW w \in Workers, ActivityCompletes(w) PROVE WakeupInv'
    <2>1. hs' = [hs EXCEPT ![w].pc = "resume"]  BY <1>8 DEF ActivityCompletes, Goto
    <2>2. \A v \in Workers : /\ hs'[v].job = hs[v].job /\ hs'[v].outcome = hs[v].outcome
                             /\ hs'[v].pc = IF v = w THEN "resume" ELSE hs[v].pc
      BY <2>1, <1>t, <1>w, HandlerMoves
    <2>3. \A v \in Workers : \A j \in jobs : SpentBy(v, j)' => SpentBy(v, j)
      BY <2>2 DEF SpentBy, Holds
    <2> QED  BY <1>8, <2>3, WakeupKept DEF ActivityCompletes
  <1>9. ASSUME NEW w \in Workers, ActivityFails(w) PROVE WakeupInv'
    <2>1. \A v \in Workers \ {w} : hs'[v] = hs[v]  BY <1>9, <1>t, <1>w DEF ActivityFails
    <2>2. /\ hs'[w].job = hs[w].job /\ hs'[w].outcome = "failed"
          /\ hs'[w].pc = IF PolicyExhausted(hs[w].job) THEN "resume" ELSE "acknowledge"
      BY <1>9, <1>t, <1>w DEF ActivityFails, HandlerRecords
    <2>3. \A v \in Workers : \A j \in jobs : SpentBy(v, j)' => SpentBy(v, j)
      <3> SUFFICES ASSUME NEW v \in Workers, NEW j \in jobs, SpentBy(v, j)' PROVE SpentBy(v, j)
        OBVIOUS
      <3>1. CASE v = w
        <4>1. hs'[w].pc = "acknowledge" /\ hs[w].job = j /\ PolicyExhausted(j)'
          BY <3>1, <2>2 DEF SpentBy, Holds
        <4>2. PolicyExhausted(j)  BY <4>1 DEF PolicyExhausted, AttemptNumber
        <4> QED  BY <4>1, <4>2, <2>2
      <3>2. CASE v # w
        BY <3>2, <2>1 DEF SpentBy, Holds, PolicyExhausted, AttemptNumber
      <3> QED  BY <3>1, <3>2
    <2> QED  BY <1>9, <2>3, WakeupKept DEF ActivityFails, hist
  <1>10. ASSUME NEW w \in Workers, ResumeRefused(w) PROVE WakeupInv'
    <2>1. hs' = [hs EXCEPT ![w].pc = "acknowledge"] /\ hs[w].pc = "resume"
      BY <1>10 DEF ResumeRefused, Goto, At
    <2>2. \A v \in Workers : hs'[v].job = hs[v].job /\ hs'[v].pc = IF v = w THEN "acknowledge" ELSE hs[v].pc
      BY <2>1, <1>t, <1>w, HandlerMoves
    <2>3. UNCHANGED <<inst, jobs>>  BY <1>10 DEF ResumeRefused
    <2>4. CASE ~Waiting
      BY <2>3, <2>4 DEF WakeupInv, Waiting
    <2>5. CASE Waiting
      <3>1. completed + failed < inst.pending
        BY <1>10, <2>5 DEF ResumeRefused, AllProcessed, TypeOK
      <3>2. Cardinality(Fresh) # 0  BY <3>1, <2>5, FreshFinite DEF CountInv, TypeOK
      <3>3. PICK j : j \in Fresh  BY <3>2, FS_EmptySet
      <3>4. \A v \in Workers : ~(Holds(v, j) /\ Executed(v))  BY <3>3 DEF Fresh
      <3>5. \A v \in Workers : ~SpentBy(v, j)'
        BY <3>4, <2>1, <2>2 DEF SpentBy, Holds, Executed
      <3>6. j \in jobs' /\ ~Spent(j)'  BY <3>3, <3>5, <2>3 DEF Fresh, Spent
      <3> QED  BY <3>6 DEF WakeupInv
    <2> QED  BY <2>4, <2>5
  <1>11. ASSUME NEW w \in Workers, ResumeFailsRun(w) \/ ResumeContinues(w) PROVE WakeupInv'
    <2>1. inst'.status \in {"FAILED", "RUNNING"}  BY <1>11 DEF ResumeFailsRun, ResumeContinues, TypeOK
    <2> QED  BY <2>1 DEF WakeupInv, Waiting
  <1>12. ASSUME NEW w \in Workers, ResumeSwallowed(w) PROVE WakeupInv'
    BY <1>12 DEF ResumeSwallowed, WakeupInv
  <1>13. ASSUME NEW w \in Workers, Acknowledge(w) PROVE WakeupInv'
    <2> DEFINE j == hs[w].job
               k == [j EXCEPT !.attempts = @ + 1]
               again == hs[w].outcome = "failed" /\ AttemptNumber(j) < QueueAttempts
    <2> SUFFICES ASSUME Waiting, lost' = "none" PROVE WakeupInv'
      BY <1>13 DEF Acknowledge, WakeupInv, Waiting
    <2>1. /\ jobs' = (jobs \ {j}) \cup (IF again THEN {k} ELSE {})
          /\ lost' = IF hs[w].outcome = "failed" /\ ~again /\ ~PolicyExhausted(j) THEN "some" ELSE lost
          /\ hs[w].pc = "acknowledge"
      BY <1>13 DEF Acknowledge, At
    <2>2. \A v \in Workers : hs'[v] = IF v = w THEN Idle ELSE hs[v]  BY <1>13, <1>t, <1>w DEF Acknowledge
    <2>3. j \in jobs /\ j \in Jobs /\ hs[w].outcome \in {"done", "failed"}
      BY <2>1, <1>t, <1>w DEF JobsInv, At, TypeOK, HandlerRecords
    <2>4. PICK i \in jobs : ~Spent(i)  BY <2>1 DEF WakeupInv
    <2>5. CASE i # j
      <3>1. i \in jobs' /\ \A v \in Workers : SpentBy(v, i)' => SpentBy(v, i)
        BY <2>1, <2>2, <2>4, <2>5 DEF SpentBy, Holds, Idle, PolicyExhausted, AttemptNumber
      <3> QED  BY <2>4, <3>1 DEF WakeupInv, Spent
    <2>6. CASE i = j
      <3>1. ~SpentBy(w, j)  BY <2>4, <2>6 DEF Spent
      <3>2. hs[w].outcome = "failed" /\ (~PolicyExhausted(j) \/ ~(AttemptNumber(j) >= QueueAttempts))
        BY <3>1, <2>1, <2>3 DEF SpentBy, Holds
      <3>3. AttemptNumber(j) \in Nat /\ QueueAttempts \in Nat
        BY <2>3 DEF AttemptNumber, Jobs, QueueAttempts
      <3>4. again  BY <3>2, <3>3, <2>1
      <3>5. PICK e : e = k  OBVIOUS
      <3>6. e \in jobs'  BY <2>1, <3>4, <3>5
      <3>7. e \notin jobs
        <4>1. e.act = j.act /\ e.visit = j.visit /\ e # j  BY <2>3, <3>5 DEF Jobs
        <4> QED  BY <4>1, <2>3 DEF JobsInv
      <3>8. \A v \in Workers : ~(hs'[v].pc # "idle" /\ hs'[v].job = e)
        BY <2>2, <3>7 DEF Idle, JobsInv, At
      <3>9. \A v \in Workers : ~SpentBy(v, e)'  BY <3>8 DEF SpentBy, Holds
      <3> QED  BY <3>6, <3>9, WakeupLeft
    <2> QED  BY <2>5, <2>6
  <1>14. ASSUME NEW c \in Callers, ReadForRetry(c) PROVE WakeupInv'
    <2>1. \A v \in Workers : hs'[v] = hs[v]  BY <1>14, <1>t, <1>w DEF ReadForRetry, Goto
    <2>2. \A v \in Workers : \A j \in jobs : SpentBy(v, j)' => SpentBy(v, j)
      BY <2>1 DEF SpentBy, Holds, PolicyExhausted, AttemptNumber
    <2> QED  BY <1>14, <2>2, WakeupKept DEF ReadForRetry, hist
  <1>15. ASSUME NEW c \in Callers, Retry(c) PROVE WakeupInv'
    BY <1>15 DEF Retry, WakeupInv, Waiting, TypeOK
  <1>16. CASE UNCHANGED vars
    BY <1>16 DEF vars, hist, WakeupInv, Waiting, Spent, SpentBy, Holds, PolicyExhausted, AttemptNumber
  <1> QED
    BY <1>1, <1>2, <1>3, <1>4, <1>5, <1>6, <1>7, <1>8, <1>9, <1>10, <1>11, <1>12, <1>13, <1>14, <1>15, <1>16
       DEF Next, Execute, Work, Resume

-----------------------------------------------------------------------------
\* A step that leaves the events and the round alone, and adds no job of another round.
LEMMA FirstKept ==
  ASSUME FirstInv, inst'.round = inst.round, UNCHANGED <<completed, finished, recounted>>,
         inst.round = 1 => \A j \in jobs' : j.act \in RoundOf(1)
  PROVE  FirstInv'
  BY DEF FirstInv, FirstRoundComplete

\* Every step keeps the account of the first round.
LEMMA FirstStep == TypeOK /\ JobsInv /\ CountInv /\ FirstInv /\ [Next]_vars => FirstInv'
  <1> SUFFICES ASSUME TypeOK, JobsInv, CountInv, FirstInv, [Next]_vars PROVE FirstInv'  OBVIOUS
  <1> USE ActivitiesAssumption
  <1>r. inst.round \in Nat \ {0} /\ completed \in Nat /\ failed \in Nat  BY DEF TypeOK
  <1>j. inst.round = 1 => \A j \in jobs : j.act \in RoundOf(1)  BY DEF FirstInv
  <1>k. ASSUME inst'.round = inst.round, UNCHANGED <<completed, finished, recounted, jobs>> PROVE FirstInv'
    BY <1>k, <1>j, FirstKept
  <1>1. ASSUME NEW h \in Handlers, Execute(h), ~EnqueueActivity(h) PROVE FirstInv'
    BY <1>1, <1>k DEF Execute, DriveIdles, DriveEnd, Park, ParkCommits, ParkFails, TypeOK, counts, hist
  <1>2. ASSUME NEW h \in Handlers, EnqueueActivity(h) PROVE FirstInv'
    <2>1. PICK a \in RoundOf(inst.round) : jobs' = jobs \cup {[act |-> a, visit |-> visits, attempts |-> 0]}
      BY <1>2 DEF EnqueueActivity
    <2>2. inst.round = 1 => \A j \in jobs' : j.act \in RoundOf(1)  BY <2>1, <1>j
    <2> QED  BY <1>2, <2>2, FirstKept DEF EnqueueActivity, counts, hist
  <1>3. ASSUME NEW h \in Handlers, Crash(h) PROVE FirstInv'
    BY <1>3, <1>k DEF Crash, counts
  <1>4. ASSUME NEW w \in Workers, Take(w) \/ ActivityFails(w) PROVE FirstInv'
    BY <1>4, <1>k DEF Take, ActivityFails, counts, hist
  <1>5. ASSUME NEW w \in Workers, ActivityCompletes(w) PROVE FirstInv'
    <2>1. /\ completed' = completed + 1 /\ inst' = inst /\ jobs' = jobs
          /\ recounted' = IF hs[w].job.act \in finished THEN "some" ELSE recounted
          /\ finished' = finished \cup {hs[w].job.act}
          /\ hs[w].job \in jobs
      BY <1>5 DEF ActivityCompletes, At, JobsInv
    <2>2. IsFiniteSet(finished')  BY <2>1, FS_AddElement DEF FirstInv
    <2>3. ASSUME recounted' = "none" PROVE completed' = Cardinality(finished')
      <3>1. hs[w].job.act \notin finished /\ recounted = "none"  BY <2>1, <2>3
      <3>2. Cardinality(finished') = Cardinality(finished) + 1
        BY <2>1, <3>1, FS_AddElement DEF FirstInv
      <3> QED  BY <2>1, <3>1, <3>2 DEF FirstInv
    <2>4. inst'.round = 1 => finished' \subseteq RoundOf(1) /\ \A j \in jobs' : j.act \in RoundOf(1)
      BY <2>1 DEF FirstInv
    <2>5. FirstRoundComplete'  BY <2>1 DEF FirstInv, FirstRoundComplete
    <2> QED  BY <2>2, <2>3, <2>4, <2>5 DEF FirstInv
  <1>6. ASSUME NEW w \in Workers, ResumeRefused(w) \/ ResumeFailsRun(w) \/ ResumeSwallowed(w) PROVE FirstInv'
    BY <1>6, <1>k DEF ResumeRefused, ResumeFailsRun, ResumeSwallowed, TypeOK, counts, hist
  <1>7. ASSUME NEW w \in Workers, ResumeContinues(w) PROVE FirstInv'
    <2>1. /\ inst'.round = inst.round + 1 /\ failed = 0
          /\ completed >= Cardinality(RoundOf(inst.round))
          /\ UNCHANGED <<completed, finished, recounted>>
      BY <1>7, <1>r DEF ResumeContinues, AllProcessed, SomeFailed, CountInv, counts, hist
    <2>2. ASSUME recounted = "none", inst.round = 1 PROVE RoundOf(1) \subseteq finished
      <3>1. Cardinality(finished) >= Cardinality(RoundOf(1)) /\ finished \subseteq RoundOf(1)
        BY <2>1, <2>2 DEF FirstInv
      <3>2. IsFiniteSet(RoundOf(1))  BY RoundFacts
      <3>3. /\ Cardinality(finished) <= Cardinality(RoundOf(1))
            /\ Cardinality(finished) = Cardinality(RoundOf(1)) => finished = RoundOf(1)
        BY <3>1, <3>2, FS_Subset
      <3>4. Cardinality(finished) \in Nat /\ Cardinality(RoundOf(1)) \in Nat
        BY <3>2, FS_CardinalityType DEF FirstInv
      <3> QED  BY <3>1, <3>3, <3>4
    <2>3. FirstRoundComplete'  BY <2>1, <2>2, <1>r DEF FirstInv, FirstRoundComplete
    <2>4. inst'.round # 1  BY <2>1, <1>r
    <2> QED  BY <2>1, <2>3, <2>4 DEF FirstInv
  <1>8. ASSUME NEW w \in Workers, Acknowledge(w) PROVE FirstInv'
    <2>1. hs[w].job \in jobs  BY <1>8 DEF Acknowledge, At, JobsInv
    <2>2. hs[w].job \in Jobs  BY <2>1 DEF TypeOK
    <2>3. [hs[w].job EXCEPT !.attempts = @ + 1].act = hs[w].job.act  BY <2>2 DEF Jobs
    <2>4. inst.round = 1 => \A j \in jobs' : j.act \in RoundOf(1)
      BY <1>8, <1>j, <2>1, <2>3 DEF Acknowledge
    <2> QED  BY <1>8, <2>4, FirstKept DEF Acknowledge, counts
  <1>9. ASSUME NEW c \in Callers, ReadForRetry(c) \/ Retry(c) PROVE FirstInv'
    BY <1>9, <1>k DEF ReadForRetry, Retry, TypeOK, counts, hist
  <1>10. CASE UNCHANGED vars
    BY <1>10, <1>k DEF vars, counts, hist
  <1> QED
    BY <1>1, <1>2, <1>3, <1>4, <1>5, <1>6, <1>7, <1>8, <1>9, <1>10 DEF Next, Work, Resume

-----------------------------------------------------------------------------
\* A round that waits was parked, and so was every round before it.
RoundsInv == RoundsNotSkipped /\ (Waiting => inst.round \in parked)

\* Every step keeps the rounds in order.
LEMMA RoundsStep == TypeOK /\ LockInv /\ RoundsInv /\ [Next]_vars => RoundsInv'
  <1> SUFFICES ASSUME TypeOK, LockInv, RoundsInv, [Next]_vars PROVE RoundsInv'  OBVIOUS
  <1> USE ActivitiesAssumption
  <1>r. inst.round \in Nat  BY DEF TypeOK
  <1>k. ASSUME inst'.round = inst.round, Waiting' => Waiting, parked \subseteq parked' PROVE RoundsInv'
    BY <1>k DEF RoundsInv, RoundsNotSkipped
  <1>1. ASSUME NEW h \in Handlers, ParkCommits(h) PROVE RoundsInv'
    BY <1>1 DEF ParkCommits, RoundsInv, RoundsNotSkipped, TypeOK
  <1>2. ASSUME NEW h \in Handlers, Execute(h), ~ParkCommits(h) PROVE RoundsInv'
    BY <1>2, <1>k DEF Execute, DriveIdles, DriveEnd, Park, EnqueueActivity, ParkFails, TypeOK, hist, Waiting
  <1>3. ASSUME NEW h \in Handlers, Crash(h) PROVE RoundsInv'
    BY <1>3, <1>k DEF Crash, Waiting
  <1>4. ASSUME NEW w \in Workers, Work(w), ~ResumeContinues(w) PROVE RoundsInv'
    <2>1. inst' = inst \/ inst' = [inst EXCEPT !.status = "FAILED"]
      BY <1>4 DEF Work, Take, ActivityCompletes, ActivityFails, Resume, ResumeRefused, ResumeFailsRun,
                  ResumeSwallowed, Acknowledge
    <2>2. parked' = parked
      BY <1>4 DEF Work, Take, ActivityCompletes, ActivityFails, Resume, ResumeRefused, ResumeFailsRun,
                  ResumeSwallowed, Acknowledge, hist
    <2> QED  BY <2>1, <2>2, <1>k DEF TypeOK, Waiting
  <1>5. ASSUME NEW w \in Workers, ResumeContinues(w) PROVE RoundsInv'
    <2>1. inst' = [status |-> "RUNNING", round |-> inst.round + 1, pending |-> 0] /\ parked' = parked
          /\ inst.round \in parked
      BY <1>5 DEF ResumeContinues, RoundsInv, hist
    <2>2. \A r \in 1..Rounds : r < inst.round + 1 => r = inst.round \/ r < inst.round  BY <1>r
    <2> QED  BY <2>1, <2>2 DEF RoundsInv, RoundsNotSkipped, Waiting
  <1>6. ASSUME NEW c \in Callers, ReadForRetry(c) \/ Retry(c) PROVE RoundsInv'
    BY <1>6, <1>k DEF ReadForRetry, Retry, TypeOK, hist, Waiting
  <1>7. CASE UNCHANGED vars
    BY <1>7, <1>k DEF vars, hist, Waiting
  <1> QED
    BY <1>1, <1>2, <1>3, <1>4, <1>5, <1>6, <1>7 DEF Next

-----------------------------------------------------------------------------
\* The initial states satisfy every part.
LEMMA InvInit == Init => IInv
  <1> SUFFICES ASSUME Init PROVE IInv  OBVIOUS
  <1> USE ActivitiesAssumption
  <1>1. TypeOK  BY TypeInit
  <1>2. PICK starters \in SUBSET Callers :
          hs = [h \in Handlers |-> IF h \in starters THEN [Idle EXCEPT !.pc = "drive"] ELSE Idle]
    BY DEF Init
  <1>3. /\ \A h \in Handlers : hs[h].pc # "park"
        /\ \A w \in Workers : hs[w].pc = "idle"
    BY <1>2 DEF Idle, Handlers
  <1>4. /\ jobs = {} /\ finished = {} /\ completed = 0 /\ parking = NoOne
        /\ inst = [status |-> "RUNNING", round |-> 1, pending |-> 0]
    BY DEF Init
  <1>5. IsFiniteSet({}) /\ Cardinality({}) = 0  BY FS_EmptySet
  <1>6. JobsInv  BY <1>3, <1>4, <1>5 DEF JobsInv, Holds, At
  <1>7. LockInv  BY <1>3, <1>4 DEF LockInv, At, Handlers
  <1>8. ~Waiting  BY <1>4 DEF Waiting
  <1>9. FirstInv  BY <1>4, <1>5 DEF FirstInv, FirstRoundComplete
  <1>10. RoundsNotSkipped  BY <1>4 DEF RoundsNotSkipped
  <1> QED  BY <1>1, <1>6, <1>7, <1>8, <1>9, <1>10 DEF IInv, CountInv, WakeupInv

\* Every step keeps every part.
LEMMA InvStep == IInv /\ [Next]_vars => IInv'
  <1> SUFFICES ASSUME IInv, [Next]_vars PROVE IInv'  OBVIOUS
  <1>1. TypeOK'  BY TypeStep DEF IInv
  <1>2. JobsInv'  BY JobsStep DEF IInv
  <1>3. LockInv'  BY LockStep DEF IInv
  <1>4. CountInv'  BY <1>2, CountStep DEF IInv
  <1>5. WakeupInv'  BY <1>2, WakeupStep DEF IInv
  <1>6. FirstInv'  BY FirstStep DEF IInv
  <1>7. RoundsInv'  BY RoundsStep DEF IInv, RoundsInv
  <1> QED  BY <1>1, <1>2, <1>3, <1>4, <1>5, <1>6, <1>7 DEF IInv, RoundsInv

\* The inductive invariant.
LEMMA Invariance == Spec => []IInv
  BY InvInit, InvStep, PTL DEF Spec

\* Records, counters and histories keep their types: a round is never beyond the one after
\* the last, and a worker always holds a job of the queue's form.
THEOREM TypeCorrect == Spec => []TypeOK
  <1>1. IInv => TypeOK  BY DEF IInv
  <1> QED  BY <1>1, Invariance, PTL

\* A run of any number of rounds passes through each of them, however many workers find at
\* once that the activities are done (resumeWorkflowAfterActivities).
THEOREM RoundsAreParked == Spec => []RoundsNotSkipped
  <1>1. IInv => RoundsNotSkipped  BY DEF IInv
  <1> QED  BY <1>1, Invariance, PTL

\* Counting events is enough in the first round, for any number of activities in it, as long
\* as no activity was counted twice.
THEOREM FirstRoundIsComplete == Spec => []FirstRoundComplete
  <1>1. IInv => FirstRoundComplete  BY DEF IInv, FirstInv
  <1> QED  BY <1>1, Invariance, PTL

\* The last worker to record its event finds them all: a run that waits has a job left, unless
\* work was dropped (awaitStepParkingCommit, checkAndResumeWorkflow).
THEOREM NoWakeupIsLost == Spec => []NoLostWakeup
  <1>1. IInv => NoLostWakeup
    BY DEF IInv, WakeupInv, NoLostWakeup, TypeOK
  <1> QED  BY <1>1, Invariance, PTL

\* No round is passed after an attempt at an activity failed (the failedCount of
\* resumeWorkflowAfterActivities counts attempts that the queue has repeated since).
THEOREM FailuresHold == Spec => NoRoundOverFailure
  <1>1. IInv /\ [Next]_vars => [failed > 0 => inst'.round = inst.round]_vars
    <2> SUFFICES ASSUME TypeOK, Next, failed > 0 PROVE inst'.round = inst.round
      BY DEF IInv
    <2>1. ASSUME NEW w \in Workers PROVE ~ResumeContinues(w)
      BY DEF ResumeContinues, SomeFailed
    <2>2. \/ inst' = inst
          \/ \E st : inst' = [inst EXCEPT !.status = st]
          \/ \E st, p : inst' = [inst EXCEPT !.status = st, !.pending = p]
      BY <2>1 DEF Next, Execute, Work, Resume, DriveIdles, DriveEnd, Park, EnqueueActivity, ParkCommits,
                  ParkFails, Take, ActivityCompletes, ActivityFails, ResumeRefused, ResumeFailsRun,
                  ResumeSwallowed, Acknowledge, ReadForRetry, Retry, Crash
    <2> QED  BY <2>2 DEF TypeOK
  <1> QED  BY <1>1, Invariance, PTL DEF Spec, NoRoundOverFailure
=============================================================================
