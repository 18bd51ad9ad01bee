-------------------------- MODULE WorkflowInstance --------------------------
(***************************************************************************)
(* One instance of the workflow engine: a root token, a parallel fork whose *)
(* branches each pass a few waits, the join, and the waits after it.        *)
(*                                                                          *)
(* executeWorkflow runs in one transaction that holds the row lock of the   *)
(* instance, so a drive is one step.  Everything that wakes a token -- a    *)
(* completed task, a signal, a timer -- and the cancellation of the run     *)
(* work outside that lock: they read a row, decide, and write it later,     *)
(* and only then call executeWorkflow.  Callers are requests, Workers the   *)
(* processes that consume timer jobs; either may die between two steps.     *)
(*                                                                          *)
(* A place is <<lane, k>>: the k-th wait of a lane, or one of Start, Fork,   *)
(* Join, End.  A slot is <<token, place>>: a wait as one token meets it.     *)
(* Conditions, payloads, contexts and compensation are left out.            *)
(***************************************************************************)
EXTENDS Naturals, Sequences, FiniteSets

CONSTANTS
    Callers,      \* requests in flight at a time
    Workers,      \* processes that consume timer jobs
    Branches,     \* branches of the fork
    FirstBranch,  \* the branch whose transition has the highest priority
    Waits,        \* for each lane, the kinds of its waits in order
    Faults,       \* which kinds of fault may happen, a subset of FaultKinds
    MaxFaults,    \* bound on faults
    MaxOrders     \* bound on cancellations, reassignments and retries

Root == "root"
Tokens == Branches \cup {Root}
Kinds == {"task", "signal", "timer"}
FaultKinds == {"crash", "rollback", "rejected", "branch_fails"}

ASSUME InstanceAssumption ==
    /\ FirstBranch \in Branches /\ Root \notin Branches
    /\ Callers # {} /\ Callers \cap Workers = {}
    /\ Waits \in [Tokens -> Seq(Kinds) \ {<<>>}]
    /\ Faults \subseteq FaultKinds
    /\ MaxFaults \in Nat /\ MaxOrders \in Nat

Handlers == Callers \cup Workers
Start == <<"start", 0>>
Fork == <<"fork", 0>>
Join == <<"join", 0>>
End == <<"end", 0>>
Marks == {Start, Fork, Join, End}
Rests == UNION {{<<lane, k>> : k \in 1..Len(Waits[lane])} : lane \in Tokens}
Places == Marks \cup Rests
Slots == {<<Root, w>> : w \in Rests} \cup {<<w[1], w>> : w \in Rests}

KindOf(p) == IF p \in Rests THEN Waits[p[1]][p[2]] ELSE "none"

\* Mutant: one wait too many.
FollowingPast(p, tok) ==
    CASE p = Fork -> <<IF tok = Root THEN FirstBranch ELSE tok, 1>>
      [] p = Join -> <<Root, 1>>
      [] p \in Rests /\ p[2] <= Len(Waits[p[1]]) -> <<p[1], p[2] + 1>>
      [] OTHER -> End

\* The place behind a wait, the join or the fork, where each branch follows its own
\* transition and a root token the first one.
Following(p, tok) ==
    CASE p = Fork -> <<IF tok = Root THEN FirstBranch ELSE tok, 1>>
      [] p = Join -> <<Root, 1>>
      [] p \in Rests /\ p[2] < Len(Waits[p[1]]) -> <<p[1], p[2] + 1>>
      [] p \in Rests /\ p[2] = Len(Waits[p[1]]) -> IF p[1] = Root THEN End ELSE Join

VARIABLES
    inst,     \* status and cursor of the instance
    br,       \* status and cursor of each branch
    tasks,    \* statuses of the task rows of each slot, oldest first
    timers,   \* number of timer jobs of each slot
    hs,       \* what each handler is doing, and what it has read
    faults, orders,
    joined,   \* history: how many times the join fired
    happened, \* history: slots whose event was received
    answers,  \* history: successful completions per slot
    stale,    \* history: tokens written by one handler while another held a read of
              \* them, or reached by an event of an earlier wait
    reopened, \* history: slots whose completed task was opened again
    dropped,  \* history: tokens whose handler died with work only it knew of
    revived   \* history: a failed run was driven or retried

hist == <<joined, happened, answers, stale, reopened, dropped, revived>>
vars == <<inst, br, tasks, timers, hs, faults, orders, hist>>

Idle == [pc |-> "idle", tok |-> Root, at |-> Start, seen |-> "none", from |-> Start, row |-> 0]
Pcs == {"idle", "submit", "answered", "wake", "release", "advance", "drive", "cancel", "reassign"}

InstStatus == {"RUNNING", "FORKED", "PAUSED", "COMPLETED", "CANCELLED", "FAILED"}
BranchStatus == {"none", "ACTIVE", "PAUSED", "COMPLETED", "CANCELLED", "FAILED"}
TaskStatus == {"PENDING", "IN_PROGRESS", "COMPLETED", "CANCELLED"}
Open == {"PENDING", "IN_PROGRESS"}

Init ==
    /\ inst = [status |-> "RUNNING", at |-> Start]
    /\ br = [b \in Branches |-> [status |-> "none", at |-> Fork]]
    /\ tasks = [s \in Slots |-> <<>>]
    /\ timers = [s \in Slots |-> 0]
    /\ \E c \in Callers : hs = [h \in Handlers |-> IF h = c THEN [Idle EXCEPT !.pc = "drive"] ELSE Idle]
    /\ faults = 0 /\ orders = 0
    /\ joined = 0 /\ happened = {} /\ answers = [s \in Slots |-> 0]
    /\ stale = {} /\ reopened = {} /\ dropped = {} /\ revived = FALSE

Order == orders < MaxOrders /\ orders' = orders + 1
Fault(kind) == kind \in Faults /\ faults < MaxFaults /\ faults' = faults + 1

Goto(h, pc) == hs' = [hs EXCEPT ![h].pc = pc]
Rest(h) == hs' = [hs EXCEPT ![h] = Idle]
Slot(h) == <<hs[h].tok, hs[h].at>>

\* Handlers other than h that hold a read of the token and will write it.
Holders(h, tok) == {g \in Handlers \ {h} : hs[g].tok = tok
                       /\ hs[g].pc \in {"wake", "release", "advance", "cancel"}}
\* Those of the written tokens that somebody else has read and not yet written.
Overtaken(h, written) == {t \in written : Holders(h, t) # {}}

\* A token comes to rest at a wait: a task row is created or a timer job enqueued.
TaskRows(entered) == [s \in Slots |->
    IF s \in entered /\ KindOf(s[2]) = "task" THEN Append(tasks[s], "PENDING") ELSE tasks[s]]
\* Mutant: the timers of branches are never enqueued.
TimerJobsOfRoot(entered) == [s \in Slots |->
    timers[s] + IF s \in entered /\ s[1] = Root /\ KindOf(s[2]) = "timer" THEN 1 ELSE 0]

TimerJobs(entered) == [s \in Slots |->
    timers[s] + IF s \in entered /\ KindOf(s[2]) = "timer" THEN 1 ELSE 0]


-----------------------------------------------------------------------------
(***************************************************************************)
(* executeWorkflow, with the row lock of the instance.                     *)
(***************************************************************************)
Drives(h) == hs[h].pc = "drive" /\ Rest(h)

Runs == inst.status \in {"RUNNING", "FAILED"}   \* a FAILED run is not stopped here
Writes(h, written) == stale' = stale \cup Overtaken(h, written)

\* A run that is over, or parked, is left alone; so is one at a wait.
DriveIdles(h) ==
    /\ Drives(h)
    /\ \/ inst.status \in {"COMPLETED", "CANCELLED", "PAUSED"}
       \/ Runs /\ inst.at \in Rests
    /\ UNCHANGED <<inst, br, tasks, timers, faults, orders, hist>>

\* advanceBranches: every active branch takes one step, to its next wait, where it
\* pauses, or to the join, where it is completed.
\* Mutant: every branch that is not over is stepped.
Unfinished(row) == {b \in Branches : row[b].status \in {"ACTIVE", "PAUSED"}}

Active(row) == {b \in Branches : row[b].status = "ACTIVE"}
NextOf(row, b) == IF row[b].at = Join THEN Join ELSE Following(row[b].at, b)
Stepped(row, moving) == [b \in Branches |->
    IF b \notin moving THEN row[b]
    ELSE [status |-> IF NextOf(row, b) = Join THEN "COMPLETED" ELSE "PAUSED", at |-> NextOf(row, b)]]
EnteredBy(row, moving) == {<<b, NextOf(row, b)>> : b \in {c \in moving : NextOf(row, c) # Join}}

\* Mutant: the join fires as soon as no branch is active.
NoneActive(row) == \A b \in Branches : row[b].status # "ACTIVE"

AllArrived(row) == \A b \in Branches : row[b].status = "COMPLETED"

\* fireJoin parks the root token on the join, from where the loop of executeWorkflow
\* takes it to the first wait behind it.
AdvanceBranches(h, row) ==
    LET next == Stepped(row, Active(row))
        joins == AllArrived(next)
        entered == EnteredBy(row, Active(row))
                     \cup (IF joins THEN {<<Root, Following(Join, Root)>>} ELSE {})
    IN  /\ br' = next
        /\ inst' = IF joins THEN [status |-> "PAUSED", at |-> Following(Join, Root)]
                   ELSE [status |-> "FORKED", at |-> Fork]
        /\ tasks' = TaskRows(entered)
        /\ timers' = TimerJobs(entered)
        /\ joined' = joined + (IF joins THEN 1 ELSE 0)
        /\ Writes(h, Active(row) \cup {Root})
        /\ UNCHANGED faults

\* The transition out of the join is rejected: the run fails there.
JoinRejected(h, row) ==
    LET next == Stepped(row, Active(row))
    IN  /\ AllArrived(next)
        /\ Fault("rejected")
        /\ br' = next
        /\ inst' = [status |-> "FAILED", at |-> Join]
        /\ joined' = joined + 1
        /\ Writes(h, Active(row) \cup {Root})
        /\ UNCHANGED <<tasks, timers>>

\* Mutant: branches parked at a wait are forgotten.
RunningSiblings(row, failing) == {b \in Branches \ {failing} : row[b].status = "ACTIVE"}

\* The siblings that are cancelled with a failed branch.
Siblings(row, failing) == {b \in Branches \ {failing} : row[b].status \in {"ACTIVE", "PAUSED"}}

\* A branch has no valid transition, or an activity of it fails, after some others
\* took their step: its siblings are cancelled, with their tasks nobody has claimed.
FailBranch(h, row) == \E failing \in Active(row) : \E before \in SUBSET (Active(row) \ {failing}) :
    LET stepped == Stepped(row, before)
        cancelled == Siblings(stepped, failing)
        rows == TaskRows(EnteredBy(row, before))
    IN  /\ row[failing].at # Join
        /\ Fault("branch_fails")
        /\ br' = [b \in Branches |-> IF b = failing THEN [row[b] EXCEPT !.status = "FAILED"]
                    ELSE IF b \in cancelled THEN [stepped[b] EXCEPT !.status = "CANCELLED"]
                    ELSE stepped[b]]
        /\ inst' = [status |-> "FAILED", at |-> Fork]
        /\ tasks' = [s \in Slots |-> IF s[1] \notin cancelled THEN rows[s]
                       ELSE [i \in DOMAIN rows[s] |->
                               IF rows[s][i] = "PENDING" THEN "CANCELLED" ELSE rows[s][i]]]
        /\ timers' = TimerJobs(EnteredBy(row, before))
        /\ Writes(h, Branches \cup {Root})
        /\ UNCHANGED joined

DriveBranches(h) ==
    /\ Drives(h)
    /\ inst.status = "FORKED"
    /\ AdvanceBranches(h, br) \/ JoinRejected(h, br) \/ FailBranch(h, br)
    /\ UNCHANGED <<orders, happened, answers, reopened, dropped, revived>>

\* openFork: one active branch per outgoing transition, driven by the same loop.
DriveStart(h) ==
    LET opened == [b \in Branches |-> [status |-> "ACTIVE", at |-> Fork]]
    IN  /\ Drives(h)
        /\ Runs /\ inst.at = Start
        /\ AdvanceBranches(h, opened) \/ FailBranch(h, opened)
        /\ revived' = (revived \/ inst.status = "FAILED")
        /\ UNCHANGED <<orders, happened, answers, reopened, dropped>>

\* The root token takes the first valid transition.  On the fork -- the cursor of a run
\* that failed there -- that is the transition of one branch, taken by the root.
DriveRoot(h) ==
    LET next == Following(inst.at, Root)
    IN  /\ Drives(h)
        /\ Runs /\ inst.at \in {Fork, Join}
        /\ inst' = [status |-> "PAUSED", at |-> next]
        /\ tasks' = TaskRows({<<Root, next>>})
        /\ timers' = TimerJobs({<<Root, next>>})
        /\ revived' = (revived \/ inst.status = "FAILED")
        /\ Writes(h, {Root})
        /\ UNCHANGED <<br, faults, orders, joined, happened, answers, reopened, dropped>>

DriveEnd(h) ==
    /\ Drives(h)
    /\ Runs /\ inst.at = End
    /\ inst' = [inst EXCEPT !.status = "COMPLETED"]
    /\ revived' = (revived \/ inst.status = "FAILED")
    /\ Writes(h, {Root})
    /\ UNCHANGED <<br, tasks, timers, faults, orders, joined, happened, answers, reopened, dropped>>

\* The transition of the root token is rejected: the run fails.
DriveRejected(h) ==
    /\ Drives(h)
    /\ Fault("rejected")
    /\ Runs /\ inst.at \in {Start, Fork, Join}
    /\ inst' = [inst EXCEPT !.status = "FAILED"]
    /\ Writes(h, {Root})
    /\ UNCHANGED <<br, tasks, timers, orders, joined, happened, answers, reopened, dropped, revived>>

\* The transaction throws and is rolled back; then, in another one, a run that is
\* still RUNNING is marked FAILED.
DriveRollsBack(h) ==
    /\ Drives(h)
    /\ Fault("rollback")
    /\ inst.status \in {"RUNNING", "FORKED", "FAILED"}
    /\ inst' = [inst EXCEPT !.status = IF @ = "RUNNING" THEN "FAILED" ELSE @]
    /\ dropped' = dropped \cup {hs[h].tok}
    /\ Writes(h, {Root})
    /\ UNCHANGED <<br, tasks, timers, orders, joined, happened, answers, reopened, revived>>

-----------------------------------------------------------------------------
(***************************************************************************)
(* Waking a branch: resumeBranch reads its row and writes it later.        *)
(***************************************************************************)
Begin(h, pc, tok, at) ==
    /\ hs[h].pc = "idle"
    /\ hs' = [hs EXCEPT ![h] = IF pc = "idle" THEN Idle
                               ELSE [Idle EXCEPT !.pc = pc, !.tok = tok, !.at = at]]

\* An event of a wait that reaches a token which has gone on since.
Late(tok, at, cursor) == IF at # cursor THEN {tok} ELSE {}

\* resumeBranch's test: only a paused branch is woken, whatever it is paused at.
Sleeping(b) == br[b].status = "PAUSED"

FireBranchTimer(h) == \E b \in Branches : \E w \in Rests :
    /\ h \in Workers
    /\ <<b, w>> \in Slots /\ timers[<<b, w>>] > 0
    /\ Begin(h, IF Sleeping(b) THEN "wake" ELSE "idle", b, w)
    /\ timers' = [timers EXCEPT ![<<b, w>>] = @ - 1]
    /\ happened' = happened \cup {<<b, w>>}
    /\ stale' = stale \cup (IF Sleeping(b) THEN Late(b, w, br[b].at) ELSE {})
    /\ UNCHANGED <<inst, br, tasks, faults, orders, joined, answers, reopened, dropped, revived>>

\* sendSignal to a forked run: the branch paused at a wait for that signal.
SignalBranch(h) == \E b \in Branches :
    /\ h \in Callers
    /\ inst.status = "FORKED"
    /\ Sleeping(b) /\ KindOf(br[b].at) = "signal"
    /\ Begin(h, "wake", b, br[b].at)
    /\ happened' = happened \cup {<<b, br[b].at>>}
    /\ UNCHANGED <<inst, br, tasks, timers, faults, orders, joined, answers, stale, reopened, dropped, revived>>

\* Mutant: the branch is marked, and nobody drives the run.
WakeBranchOnly(h) ==
    /\ hs[h].pc = "wake"
    /\ br' = [br EXCEPT ![hs[h].tok].status = "ACTIVE"]
    /\ Rest(h)
    /\ Writes(h, {hs[h].tok})
    /\ UNCHANGED <<inst, tasks, timers, faults, orders, joined, happened, answers, reopened, dropped, revived>>

WakeBranch(h) ==
    /\ hs[h].pc = "wake"
    /\ br' = [br EXCEPT ![hs[h].tok].status = "ACTIVE"]
    /\ Goto(h, "drive")
    /\ Writes(h, {hs[h].tok})
    /\ UNCHANGED <<inst, tasks, timers, faults, orders, joined, happened, answers, reopened, dropped, revived>>

-----------------------------------------------------------------------------
(***************************************************************************)
(* User tasks.                                                             *)
(***************************************************************************)
Row(h) == tasks[Slot(h)][hs[h].row]
SetRow(h, status) == tasks' = [tasks EXCEPT ![Slot(h)][hs[h].row] = status]

ClaimTask == \E s \in Slots : \E i \in DOMAIN tasks[s] :
    /\ tasks[s][i] = "PENDING"
    /\ tasks' = [tasks EXCEPT ![s][i] = "IN_PROGRESS"]
    /\ UNCHANGED <<inst, br, timers, hs, faults, orders, hist>>

\* A request reads an open task: to complete it, or to hand it to somebody else.  The
\* latter only matters for a claimed one, whose status it writes.
ReadRow(h, pc, statuses) == \E s \in Slots : \E i \in DOMAIN tasks[s] :
    /\ h \in Callers
    /\ hs[h].pc = "idle"
    /\ tasks[s][i] \in statuses
    /\ hs' = [hs EXCEPT ![h] = [Idle EXCEPT !.pc = pc, !.tok = s[1], !.at = s[2], !.row = i,
                                            !.seen = tasks[s][i]]]
ReadToComplete(h) ==
    /\ ReadRow(h, "submit", Open)
    /\ UNCHANGED <<inst, br, tasks, timers, faults, orders, hist>>
ReadToReassign(h) ==
    /\ ReadRow(h, "reassign", {"IN_PROGRESS"})
    /\ Order
    /\ UNCHANGED <<inst, br, tasks, timers, faults, hist>>

\* reassignUserTask writes the status it computed from its read, without a condition:
\* a claim is released.
ReassignTask(h) ==
    /\ hs[h].pc = "reassign"
    /\ SetRow(h, "PENDING")
    /\ Rest(h)
    /\ reopened' = reopened \cup (IF Row(h) \in Open THEN {} ELSE {Slot(h)})
    /\ UNCHANGED <<inst, br, timers, faults, orders, joined, happened, answers, stale, dropped, revived>>

\* Mutant: the update is not conditional.
StillOwnedOrNot(h) == hs[h].pc = "submit"

StillOwned(h) == Row(h) = hs[h].seen

\* completeUserTask: a conditional update on the status and the ownership it read ...
CompleteTask(h) ==
    /\ hs[h].pc = "submit"
    /\ IF StillOwned(h)
       THEN /\ SetRow(h, "COMPLETED") /\ Goto(h, "answered")
            /\ happened' = happened \cup {Slot(h)}
            /\ answers' = [answers EXCEPT ![Slot(h)] = @ + 1]
       ELSE Rest(h) /\ UNCHANGED <<tasks, happened, answers>>
    /\ UNCHANGED <<inst, br, timers, faults, orders, joined, stale, reopened, dropped, revived>>

\* ... and then the continuation, for a branch by resumeBranch,
ContinueBranch(h) ==
    /\ hs[h].pc = "answered" /\ hs[h].tok # Root
    /\ IF Sleeping(hs[h].tok) THEN Goto(h, "wake") ELSE Rest(h)
    /\ stale' = stale \cup (IF Sleeping(hs[h].tok) THEN Late(hs[h].tok, hs[h].at, br[hs[h].tok].at) ELSE {})
    /\ UNCHANGED <<inst, br, tasks, timers, faults, orders, joined, happened, answers, reopened, dropped, revived>>

\* for the root by the first transition out of the cursor, whatever the task was for
\* and whatever the status of the run is.
ContinueRoot(h) ==
    /\ hs[h].pc = "answered" /\ hs[h].tok = Root
    /\ IF inst.at = End THEN Rest(h)
       ELSE hs' = [hs EXCEPT ![h].pc = "release", ![h].seen = inst.status, ![h].from = inst.at]
    /\ stale' = stale \cup Late(Root, hs[h].at, inst.at)
    /\ UNCHANGED <<inst, br, tasks, timers, faults, orders, joined, happened, answers, reopened, dropped, revived>>

-----------------------------------------------------------------------------
(***************************************************************************)
(* Waking the root: fireTimer, sendSignal and the continuation of a task.  *)
(***************************************************************************)
\* fireTimer: the run must be paused at some timer, or the job fails.
FireRootTimer(h) == \E w \in Rests :
    /\ h \in Workers
    /\ timers[<<Root, w>>] > 0
    /\ LET waits == inst.status = "PAUSED" /\ KindOf(inst.at) = "timer"
       IN  /\ hs[h].pc = "idle"
           /\ IF waits THEN hs' = [hs EXCEPT ![h] = [Idle EXCEPT !.pc = "release", !.at = w,
                                                      !.seen = inst.status, !.from = inst.at]]
              ELSE UNCHANGED hs
           /\ stale' = stale \cup (IF waits THEN Late(Root, w, inst.at) ELSE {})
    /\ timers' = [timers EXCEPT ![<<Root, w>>] = @ - 1]
    /\ happened' = happened \cup {<<Root, w>>}
    /\ UNCHANGED <<inst, br, tasks, faults, orders, joined, answers, reopened, dropped, revived>>

SignalRoot(h) ==
    /\ h \in Callers
    /\ inst.status = "PAUSED" /\ KindOf(inst.at) = "signal"
    /\ hs[h].pc = "idle"
    /\ hs' = [hs EXCEPT ![h] = [Idle EXCEPT !.pc = "release", !.at = inst.at,
                                 !.seen = inst.status, !.from = inst.at]]
    /\ happened' = happened \cup {<<Root, inst.at>>}
    /\ UNCHANGED <<inst, br, tasks, timers, faults, orders, joined, answers, stale, reopened, dropped, revived>>

\* The pause that was read is lifted before the transition is taken ...
Release(h) ==
    /\ hs[h].pc = "release"
    /\ Goto(h, "advance")
    /\ IF hs[h].seen = "PAUSED"
       THEN inst' = [inst EXCEPT !.status = "RUNNING"] /\ Writes(h, {Root})
       ELSE UNCHANGED <<inst, stale>>
    /\ UNCHANGED <<br, tasks, timers, faults, orders, joined, happened, answers, reopened, dropped, revived>>

\* ... which moves the cursor on from where it was read and enters the next wait, which
\* pauses the run.  executeWorkflow follows.
Advance(h) ==
    LET next == Following(hs[h].from, Root)
    IN  /\ hs[h].pc = "advance"
        /\ inst' = IF next \in Rests THEN [status |-> "PAUSED", at |-> next]
                   ELSE [inst EXCEPT !.at = next]
        /\ tasks' = TaskRows({<<Root, next>>})
        /\ timers' = TimerJobs({<<Root, next>>})
        /\ Goto(h, "drive")
        /\ Writes(h, {Root})
        /\ UNCHANGED <<br, faults, orders, joined, happened, answers, reopened, dropped, revived>>

\* A transition that is rejected there leaves the run RUNNING at its wait.
AdvanceRejected(h) ==
    /\ hs[h].pc = "advance"
    /\ Fault("rejected")
    /\ dropped' = dropped \cup {Root}
    /\ Rest(h)
    /\ UNCHANGED <<inst, br, tasks, timers, orders, joined, happened, answers, stale, reopened, revived>>

-----------------------------------------------------------------------------
(***************************************************************************)
(* Operators, and the death of a handler.                                  *)
(***************************************************************************)
\* The cancel route reads the run; completeWorkflow then writes its status.
ReadForCancel(h) ==
    /\ h \in Callers
    /\ inst.status \in {"RUNNING", "PAUSED"}
    /\ Begin(h, "cancel", Root, inst.at)
    /\ Order
    /\ UNCHANGED <<inst, br, tasks, timers, faults, hist>>

Cancel(h) ==
    /\ hs[h].pc = "cancel"
    /\ inst' = [inst EXCEPT !.status = "CANCELLED"]
    /\ Rest(h)
    /\ Writes(h, {Root})
    /\ UNCHANGED <<br, tasks, timers, faults, orders, joined, happened, answers, reopened, dropped, revived>>

\* Mutant: any run that is over can be retried.
RetryableOver == inst.status \in {"FAILED", "COMPLETED"}

Retryable == inst.status = "FAILED"

\* The retry route sets a failed run RUNNING where it is and drives it.
Retry(h) ==
    /\ h \in Callers
    /\ Retryable
    /\ Order
    /\ Begin(h, "drive", Root, inst.at)
    /\ inst' = [inst EXCEPT !.status = "RUNNING"]
    /\ revived' = TRUE
    /\ Writes(h, {Root})
    /\ UNCHANGED <<br, tasks, timers, faults, joined, happened, answers, reopened, dropped>>

\* What only the handler knew: it had taken the task, or lifted the pause.
Carries(h) ==
    \/ hs[h].pc \in {"answered", "advance", "drive"}
    \/ hs[h].row > 0 /\ hs[h].pc \in {"wake", "release"}

\* The job of a worker that dies is delivered again.
Crash(h) ==
    /\ hs[h].pc # "idle"
    /\ Fault("crash")
    /\ Rest(h)
    /\ timers' = IF h \in Workers THEN [timers EXCEPT ![Slot(h)] = @ + 1] ELSE timers
    /\ dropped' = dropped \cup (IF Carries(h) THEN {hs[h].tok} ELSE {})
    /\ UNCHANGED <<inst, br, tasks, orders, joined, happened, answers, stale, reopened, revived>>

\* So is one whose worker died after its work and before it acknowledged the job.
Redeliver == \E s \in happened :
    /\ KindOf(s[2]) = "timer"
    /\ \A w \in Workers : Slot(w) # s
    /\ Fault("crash")
    /\ timers' = [timers EXCEPT ![s] = @ + 1]
    /\ UNCHANGED <<inst, br, tasks, hs, orders, hist>>

-----------------------------------------------------------------------------
Execute(h) == \/ DriveIdles(h) \/ DriveStart(h) \/ DriveBranches(h) \/ DriveRoot(h)
              \/ DriveEnd(h) \/ DriveRejected(h) \/ DriveRollsBack(h)
GoOn(h) == \/ Execute(h) \/ WakeBranch(h) \/ CompleteTask(h) \/ ReassignTask(h)
           \/ ContinueBranch(h) \/ ContinueRoot(h) \/ Release(h) \/ Advance(h)
           \/ AdvanceRejected(h) \/ Cancel(h)
Deliver(h) == FireBranchTimer(h) \/ FireRootTimer(h)
Ask(h) == SignalBranch(h) \/ SignalRoot(h) \/ ReadToComplete(h) \/ ReadToReassign(h)
          \/ ReadForCancel(h) \/ Retry(h)

Next == ClaimTask \/ Redeliver \/ \E h \in Handlers : GoOn(h) \/ Deliver(h) \/ Ask(h) \/ Crash(h)

\* A handler that lives goes on, and the queue delivers a job that is due.  Nobody
\* has to answer a task, send a signal or retry a run.
Fairness == \A h \in Handlers : WF_vars(GoOn(h)) /\ WF_vars(Deliver(h))
Spec == Init /\ [][Next]_vars /\ Fairness

-----------------------------------------------------------------------------
TypeOK ==
    /\ inst \in [status : InstStatus, at : Places]
    /\ br \in [Branches -> [status : BranchStatus, at : Places]]
    /\ tasks \in [Slots -> Seq(TaskStatus)]
    /\ timers \in [Slots -> Nat]
    /\ hs \in [Handlers -> [pc : Pcs, tok : Tokens, at : Places, from : Places, row : Nat,
                            seen : InstStatus \cup TaskStatus \cup {"none"}]]
    /\ faults \in 0..MaxFaults /\ orders \in 0..MaxOrders
    /\ joined \in Nat /\ answers \in [Slots -> Nat]
    /\ happened \subseteq Slots /\ reopened \subseteq Slots
    /\ stale \subseteq Tokens /\ dropped \subseteq Tokens /\ revived \in BOOLEAN

\* The waits of the lanes a token has behind it.
Before(tok, at) ==
    IF at \in Rests THEN {<<tok, <<at[1], k>>>> : k \in 1..(at[2] - 1)}
    ELSE IF at \in {Join, End} THEN {s \in Slots : s[1] = tok /\ s[2][1] = tok /\ (tok = Root => at = End)}
    ELSE {}

\* A token passes a wait only after the event of that very wait -- its task completed,
\* its signal sent, its timer due -- unless a handler wrote the token from a stale read
\* or an event of an earlier wait came late.
WaitsHonoured ==
    /\ \A b \in Branches \ stale : Before(b, br[b].at) \subseteq happened
    /\ Root \notin stale => Before(Root, inst.at) \subseteq happened

\* The join fires at most once, and not before every branch has had all of its waits.
JoinedOnce ==
    /\ joined <= 1
    /\ joined = 1 => \A b \in Branches \ stale : Before(b, Join) \subseteq happened
    /\ inst.at \in {Join, End} \cup {<<Root, k>> : k \in 1..Len(Waits[Root])}
         => joined = 1 \/ revived \/ Root \in stale

\* A run that failed in its branches leaves no branch alive for a later event to wake,
\* unless a handler still wrote from a read before the failure.
FailureStopsBranches ==
    inst = [status |-> "FAILED", at |-> Fork]
      => \A b \in Branches \ stale : br[b].status \notin {"ACTIVE", "PAUSED"}

\* A task row is completed once, however many requests complete it together, unless a
\* reassignment opened it again.
AnsweredOnce == \A s \in Slots \ reopened : answers[s] <= Len(tasks[s])

Last(s) == tasks[s][Len(tasks[s])]
\* Work that has begun has somebody to finish it, unless that handler died: an active
\* branch is about to be driven, a RUNNING run is being worked on, and the answer to
\* the task a token is parked at is being carried on.
NoLostWork ==
    /\ inst.status = "FORKED" => \A b \in Active(br) \ dropped : \E h \in Handlers : hs[h].pc = "drive"
    /\ inst.status = "RUNNING" /\ Root \notin dropped
         => \E h \in Handlers : hs[h].tok = Root /\ hs[h].pc \in {"advance", "drive"}
    /\ \A b \in Branches \ (dropped \cup stale) :
         LET s == <<b, br[b].at>> IN
         /\ inst.status = "FORKED" /\ Sleeping(b) /\ KindOf(br[b].at) = "task" /\ Last(s) = "COMPLETED"
         => \E h \in Handlers : Slot(h) = s /\ hs[h].pc \in {"answered", "wake"}

\* A completed run stays so, unless a handler wrote it from an earlier read.
CompletedIsFinal ==
    [][inst.status = "COMPLETED" => inst'.status = "COMPLETED" \/ Root \in stale']_vars

\* A cancelled run stays so: "The workflow will be marked as CANCELLED and will not execute
\* further" (cancel route); "completing a stale task can never resurrect a CANCELLED or
\* terminal run" (task-handler.ts).
CancelledIsFinal == [][inst.status = "CANCELLED" => inst'.status = "CANCELLED"]_vars

\* Parked where only a person can wake the token.
Awaits(tok, at) ==
    \/ KindOf(at) = "signal"
    \/ KindOf(at) = "task" /\ Last(<<tok, at>>) \in Open
AtRest ==
    \/ inst.status \in {"COMPLETED", "CANCELLED", "FAILED"}
    \/ inst.status = "PAUSED" /\ Awaits(Root, inst.at)
    \/ inst.status = "FORKED" /\ \A b \in Branches :
         br[b].status = "PAUSED" => Awaits(b, br[b].at)

\* Timers and handlers alone always bring a run to its end or to where it waits for a
\* person, again and again, unless a handler died with work only it knew of or the
\* instance was written from a stale read.
ComesToRest == []<>(AtRest \/ dropped # {} \/ Root \in stale)
=============================================================================
