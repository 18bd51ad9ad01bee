# Models and proofs of the agency on Open Mercato

TLA+ models of the purchase, payment and workflow core of this repository, the
runs of the model checker TLC on small instances of them, and proofs, checked by
TLAPS, for every instance.  Paths are relative to the repository; `PG` is
`ai-company/packages/core/src/modules/payment_gateways`, `WF` is
`ai-company/packages/core/src/modules/workflows/lib`, `AG` is
`ai-company/apps/mercato/src/modules/agency_operations/lib`.

## 1. The system

The repository is a fork of Open Mercato, an ERP in TypeScript, on which a
marketing agency runs (`.demo-docs/architecture.md`): a client buys a package,
the paid order becomes a *case*, the case is researched, and brief, strategy,
plan and posts are produced, reviewed, approved and published.  Employees,
clients and language-model agents act through workflow instances.

| Part | State it keeps | Operations | What makes it hard | What makes it correct |
|---|---|---|---|---|
| Payment session initialisation (`PG/lib/session-idempotency.ts`, `gateway-service.ts`) | one row per idempotency key: token, age, transaction | find, claim, take over, heartbeat, release, finalise, prune | take-over of a claim whose owner still works; owners that die | one transaction per key; replays agree; callers return |
| Manual operations and capture ledger (`payment-operation-idempotency.ts`, `capture-ledger.ts`, `status-machine.ts`) | operation rows with token and lease; status and captured amount of the transaction | capture, refund, cancel and their retries | leases nobody renews, lost replies, ledger and provider changing apart | no more money than authorised; no charge forgotten |
| Webhooks and polling (`webhook-processor.ts`, `webhook-utils.ts`, `status-poller.ts`) | rows of processed events | claim, sync, release; poll | duplicates, crash after the claim, unversioned flush | each event applied once; terminal statuses stay |
| Demo purchase (`AG/orderBootstrap`) | order metadata (`agencyPurchase`), sales payment, gateway transactions, case, workflow instances | start, retryPayment, confirm, read | one lock transaction with independent transactions inside it; work after the commit | nothing without a capture, everything once after it |
| Confirmation e-mail (`AG/paymentConfirmation`) | `paymentConfirmation` in the order metadata | reserve, deliver, report | two writers of one document, unknown outcomes | at most one e-mail; never gates fulfilment |
| Hand-over to analysis (`AG/paidCaseAnalysis`) | the case and its instance | replay, hand over, execute | recovery after crashes, policy switched meanwhile | paid research enqueued once, and eventually |
| Workflow instances (`WF/workflow-executor.ts`, `step-handler.ts`, `parallel-handler.ts`, `task-handler.ts`, `timer-handler.ts`, `signal-handler.ts`) | instance and branches with status and cursor; task rows; timer jobs | execute, complete or reassign a task, signal, fire, cancel, retry | events act on rows read before the lock; late and repeated timer jobs; branches that arrive together | waits passed on their own events; one join; nothing stuck |
| Asynchronous activities (`WF/activity-worker-handler.ts`, `workers/workflow-activities.worker.ts`) | jobs, events, the pending jobs of the instance | enqueue and park, execute, resume | jobs visible before the parking commits; two queues of retries; events counted over the whole run | no lost wake-up; a round left when it is done |
| Compensation and error handlers (`WF/compensation-handler.ts`) | compensation status | unwind a failed run | late events of a run that is unwound | each completed step undone once |
| Analysis process (`AG/analysisProcess`) | activity attempts, restarts | run, retry, restart | asynchronous research with external cost | no paid step twice |
| Reviews and approvals (`AG/*Review`, `AG/*Approval`, `briefStrategyProcess`) | decisions bound to document versions | publish for review, decide, hand on | decision on an outdated version, double decision | a decision is made once, on what was shown |
| Document execution and revision (`AG/*Execution`, `AG/*Revision`) | runs, bindings of revisions | run, hand off, revise | retry of a run that was saved | one saved result per request |
| Publication (`AG/publication*`) | consent, destination, preparation | ask, answer, prepare | consent withdrawn or outdated | nothing prepared without consent |
| Submissions, replies, questions, triage (`AG/client*`, `AG/*Questions`) | submissions, tasks | submit, reply, triage | repeated submissions | one case per submission |
| Tone of voice (`AG/tov*`, `agency_tov`) | intake, discovery collection, store | collect, resume, save | partial collection, leases | collected sources are the confirmed ones |
| Research store and pipeline (`agency_research`) | versioned documents, claims ledger | save, gate, publish, package | concurrent versions | gates see what they judge |
| Job queue (`packages/queue/src/strategies/local.ts`) | the file of jobs, the lock directory, batches in the memory of workers | enqueue, purge, fetch a batch, run, settle | processes that die with the lock; a batch settled on a file others have rewritten | no job lost or back from the dead; attempts bounded; jobs get done |
| Events, scheduler (`packages/events`, `scheduler`) | subscriptions, schedules | publish, run due | several processes | one run per due time |
| Agent orchestrator, record locks (`packages/enterprise`) | dispositions, locks | propose, dispose; acquire, renew, release | expiry under an editor | one holder |
| Everything else (ERP modules, channels, search, cache, UI, CLI, tooling) | | | | platform code outside the core of this fork |

How they interact: `confirm` locks the customer, calls the gateway service
within its transaction, calls sales commands that commit on their own, starts
workflow instances within its transaction, and after the commit sends the
e-mail and executes the instance, which enqueues the first research job.
Webhooks and the poller write the same gateway transaction as manual
operations do.

## 2. Modules

| Module | Models | MC module | Theorems |
|---|---|---|---|
| `IdempotentSession` | what keyed session creation promises | | |
| `PaymentSession` | keyed session creation, which implements it | (its own) | `PaymentSessionProofs` |
| `PaymentOperations` | manual operations, ledger, webhooks, poller | `MCPaymentOperations` | `PaymentOperationsProofs`, `PaymentLedgerProofs` (with `FiniteSums`) |
| `PurchaseActivation` | purchase, e-mail, hand-over | `MCPurchaseActivation` | `PurchaseActivationProofs` |
| `WorkflowInstance` | one workflow run: fork, branches, join, tasks, signals, timers | `MCWorkflowInstance` | `WorkflowInstanceProofs` |
| `AsyncActivities` | a run that waits for queued activities | `MCAsyncActivities` | `AsyncActivitiesProofs` |
| `JobQueue` | what a queue promises producers and workers | | |
| `LocalQueue` | the file-based queue, which implements it | `MCLocalQueue` | `LocalQueueProofs` |

`PurchaseActivation` uses the session creation as one step, which is what
`IdempotentSession` says and `PaymentSession` implements, and a provider that
moves the status by webhooks, which `PaymentOperations` is about.  Of the execution
of a workflow instance it keeps the transaction: the research is enqueued in it, and
what the instance became is there when it commits; the two workflow modules look
inside.  Both have jobs that are delivered
until a run of them succeeds or the queue gives up, with `QueueAttempts` runs in
all: that is what `JobQueue` says.

### IdempotentSession and PaymentSession

The promise has four visible parts: the transaction the key stands for
(`current`), those ever created, and the phase and reply of each call.  A call is
answered in one step, by `Create` when the key stands for nothing and by `Replay`
otherwise; `Forget` is the pruning.  An old transaction never comes back.

In the protocol `row` is the row of one operation key; keys never meet.  `Find`
is the lookup at the head of the loop of `createPaymentSession`, `Claim` and
`Reclaim` its two ways on, `Heartbeat` the timer, `GoesStale` the passing of
`claimedAt` behind `staleBefore`, `Finalize` the closing transaction, `Release` and
`Dies` its two failures, `Prune` the worker.  Every update in the code is one
conditional UPDATE and is one step here, with the condition in `Owns` or
`Reclaimable`; what a call read earlier is kept in `seen`.  A call that loses the
race returns to `find` and reads again.  Times are abstracted to "fresh" or not;
the history `late` records that a claim went stale under an owner that was
beating, the one thing without which `SingleFlight` holds.  `KeepsPromise` is the
refinement: the transaction of the row is `current`, and the loop, the claims, the
provider and the take-overs are stuttering.

### PaymentOperations

`txn` is the GatewayTransaction (status, captured amount), `ops` the operation
rows, `job` what an attempt holds in memory.  An attempt goes `Read`, `Prepare`,
`Reserve`, `Invoke`, `Complete`, `Commit`; failures lead over `Release` to
`Fail`.  `Complete` and `Commit` are two steps because the completion
transaction updates the operation row, reads the transaction row, and flushes
later what it computed; `RowFree` is the row lock of the operation meanwhile.
`Emit`, `ClaimWebhook`, `ReadForSync`, `Flush` are a webhook, `Poll`, `Flush`
the poller.  The provider executes a call at most once per idempotency key and
does not enforce the authorised amount.  Its behaviour, and the environment's,
is a matter of constants:

- `LeaseCovers`: a lease ends only after its attempt did;
- `Failures`: what a call that throws may have done: nothing was ever executed
  under its key (`definite`), this attempt executed nothing (`unreachable`), or
  anything (`lost_reply`);
- `ExactProvider`: it takes what it is asked for, or possibly less;
- `OutsideCapture`: someone captures the rest in the provider's dashboard.

The read of the operation row and its compare-and-swap in `Prepare` are one
step: the swap is on status and token.  Amounts are whole units, refunds whole.

### PurchaseActivation

`lock` is the row lock of the customer user.  `tx` holds what the lock holder
wrote through its transaction (capture, case, instances); sales records
(`made`, `paid`, `binding`) are committed at once.  A request walks through
`start`, `retry` or `confirm`; `Commit` merges `tx` and sets up the branches of
`Promise.allSettled`: `mail` (deliver, then load and write the order once more)
and `work` (launch, bootstrap, or review of a payment exception).  Loads and
writes of the order metadata are separate steps.  `Abort` is a crash or an
exception under the lock, `DiesAfterCommit` one after it; the other faults are
failures of single calls.  An execution holds the lock of the instance (`RowFree`)
and, unless the instance waits already (`Executable`: a FAILED one is run again),
puts the research into the queue (`ExecuteAnalysis`) before its transaction ends.
Then it commits (`ExecutionCommits`) or fails (`ExecutionFails`): the failure is
caught and committed as FAILED, or the transaction rolls back and FAILED is written
afterwards (`PersistFailed`), or the process dies; the job stays in the queue.  A save whose command fails may have been stored.
Session creation for one key is atomic here, `gw` keeps the sessions oldest
first.  Ownership checks, content and receipts are left out.

### WorkflowInstance

`inst` is the instance (status and cursor), `br` its branches, `tasks` the task rows
and `timers` the timer jobs of each *slot*, a wait as one token meets it.  `hs` is
what each handler (a request or a timer worker) has read and is about to write.
`executeWorkflow` runs in a transaction that holds the row lock, so the `Drive*`
actions are one step each: the fork is opened, every active branch goes to its
next wait or to the join, and the last arrival fires the join.  What wakes a token
does not hold that lock.  A branch timer, signal or task tests the branch
(`FireBranchTimer`, `SignalBranch`, `ContinueBranch`), flushes it ACTIVE later
(`WakeBranch`) and only then drives.  The root likewise reads, lifts the pause
(`Release`), moves the cursor from where it read it (`Advance`) and drives.  The
completion of a task is a conditional update (`CompleteTask`), a reassignment an
unconditional one (`ReassignTask`).  `ReadForCancel` and `Cancel` are the cancel
route, `Retry` the retry route.  Faults: a handler dies (a job of a worker comes
back, also after its work was done: `Redeliver`), a drive rolls back, a transition
of the root or a branch is rejected.  Seven history variables say what the
properties exempt by name: `stale`, for instance, are the tokens that one handler
wrote while another held a read of them.  A timer job that finds the run not
paused at a timer is consumed.  That the retry route writes FAILED when its drive
throws is not a separate action.

### AsyncActivities

A *round* is one transition with asynchronous activities.  `Park`, one
`EnqueueActivity` per activity and `ParkCommits` are the transaction that parks the
run WAITING_FOR_ACTIVITIES under the row lock; the jobs can be seen before it
commits, and stay when it fails (`ParkFails`).  A worker takes a job only when the
lock is free (the barrier of the activity worker), records its event, and asks
whether the run may go on (`Resume*`); that question counts events of the run.  It
is refused without waiting for the lock when the committed status is not
WAITING, as the query that takes the lock matches no row.  A job has three attempts
in the queue whatever the policy of its activity says; every failed attempt is an
event, and only the last one the policy allows goes on to ask.  `Retry` is the
retry route on a failed run.

### JobQueue and LocalQueue

The promise: a job is queued in one step (`Enqueue`), only queued jobs run
(`Succeed`, `Throw`), and a job leaves the queue after it succeeded or failed
`MaxAttempts` times (`Settle`) or by a purge somebody asked for (`Purge`), and does
not come back.  Once writers were disturbed (`Disturb`) a write may undo others
(`Overwrite`), and less is promised: nothing is queued or run that nobody queued.

In `LocalQueue`, `file` is `queue.json` (id and attempts of each job), `due` the
jobs whose `availableAt` has passed, `lock` the directory `queue.lock` with its token,
and `pc`, `mem` what each queue instance is doing and remembers.  An operation
(`Enqueue`, `Purge`, `Fetch`, `Settle`) first wants the lock: `Mkdir`, `WriteToken`,
and, when the directory is old, `Judge` and `Reclaim`, which are two steps because
the age is read before the rename: `Reclaim` moves aside whatever directory is there
by then, and the history `robbed` records that it was the one of a live holder.  A
process that cannot write its token (`TokenFails`) removes the directory that is
there (`GivesUp`).  `ReadQueue` and `WriteQueue` are the read and
the rewrite under it, `CheckToken` and `RemoveLock` the release.  A worker runs its
batch without the lock (`RunSucceeds`, `RunThrows`) and settles on a fresh copy.
`Crash` and `TimesOut` make a process forget everything; `GetsOld` lets the lock of
a dead process pass its fifteen seconds, `Suspend` that of one that stands still.
`KeepsPromise` is the refinement: `queued` is the ids in the file, `asked` the scopes
of the purges under way, `disturbed` is `robbed`; all else about the lock is
stuttering.

## 3. Runs

All bounds are constants of the instances.

| Run | Instance | Shows |
|---|---|---|
| `session` | 2 callers that call again and again, 3 faults (crash, error, late heartbeat), 1 prune, fair | the promise is implemented (so replays agree); one transaction per row, the last claim wins, one call at a time in the provider unless a heartbeat was late; every call returns |
| `captures` | 2 captures (a part, the rest) of 3 units, 2 workers, 4 attempts, 1 webhook or poll | money, slices and ledger agree and stay within the authorisation; attempts exclude each other |
| `leases` | a capture, one that asks for too much, a refund, a cancellation; leases expiring under attempts, lost replies, a capture in the dashboard | types; success is final |
| `purchase` | 3 requests, nothing prepared, policy switched at will, 3 faults of six kinds (among them an execution that fails before or after it enqueued), 2 sessions | one quote, order, payment, open session; no fulfilment without capture; one e-mail; one research, and one more for each execution that was lost |
| `processing` | 2 requests, 2 faults outside the lock, ambiguous mail, fair | records are backed by committed rows; a captured purchase gets processed |
| `workflow` | a branch with a signal and a task, a branch with a timer, a task and a signal behind the join; 2 requests, 1 worker, 1 fault of any kind, 1 order (cancel, reassign, retry), fair | waits passed on their own events, one join, failure stops branches, tasks answered once, no lost work; completed is final; the run comes to rest |
| `queue` | 2 producers, 1 worker, 2 jobs that may be delayed, 2 attempts, 1 purge (of all or of one), 1 fault (crash, timeout, failed token, suspended holder), fair | the promise is implemented; one process in the critical section until a live holder is robbed, which needs a fault; attempts bounded; every job leaves the queue |
| `activities` | 2 activities, then a third, with policies of 1, 4 and 3 attempts; 2 requests, 2 workers, 3 faults of any kind, 1 repeat (a second start or a retry), fair | rounds neither skipped nor left early nor passed over a failure; no lost wake-up; the run comes to its end |

Two or three actors and a few faults suffice for the interesting cases: a stale
owner, its successor and a bystander; one fault to fall behind and one in the
recovery.  Three units allow a part, a rest and an excess.  In a workflow two
branches are enough to arrive together and for one to fail under the other, and
a second wait in a branch is what a late event could skip.  Two activities in the
first round make two workers finish together; the second round sees the events of
the first.  In the queue two producers and a worker make three processes of which
one dies with the lock, one moves it aside and one finds a new lock; the second job
is the bystander of a settlement.  Two attempts tell a retry from the last one (the
code makes three).  `MaxAttempts`, `MaxFaults`, `MaxPrunes`, `MaxPurges`, `MaxSessions`, `MaxOrders` and
`MaxRepeats` bound what people and accidents may repeat for ever.  With one repeat
of a request, a race between two requests that both read FAILED is outside the
bounds.  The payment and purchase runs check for deadlock, for a request can
always be made again; so does the queue's, for its worker polls
for ever; a workflow run does stop, at its end, so the workflow runs do not.

The remaining runs end in a violation; each is a behaviour of the code that
contradicts what the repository says of itself (quoted in `PROJECT.json`):

- `stale_release`: a slice is released by amount, not by attempt.  Attempt A
  outlives its ten-minute lease, B takes over and is charged, A fails and gives
  back the slice B was charged under; the authorisation is captured twice.
- `lost_commit`: the order says it is activated, the transaction with the case
  rolls back.  Confirming again skips activation and is refused ever after.
- `stale_task`: the open task of a cancelled run can be completed; the run is
  PAUSED again at its next wait, whose event carries it on.
- `early_resume`: the events of the first round are counted for the second, which
  is left when the first of its two activities has completed.

`captures` passes under two conditions: leases cover attempts (what
`stale_release` drops) and failures are definite.  The second is needed too:
`providerInvoked` is about the current attempt, so a retry that cannot reach the
adapter releases a slice that an earlier attempt, which died, was charged under.
Three weaker promises are not claimed at all, for the model has their
counterexamples without either condition dropped: a settlement is computed from a
ledger value read earlier, so with an inexact provider and three captures it may
erase a reservation made meanwhile (`NoOverCapture` is checked with an exact
provider); a terminal status may be overwritten by a writer that judged an older
one; and a full capture reported by a webhook is lowered again when a capture in
flight fails and releases its slice.

In the workflow engine, the exemptions of the properties are behaviours of the
code: a branch woken by two events at once, or by a timer job delivered late, is
taken past its next wait (`stale`); a handler that dies between the completion of a
task and its continuation leaves a token nobody carries on (`dropped`); a run that
failed on the fork and is retried walks one branch with its root token
(`revived`).  In `activities`, work is lost when the resumption fails and the error
is only logged, when a parking transaction or its handler fails, and when the
queue gives up a job before its policy is exhausted (`lost`); after a redelivery an
activity may be counted twice (`recounted`).

In `purchase` research can be ordered more than once.  The job is queued inside
the transaction of the execution (`activity-executor.ts:395`): when that rolls back,
or the process dies before it commits, the job stays, and the next confirmation may
run the instance again and queue another one.  A FAILED instance is not spared
either: `paidCaseAnalysis/bootstrap.ts:129-130` says that a completed or failed
instance is not restarted, but the status it tests was read in an earlier
transaction, and `executeWorkflow` itself runs a FAILED instance.
`ResearchOnceUnlessLost` bounds the orders by one and one for each execution that
was lost (`lost`), each of which is a fault: requests that race, replay or recover
order nothing a second time by themselves.

In `queue` two processes can be in the critical section.  Both find the lock of a
dead process old; the first renames it and makes its own, and the rename of the
second moves that one aside.  This is ordinary contention after one fault, a part of
`Next` in the run and in the proofs, and recorded by `robbed`; so is the loss of a
lock that got old because its live holder stood still.  The comment at
`local.ts:217-219` says that the rename decides between two racers, and for the old
lock it does, but nothing ties the rename to the directory that was judged; a write
may then undo an enqueue that `local.ts:81-84` promises not to lose.  The properties
say what is left: without a fault nobody is robbed, and until somebody is no two
processes hold the lock (`Exclusive`) and the full promise and the bound on attempts
hold; afterwards no job is run or comes back that was never queued.  Every job leaves
the queue in either case.  There is one worker: with two, both may hold one job, each
run counts as an attempt of its own, and `AttemptsAreCounted` fails; the strategy
documents that it is not for concurrent consumers.

A purchase can lose its activation: the report of a confirmation e-mail writes
back an order it loaded before another confirmation activated it (no run shows it
by itself).  Confirming again recovers, and so `PurchaseIsProcessed` holds.

### Fairness

`PaymentSession`: a running call keeps running and every provider and database
call returns (weak fairness of its steps), timers fire, and clocks pass the
lease.  Nobody is obliged to call.  `PurchaseActivation`: an accepted request and
the branches after its commit run to their end (weak fairness), as Node runs a
handler; and the customer keeps confirming (strong fairness of acquiring the
lock: the database grants a contended row lock again and again).  The property
needs the customer, for nothing else in the code retries a confirmation.
`WorkflowInstance`: a handler that lives goes on (`GoOn`) and the queue delivers a
due timer job (`Deliver`), both weakly fair; nobody has to answer a task, send a
signal or retry, and `ComesToRest` only asks for a state that waits for a person.
`AsyncActivities`: drivers and workers go on and the queue delivers (weak
fairness of `Execute`, `Work` and of a retry that was begun).
`LocalQueue`: a process that lives goes on, which includes the polls of a worker and
the return of a handler (`Proceed`), the lock of a dead process gets old, and a
delayed job becomes due, all weakly fair; nobody has to enqueue or to purge.  Weak
fairness of making the lock is enough because an instance has finitely many enqueues
and purges; under producers that never pause the jittered retries of the code would
have to be trusted with it.

## 4. Proofs

For any number of calls, workers, operations, deliveries, rounds and amounts:

- `PaymentSessionProofs`: all the safety properties of `session`, and two that the
  promise implies and no run checks by itself (`ReplaysAgree`,
  `CompletedRowsAreFinal`).  The inductive
  invariant adds that tokens and row ids are issued before use, that a claim
  belongs to one call, that a claim still in the row is the newest of its row, and
  that every transaction belongs to a completed row or one pruned since.
  `ImplementsPromise` maps each step to a step of `IdempotentSession` or to
  stuttering; only `Finalize`, a replay in `Find`, a failure and `Prune` are visible,
  and the invariant gives that the transaction created is new.
- `PaymentOperationsProofs`: `TypeCorrect` and `SucceededStays` without any
  assumption.  Type correctness needs that an attempt that may commit has a
  result it can write (`JobsAreSound`).  `AttemptsExclude` assumes
  `LeaseCovers`; its invariant says that tokens are unique to attempts and that
  an active attempt's operation is in progress, leased and under its token
  (`TokensAreOwned`, `AttemptsHold`).
- `PaymentLedgerProofs`: everything assumes `LeaseCovers` and definite failures
  (the two conditions of `captures`).  `LedgerIsBounded` needs no more.  Its
  invariant ties the slice an attempt remembers to the one its row holds (`Knows`),
  bounds what was charged by the slice (`SlicesCover`), and bounds every snapshot of
  the ledger a settlement may write from (`Ceiling`).  `ChargesAreHeld` assumes an
  exact provider too.  `LedgerIsTheSlices` and `CapturesAreBounded` sum over the
  operations, of which there may be any finite number: the slices together never
  exceed the ledger and equal it until a report raises it (`Backed`), because a
  reservation adds the same to both, a release takes the same from both, and a
  completion got exactly its slice (`Took`).  `CapturesAreBounded` also assumes that
  nobody captures elsewhere: the charges are within the slices one by one, hence in
  sum, and the slices within the ledger.
- `FiniteSums`: the sums those proofs need.  It takes the defining equation of the
  community fold (an element is chosen, the rest is summed), proves that it has a
  solution on every finite set, and derives monotonicity and the effect of one
  changed summand by induction over subsets.  The induction is first-order: a set
  of sizes has a least element, so no induction theorem with an operator parameter
  is used.
- `PurchaseActivationProofs`: all the safety properties of `purchase` and
  `processing`, for any number of requests, sessions and faults.  Two exempt a fault
  by name: `OneConfirmationHolds` assumes that the mail transport does not lose its
  answer (no `mail_answer` among the faults: then nobody can tell whether the
  e-mail went out), and `RecordsAgreeHolds` that no lock transaction fails after it
  wrote the order (no `in_lock`; that is the run `lost_commit`).  The invariant
  follows the data: whoever creates a sales record found none (`SalesInv`); a
  request past the capture check, a mailing branch and everything fulfilled rest on
  a capture that is committed or in the same transaction (`CaptureInv`); the order's
  metadata has two writers without a common lock, the lock holder and the one
  mailing branch there can be, and neither holds a copy without the other's
  reservation (`BindingInv`); the orders of research are those of executions that were
  lost and one more, of the execution that holds the row of the instance or of the one
  that left it waiting, never of both (`ResearchInv`); the case moves from demo to analysis once (`RowsInv`);
  after a delivery no copy that would ask for another one is left (`MailInv`); what
  the order and the payment claim can be seen in the database or the open transaction
  (`RecordsInv`).
- `WorkflowInstanceProofs`: all the safety properties of `workflow`, for any branches,
  waits, handlers and faults, without an assumption beyond the kinds of the constants.
  The properties name their exemptions as history variables, and so do the proofs.
  None is inductive.  `PlaceInv` says where tokens may stand and what a handler at
  each step must have seen; `YoungInv` that before the fork is left the root has no
  tasks, timers or handlers at its later waits; `ReadInv` that what a handler read
  still holds unless the token was written since and is marked `stale`; `HonourInv`
  that an *active* branch at a wait already had that event, which makes
  `WaitsHonoured` inductive, as a drive takes it over that wait; `JoinInv` that the
  join is the only way past the fork; `FailInv` that a run that failed at the fork
  has no live branch while it is retried; `AnswerInv` counts the completed rows of a
  task, by cardinality; `WorkInv` gives each active branch a driver *of its own*,
  without which the one driver that `NoLostWork` asks for could leave with other
  branches still active.
- `AsyncActivitiesProofs`: all the safety properties of `activities`, without any
  assumption on faults or policies.  None is inductive.  A job is held by at most
  one worker (`JobsInv`), the parking transaction excludes workers that hold one of
  its jobs (`LockInv`), and in the round that waits every activity has an event or a
  fresh job (`CountInv`: events plus fresh jobs are at least the pending ones).  So
  a worker that is told "still pending" leaves a fresh job behind, and with it a
  later worker that asks again: while the run waits some job is unspent
  (`WakeupInv`).  For the first round the completed events are as many as its
  finished activities unless one was recounted (`FirstInv`).
- `LocalQueueProofs`: all the safety properties of `queue`, for any number of
  processes, jobs and faults, the rename of a lock made since included; only the
  bound on attempts assumes anything (`OneWorker`).  Until a live holder is robbed,
  whoever is between its mkdir and its release made the lock that is there
  (`LockInv`), which gives the first half of `Exclusive`; before the first fault no
  lock is old and nobody is about to move one (`QuietInv`), which gives the second.
  So the copy a process writes from is the file (`MemInv`), an id that is being
  enqueued is not there yet (`IdsInv`), and what a batch remembers of a job did
  happen (`BatchInv`), this last whether or not somebody was robbed.  Then
  `WriteQueue` maps to the enqueue, the purge or the settlement, after a robbery to
  `Overwrite`, a robbery to `Disturb`, and every other step to a run, a request or
  stuttering.  For attempts, the failures of a job are at most its counted attempts,
  the faults, and one for a run that is not settled (`BudgetInv`).

The assumptions on constants (`SessionAssumption`, `OperationsAssumption`,
`PurchaseAssumption`, `InstanceAssumption`, `ActivitiesAssumption`,
`QueueAssumption`) only say what kind of value each one has.

Every safety property that a passing run checks is stated by a theorem.  Only
model-checked are the liveness properties (`EveryCallReturns`,
`PurchaseIsProcessed`, `ComesToRest`, `JobsGetDone`): fairness and `ENABLED` are
beyond the prover.  The four runs that end in a violation show why the theorems
have their assumptions and exemptions.

## 5. Not modelled

See the components in `PROJECT.json` for every part and its reason.  Within the
modelled ones: session creation without a key, partial refunds, decimal parsing,
webhook signatures and scope, logs and events, ownership and content checks, and
the silent rollback of a database transaction that was aborted by a caught error
(its effect is that of the crash in `lost_commit`).  Of the workflow engine:
conditions, payloads and contexts, synchronous activities, retries of a step,
sub-workflows and agents, release, escalation and deadlines of tasks, broadcast
signals, compensation; asynchronous activities of branches (which share the
barrier) and of steps (which do not park the run); the cancellation of a run that
waits for activities; a timer job that is due before the transaction that
enqueued it commits (the queue delivers it again, with a delay the model does not
count).  Of the local queue: payloads and the order of jobs, limits of a batch, the
counters of `state.json`, file watching, files that cannot be read or parsed, a
purge by the worker itself; and the asynchronous strategy, which delegates to
BullMQ.

Two details of the workflow engine are simpler in the model.  The retry route writes
FAILED when its drive throws, over whatever status the run has by then
(`retry/route.ts:133-139`): with one order (a retry or a cancellation) per run there
is nothing to overwrite.  And timer jobs enqueued in a transaction that rolls back
stay in the queue (`step-handler.ts:1448`): the properties treat what such a job
wakes as they treat a job that comes late.

Some hazards in `PROJECT.json` have no property, or one that sees only a part, and a
note that says why: the code does go wrong there, and the properties that would see
it exempt it by name (a reply that was lost after a charge; a reassignment over a
completion; a handler that dies, or a transition that is rejected, between the
completion of a task and its continuation; a cancellation over a completion; the
policy of an activity against the attempts of the queue; the rename of a lock made
since). They have no run of their own that ends in a violation: the four runs that do
show those divergences that contradict the plainest claims.

## 6. Plan

In this order:

1. An abstract specification of a purchase (ordered, captured, activated,
   processed) that `PurchaseActivation` implements outside `lost_commit`.
2. `ReviewGate`: decisions bound to document versions, instantiated for brief,
   strategy pair, plan and post; with the hand-offs that start the next process.
3. `AnalysisProcess`: the research activity, its retry and the restart of a case.
4. `ResearchStore`: versions and the claims ledger; `TovCollection`: leases and
   partial results of the discovery.
5. `Scheduler`, `RecordLock`: several processes, stalls, expiry.

Recursive algorithms (the research gate, packaging, cron parsing) go into modules
of their own, which only runs use.
