------------------------- MODULE PurchaseActivation -------------------------
(***************************************************************************)
(* One demo purchase, from its first request to its research order:        *)
(* orderBootstrap (start, retryPayment, confirm), the confirmation e-mail  *)
(* (paymentConfirmation) and the hand-over of the paid case to the         *)
(* analysis workflow (paidCaseAnalysis).                                   *)
(*                                                                         *)
(* A request holds the row lock of the customer user while it works.  What *)
(* it does through that transaction -- the gateway capture, the case, the  *)
(* workflow instances -- commits with the lock and is kept in tx until     *)
(* then; native sales commands run in transactions of their own and are    *)
(* visible at once.  The e-mail and the processing of a confirmed purchase *)
(* run after the commit, without the lock, side by side.                   *)
(*                                                                         *)
(* The purchase binding lives in the metadata of the order, which every    *)
(* writer loads and later replaces as a whole: a load and a write are two  *)
(* steps.  One customer and one request id are modelled; ownership checks  *)
(* and the content of orders, material and receipts are left out.          *)
(***************************************************************************)
EXTENDS Naturals, Sequences

CONSTANTS
    Requests,     \* requests of the customer in flight at a time
    None,         \* no request
    Prepared,     \* TRUE: the payment session exists already
    Switching,    \* TRUE: operators publish and withdraw the analysis policy
    Faults,       \* which kinds of fault may happen, a subset of FaultKinds
    MaxFaults,    \* bound on faults
    MaxSessions   \* bound on payment sessions

FaultKinds == {"in_lock", "after_commit", "activation", "save", "mail", "mail_answer",
               "execution"}

ASSUME PurchaseAssumption ==
    /\ None \notin Requests
    /\ {Prepared, Switching} \subseteq BOOLEAN
    /\ Faults \subseteq FaultKinds
    /\ MaxFaults \in Nat /\ MaxSessions \in Nat

VARIABLES
    lock,       \* the request that holds the customer row, or None
    req,        \* what each request is doing under the lock, and what it knows
    mail,       \* its confirmation branch after the commit
    work,       \* its processing branch after the commit
    tx,         \* uncommitted writes of the lock holder
    made,       \* native sales records created: quotes, orders, payments
    paid,       \* the sales payment is recorded as captured
    gw,         \* statuses of the payment's gateway transactions, oldest first
    binding,    \* agencyPurchase in the metadata of the order
    db,         \* committed case, workflow instances and payment exception
    analysisOn, \* analysis execution is enabled and its policy is published
    mails,      \* confirmation e-mails delivered
    research,   \* research orders handed to the queue
    lost,       \* history: those of executions that did not commit
    faults

vars == <<lock, req, mail, work, tx, made, paid, gw, binding, db, analysisOn, mails,
          research, lost, faults>>

Stages == {"quote", "order", "payment", "session"}
After(stage) == CASE stage = "quote" -> "order" [] stage = "order" -> "payment"
                  [] stage = "payment" -> "session"

\* conf: state of the confirmation and the request that reserved it; bound: the
\* layout of the workflow instance the binding names along with the case; offer:
\* the text it was sold under, which legacy orders lack, was kept.
NoBinding == [conf |-> "none", by |-> None, bound |-> "none", offer |-> TRUE]

\* case: its layout.  An "analysis" case was created for analysis.v1, a "demo"
\* case waits, an "upgraded" one was handed to analysis.v1 with demo material.
NoRows == [case |-> "none", link |-> "none", demo |-> "none", analysis |-> "none",
           exception |-> "none"]
Rows == [case : {"none", "demo", "analysis", "upgraded"},
         link : {"none", "demo", "analysis"},
         demo : {"none", "waiting"},
         analysis : {"none", "start", "dispatched", "failed"},
         exception : {"none", "start", "waiting"}]
NoTx == [rows |-> NoRows, captured |-> FALSE]

Idle == [pc |-> "idle", stage |-> "quote", view |-> NoBinding, snap |-> NoBinding,
         verified |-> FALSE, failed |-> FALSE, reserved |-> FALSE, layout |-> "none",
         launch |-> FALSE, raised |-> FALSE]
NoMail == [pc |-> "none", outcome |-> "none", snap |-> NoBinding]

Init ==
    /\ lock = None
    /\ req = [r \in Requests |-> Idle]
    /\ mail = [r \in Requests |-> NoMail]
    /\ work = [r \in Requests |-> "none"]
    /\ tx = NoTx
    /\ made = [s \in {"quote", "order", "payment"} |-> IF Prepared THEN 1 ELSE 0]
    /\ gw = IF Prepared THEN <<"authorized">> ELSE <<>>
    /\ paid = FALSE
    /\ binding \in {[NoBinding EXCEPT !.offer = kept] : kept \in BOOLEAN}
    /\ db = NoRows
    /\ analysisOn \in BOOLEAN
    /\ mails = 0 /\ research = 0 /\ lost = 0 /\ faults = 0

Fault(kind) == kind \in Faults /\ faults < MaxFaults /\ faults' = faults + 1

\* The request goes on at pc with the given changes to what it knows.
Continue(r, pc, know) == req' = [req EXCEPT ![r] = [know EXCEPT !.pc = pc]]

\* A write whose command fails: it may have been stored all the same.
SavedOrNot(written, value) == binding' \in {binding} \cup (IF written THEN {value} ELSE {})

UnchangedSales == UNCHANGED <<made, paid, binding>>
UnchangedAfter == UNCHANGED <<mail, work, mails, research, lost>>
UnchangedWorld == UNCHANGED <<gw, db, analysisOn>>

\* The rows as the lock holder sees them: its own writes over committed ones.
Seen(field) == IF tx.rows[field] # "none" THEN tx.rows[field] ELSE db[field]

\* The payment's current transaction is the newest one (payment.ts, read).
Newest == gw[Len(gw)]

\* paymentDiscrepancy: a record does not match the purchase any more, or another
\* amount than the price was captured.
Discrepant == {"mismatched", "miscaptured"}

-----------------------------------------------------------------------------
(* locked: one request of a customer at a time *)

\* Faulty variant: requests of a customer are not serialised.
LockFreeAlways == TRUE

LockFree == lock = None

Acquire(r, op) ==
    /\ req[r].pc = "idle" /\ mail[r].pc = "none" /\ work[r] = "none"
    /\ LockFree
    /\ lock' = r
    /\ tx' = NoTx
    /\ Continue(r, op, Idle)
    /\ UNCHANGED faults /\ UnchangedSales /\ UnchangedAfter /\ UnchangedWorld

Merged == [f \in DOMAIN db |-> Seen(f)]

\* The receipt is "paid": the binding names case and workflow, and the capture
\* was verified and is recorded in the sales payment.
Paid(r) == req[r].verified /\ req[r].view.bound # "none" /\ paid

\* Faulty variant: only the confirmation that activated the purchase processes it.
BranchOfLaunchOnly(r) ==
    CASE req[r].raised /\ Seen("exception") = "start" -> "exception"
      [] Paid(r) /\ ~req[r].failed /\ req[r].launch -> "execute"
      [] OTHER -> "none"

\* What follows the commit: the review of an exception, the launch of the new
\* analysis, or for a reconfirmation the bootstrap that recovers it.
Branch(r) ==
    CASE req[r].raised /\ Seen("exception") = "start" -> "exception"
      [] Paid(r) /\ ~req[r].failed -> IF req[r].launch THEN "execute" ELSE "bootstrap"
      [] OTHER -> "none"

\* The lock transaction commits; the branches that follow it are set up.
Commit(r) ==
    /\ req[r].pc = "commit"
    /\ lock' = None
    /\ db' = Merged
    /\ gw' = IF tx.captured THEN [gw EXCEPT ![Len(gw)] = "captured"] ELSE gw
    /\ tx' = NoTx
    /\ mail' = [mail EXCEPT ![r].pc = IF req[r].reserved THEN "deliver" ELSE "none"]
    /\ work' = [work EXCEPT ![r] = Branch(r)]
    /\ Continue(r, "idle", Idle)
    /\ UNCHANGED <<analysisOn, mails, research, lost, faults>> /\ UnchangedSales

\* Faulty variant: case and workflow are written outside the transaction.
AbortKeepsRows(r) ==
    /\ req[r].pc # "idle"
    /\ Fault("in_lock")
    /\ lock' = None
    /\ db' = Merged
    /\ tx' = NoTx
    /\ Continue(r, "idle", Idle)
    /\ UNCHANGED <<gw, analysisOn>> /\ UnchangedSales /\ UnchangedAfter

\* The process dies or the callback throws: the lock transaction rolls back.
Abort(r) ==
    /\ req[r].pc # "idle"
    /\ Fault("in_lock")
    /\ lock' = None
    /\ tx' = NoTx
    /\ Continue(r, "idle", Idle)
    /\ UnchangedSales /\ UnchangedAfter /\ UnchangedWorld

\* preparePaymentException, for a payment that does not match the purchase: its
\* review workflow is found again or created in tx, and executed after the
\* commit if it never was; the request ends.
RaiseException(r) ==
    /\ tx' = IF Seen("exception") = "none" THEN [tx EXCEPT !.rows.exception = "start"] ELSE tx
    /\ Continue(r, "commit", [req[r] EXCEPT !.raised = TRUE])

UnchangedUnderLock == UNCHANGED <<lock, faults>> /\ UnchangedAfter /\ UnchangedWorld

-----------------------------------------------------------------------------
(* start and retryPayment *)

Count(stage) == IF stage = "session" THEN Len(gw) ELSE made[stage]

\* ensureOrder, ensurePayment and ensureSession look for the record first ...
StartFinds(r) ==
    LET stage == req[r].stage IN
    /\ req[r].pc = "start"
    /\ CASE Count(stage) = 0 -> Continue(r, "create", req[r]) /\ UNCHANGED tx
         [] Count(stage) > 0 /\ stage # "session" ->
                Continue(r, "start", [req[r] EXCEPT !.stage = After(stage)]) /\ UNCHANGED tx
         [] Count(stage) > 0 /\ stage = "session" ->
                IF Newest \in Discrepant THEN RaiseException(r)
                ELSE Continue(r, "commit", req[r]) /\ UNCHANGED tx
    /\ UnchangedSales /\ UnchangedUnderLock

\* ... and create it when there is none, in a transaction of its own.
StartCreates(r) ==
    LET stage == req[r].stage IN
    /\ req[r].pc = "create"
    /\ IF stage = "session"
       THEN gw' = Append(gw, "authorized") /\ UNCHANGED made
       ELSE made' = [made EXCEPT ![stage] = @ + 1] /\ UNCHANGED gw
    /\ Continue(r, "start", req[r])
    /\ UNCHANGED <<lock, tx, paid, binding, db, analysisOn, faults>> /\ UnchangedAfter

\* isRetryableDemoPayment
Retryable(i) == gw[i] = "failed" /\ ~paid

\* retryPayment names the session it replaces.  A replay that names an older
\* one, or any request it refuses, changes nothing.
RetryPayment(r) ==
    /\ req[r].pc = "retry"
    /\ IF binding.bound # "none" \/ made["payment"] = 0 \/ gw = <<>>
       THEN Continue(r, "commit", req[r]) /\ UNCHANGED <<tx, gw>>
       ELSE IF Newest = "mismatched" THEN RaiseException(r) /\ UNCHANGED gw  \* matchesDemoPayment
       ELSE /\ Continue(r, "commit", req[r]) /\ UNCHANGED tx
            /\ \E i \in DOMAIN gw :
                 gw' = IF Retryable(i) /\ i = Len(gw) /\ Len(gw) < MaxSessions
                       THEN Append(gw, "authorized") ELSE gw
    /\ UNCHANGED <<lock, db, analysisOn, faults>> /\ UnchangedSales /\ UnchangedAfter

-----------------------------------------------------------------------------
(* confirm, under the lock *)

\* Faulty variant: an authorized payment passes for a captured one.
VerdictAuthorizedPasses(status) ==
    CASE status \in {"authorized", "captured"} -> "reconcile" [] status = "failed" -> "commit"

\* canConfirmPayment, isVerifiedDemoCapture: what a payment's status leads to.
Verdict(status) ==
    CASE status = "authorized" -> "capture" [] status = "captured" -> "reconcile"
      [] status = "failed" -> "commit"

\* Order, payment and transaction are loaded and judged.
ConfirmLoads(r) ==
    /\ req[r].pc = "confirm"
    /\ IF made["payment"] = 0 \/ gw = <<>>
       THEN Continue(r, "commit", req[r]) /\ UNCHANGED tx
       ELSE LET know == [req[r] EXCEPT !.view = binding, !.verified = Newest = "captured"] IN
            IF Newest \in Discrepant THEN RaiseException(r)
            ELSE Continue(r, Verdict(Newest), know) /\ UNCHANGED tx
    /\ UnchangedSales /\ UnchangedUnderLock

\* gateway.confirm: the verified webhook captures the transaction, within tx,
\* unless it has moved since it was read; then it is judged again.
Capture(r) ==
    /\ req[r].pc = "capture"
    /\ CASE Newest \in {"authorized", "captured"} ->
              /\ tx' = [tx EXCEPT !.captured = TRUE]
              /\ Continue(r, "reconcile", [req[r] EXCEPT !.verified = TRUE])
         [] Newest = "failed" -> Continue(r, "commit", req[r]) /\ UNCHANGED tx
         [] Newest \in Discrepant -> RaiseException(r)
    /\ UnchangedSales /\ UnchangedUnderLock

\* Faulty variant: an attempt whose outcome is unknown is retried as well.
RetriedConfirmationOrSending ==
    {"none", "waiting_configuration", "waiting_input", "failed", "sending"}

RetriedConfirmation == {"none", "waiting_configuration", "waiting_input", "failed"}

\* sales.reconcileCaptured records the capture in the sales payment.
Reconcile(r) ==
    /\ req[r].pc = "reconcile"
    /\ paid' = TRUE
    /\ Continue(r, IF req[r].view.conf \in RetriedConfirmation THEN "reserve" ELSE "activate",
                req[r])
    /\ UNCHANGED <<tx, made, binding>> /\ UnchangedUnderLock

\* savePaymentConfirmation reads the order it will write back.
ReserveLoads(r) ==
    /\ req[r].pc = "reserve"
    /\ Continue(r, "reserving", [req[r] EXCEPT !.snap = binding])
    /\ UNCHANGED tx /\ UnchangedSales /\ UnchangedUnderLock

\* The attempt is reserved as "sending" before anything is delivered; a legacy
\* order has no text to deliver and waits.
Reservation(r) ==
    [req[r].snap EXCEPT !.conf = IF req[r].snap.offer THEN "sending" ELSE "waiting_input",
                        !.by = r]

ReserveWrites(r) ==
    /\ req[r].pc = "reserving"
    /\ binding' = Reservation(r)
    /\ Continue(r, "activate", [req[r] EXCEPT !.view = binding', !.reserved = binding'.offer])
    /\ UNCHANGED <<tx, made, paid>> /\ UnchangedUnderLock

\* The reservation cannot be saved, or its answer is lost: no delivery, and
\* activation goes on with the binding as it was loaded.
ReserveFails(r) ==
    /\ req[r].pc \in {"reserve", "reserving"}
    /\ Fault("save")
    /\ Continue(r, "activate", req[r])
    /\ SavedOrNot(req[r].pc = "reserving", Reservation(r))
    /\ UNCHANGED <<lock, tx, made, paid>> /\ UnchangedAfter /\ UnchangedWorld

\* The layout activation chooses, and the rows it finds or creates for it; the
\* case must be of that layout already if it exists.
Layout == IF analysisOn THEN "analysis" ELSE "demo"
Conflicts == Seen("case") \notin {"none", Layout}

\* Faulty variant: the case is not linked to its workflow instance.
ActivatedUnlinked ==
    IF Layout = "analysis"
    THEN [tx.rows EXCEPT !.case = "analysis",
                         !.analysis = IF Seen("analysis") = "none" THEN "start" ELSE @]
    ELSE [tx.rows EXCEPT !.case = "demo", !.demo = IF Seen("demo") = "none" THEN "waiting" ELSE @]

Activated ==
    IF Layout = "analysis"
    THEN [tx.rows EXCEPT !.case = "analysis", !.link = "analysis",
                         !.analysis = IF Seen("analysis") = "none" THEN "start" ELSE @]
    ELSE [tx.rows EXCEPT !.case = "demo", !.link = "demo",
                         !.demo = IF Seen("demo") = "none" THEN "waiting" ELSE @]

\* activatePaidPurchase, unless the binding says it was done.
Activate(r) ==
    /\ req[r].pc = "activate"
    /\ IF req[r].view.bound # "none" THEN Continue(r, "commit", req[r]) /\ UNCHANGED tx
       ELSE IF Conflicts
       THEN Continue(r, "commit", [req[r] EXCEPT !.failed = TRUE]) /\ UNCHANGED tx
       ELSE /\ tx' = [tx EXCEPT !.rows = Activated]
            /\ Continue(r, "save", [req[r] EXCEPT !.layout = Layout,
                 !.launch = Layout = "analysis" /\ Seen("analysis") \in {"none", "start"}])
    /\ UnchangedSales /\ UnchangedUnderLock

\* Activation throws half-way; the case it may have created stays in tx.
ActivationFails(r) ==
    /\ req[r].pc = "activate" /\ req[r].view.bound = "none"
    /\ Fault("activation")
    /\ Continue(r, "commit", [req[r] EXCEPT !.failed = TRUE])
    /\ \/ UNCHANGED tx
       \/ ~Conflicts /\ tx' = [tx EXCEPT !.rows.case = Layout]
    /\ UNCHANGED lock /\ UnchangedSales /\ UnchangedAfter /\ UnchangedWorld

\* saveActivation: load, then replace the metadata of the order.
SaveLoads(r) ==
    /\ req[r].pc = "save"
    /\ Continue(r, "saving", [req[r] EXCEPT !.snap = binding])
    /\ UNCHANGED tx /\ UnchangedSales /\ UnchangedUnderLock

Activation(r) == [req[r].snap EXCEPT !.bound = req[r].layout]

SaveWrites(r) ==
    /\ req[r].pc = "saving"
    /\ binding' = Activation(r)
    /\ Continue(r, "commit", [req[r] EXCEPT !.view = binding'])
    /\ UNCHANGED <<tx, made, paid>> /\ UnchangedUnderLock

SaveFails(r) ==
    /\ req[r].pc \in {"save", "saving"}
    /\ Fault("save")
    /\ Continue(r, "commit", [req[r] EXCEPT !.failed = TRUE, !.launch = FALSE])
    /\ SavedOrNot(req[r].pc = "saving", Activation(r))
    /\ UNCHANGED <<lock, tx, made, paid>> /\ UnchangedAfter /\ UnchangedWorld

-----------------------------------------------------------------------------
(* After the commit: the confirmation *)

UnchangedByBranch ==
    UNCHANGED <<lock, req, tx, made, paid, gw, analysisOn>>

Mail(r, pc, state) == mail' = [mail EXCEPT ![r] = [state EXCEPT !.pc = pc]]

\* deliverEmail answers, or delivery is disabled or not configured.
Deliver(r) ==
    /\ mail[r].pc = "deliver"
    /\ \/ Mail(r, "report", [mail[r] EXCEPT !.outcome = "sent"])
          /\ mails' = mails + 1 /\ UNCHANGED faults
       \/ Fault("mail") /\ UNCHANGED mails
          /\ \E o \in {"waiting_configuration", "failed"} :
               Mail(r, "report", [mail[r] EXCEPT !.outcome = o])
       \/ Fault("mail_answer") /\ mails' = mails + 1
          /\ Mail(r, "report", [mail[r] EXCEPT !.outcome = "failed"])
    /\ UNCHANGED <<work, binding, db, research, lost>> /\ UnchangedByBranch

\* saveOutcome is savePaymentConfirmation once more, now without the lock.
OutcomeLoads(r) ==
    /\ mail[r].pc = "report"
    /\ Mail(r, "reporting", [mail[r] EXCEPT !.snap = binding])
    /\ UNCHANGED <<work, binding, db, mails, research, lost, faults>> /\ UnchangedByBranch

Outcome(r) == [mail[r].snap EXCEPT !.conf = mail[r].outcome, !.by = r]

OutcomeWrites(r) ==
    /\ mail[r].pc = "reporting"
    /\ binding' = Outcome(r)
    /\ Mail(r, "none", NoMail)
    /\ UNCHANGED <<work, db, mails, research, lost, faults>> /\ UnchangedByBranch

\* A failed save is swallowed: the reserved state stays.
OutcomeFails(r) ==
    /\ mail[r].pc \in {"report", "reporting"}
    /\ Fault("save")
    /\ Mail(r, "none", NoMail)
    /\ SavedOrNot(mail[r].pc = "reporting", Outcome(r))
    /\ UNCHANGED <<work, db, mails, research, lost>> /\ UnchangedByBranch

-----------------------------------------------------------------------------
(* After the commit: the processing *)

Work(r, pc) == work' = [work EXCEPT ![r] = pc]
UnchangedByWork == UNCHANGED <<mail, binding, mails>> /\ UnchangedByBranch

\* executeWorkflow holds the row of the instance until it commits.
RowFree == \A r \in Requests : work[r] # "enqueued"

\* Faulty variant: the instance is executed whatever its status is.
ExecutableAlways == db.analysis # "none"

\* An instance that waits or is over is left alone; one that failed is run once more.
Executable == db.analysis \in {"start", "failed"}

\* The execution reaches the research step and enqueues its job, which no rollback takes back.
ExecuteAnalysis(r) ==
    /\ work[r] = "execute" /\ RowFree
    /\ IF Executable
       THEN Work(r, "enqueued") /\ research' = research + 1
       ELSE Work(r, "none") /\ UNCHANGED research
    /\ UNCHANGED <<db, lost, faults>> /\ UnchangedByWork

\* The instance waits for the research.
ExecutionCommits(r) ==
    /\ work[r] = "enqueued"
    /\ db' = [db EXCEPT !.analysis = "dispatched"]
    /\ Work(r, "none")
    /\ UNCHANGED <<research, lost, faults>> /\ UnchangedByWork

\* It fails before or after the job is in the queue: the failure is caught and commits, or
\* the transaction rolls back and the failure has still to be recorded.
ExecutionFails(r) ==
    /\ \/ work[r] = "execute" /\ RowFree /\ Executable /\ UNCHANGED lost
       \/ work[r] = "enqueued" /\ lost' = lost + 1
    /\ Fault("execution")
    /\ \/ db' = [db EXCEPT !.analysis = "failed"] /\ Work(r, "none")
       \/ UNCHANGED db /\ Work(r, "report")
    /\ UNCHANGED research /\ UnchangedByWork

\* persistFailedStatusAfterRollback, unless somebody else moved the instance on.
PersistFailed(r) ==
    /\ work[r] = "report" /\ RowFree
    /\ db' = IF db.analysis = "start" THEN [db EXCEPT !.analysis = "failed"] ELSE db
    /\ Work(r, "none")
    /\ UNCHANGED <<research, lost, faults>> /\ UnchangedByWork

\* startPaidAnalysis checks the purchase again, then under the lock of the case
\* hands a waiting demo case to analysis.v1, or finds the instance it has.  The
\* case row must not be held by the purchase transaction.
PurchaseStands ==
    /\ binding.bound # "none" /\ paid /\ gw # <<>> /\ Newest = "captured"
    /\ CASE binding.bound = "analysis" -> db.case = "analysis" /\ db.analysis # "none"
         [] binding.bound = "demo" -> db.case \in {"demo", "upgraded"} /\ db.demo # "none"
         [] OTHER -> FALSE

Bootstrap(r) ==
    /\ work[r] = "bootstrap" /\ tx.rows.link = "none"
    /\ IF PurchaseStands /\ (db.case # "demo" \/ analysisOn)
       THEN /\ IF db.case = "demo"
               THEN db' = [db EXCEPT !.case = "upgraded", !.link = "analysis", !.analysis = "start"]
               ELSE UNCHANGED db
            /\ Work(r, IF db'.analysis = "start" THEN "execute" ELSE "none")
       ELSE Work(r, "none") /\ UNCHANGED db
    /\ UNCHANGED <<research, lost, faults>> /\ UnchangedByWork

\* The employee's review of a payment exception is opened.
ExecuteException(r) ==
    /\ work[r] = "exception"
    /\ db' = [db EXCEPT !.exception = "waiting"]
    /\ Work(r, "none")
    /\ UNCHANGED <<research, lost, faults>> /\ UnchangedByWork

\* The process dies after the commit: what was not done yet is not done, and what did not
\* commit yet is rolled back.
DiesAfterCommit(r) ==
    /\ mail[r].pc # "none" \/ work[r] # "none"
    /\ Fault("after_commit")
    /\ Mail(r, "none", NoMail) /\ Work(r, "none")
    /\ lost' = IF work[r] = "enqueued" THEN lost + 1 ELSE lost
    /\ UNCHANGED <<binding, db, mails, research>> /\ UnchangedByBranch

-----------------------------------------------------------------------------
(* The world *)

\* The provider moves an open transaction by a webhook; the row is locked while
\* the lock holder has captured it and not committed.
ProviderMoves ==
    /\ gw # <<>> /\ Newest = "authorized" /\ ~tx.captured
    /\ \E s \in {"captured", "failed"} \cup Discrepant : gw' = [gw EXCEPT ![Len(gw)] = s]
    /\ UNCHANGED <<lock, req, mail, work, tx, made, paid, binding, db, analysisOn, mails,
                   research, lost, faults>>

SwitchAnalysis ==
    /\ Switching
    /\ analysisOn' = ~analysisOn
    /\ UNCHANGED <<lock, req, mail, work, tx, made, paid, gw, binding, db, mails, research,
                   lost, faults>>

-----------------------------------------------------------------------------

UnderLock(r) ==
    \/ StartFinds(r) \/ StartCreates(r) \/ RetryPayment(r)
    \/ ConfirmLoads(r) \/ Capture(r) \/ Reconcile(r)
    \/ ReserveLoads(r) \/ ReserveWrites(r) \/ Activate(r) \/ SaveLoads(r) \/ SaveWrites(r)
    \/ Commit(r)

Mailing(r) == Deliver(r) \/ OutcomeLoads(r) \/ OutcomeWrites(r)
Working(r) ==
    \/ ExecuteAnalysis(r) \/ ExecutionCommits(r) \/ PersistFailed(r)
    \/ Bootstrap(r) \/ ExecuteException(r)

Failing(r) ==
    \/ Abort(r) \/ ReserveFails(r) \/ ActivationFails(r) \/ SaveFails(r)
    \/ OutcomeFails(r) \/ ExecutionFails(r) \/ DiesAfterCommit(r)

Next ==
    \/ \E r \in Requests :
         \/ \E op \in {"start", "retry", "confirm"} : Acquire(r, op)
         \/ UnderLock(r) \/ Mailing(r) \/ Working(r) \/ Failing(r)
    \/ ProviderMoves
    \/ SwitchAnalysis

Spec == Init /\ [][Next]_vars

\* A request that was accepted runs to its end, and so do its branches.
Progress == \A r \in Requests :
    WF_vars(UnderLock(r)) /\ WF_vars(Mailing(r)) /\ WF_vars(Working(r))

\* The customer keeps confirming: the row lock is granted again and again.
KeepsConfirming == \E r \in Requests : SF_vars(Acquire(r, "confirm"))

FairSpec == Spec /\ Progress /\ KeepsConfirming

-----------------------------------------------------------------------------
(* Properties *)

BindingType == [conf : {"none", "sending", "sent", "waiting_configuration", "waiting_input",
                        "failed"},
                by : Requests \cup {None}, bound : {"none", "demo", "analysis"},
                offer : BOOLEAN]

TypeOK ==
    /\ lock \in Requests \cup {None}
    /\ req \in [Requests ->
         [pc : {"idle", "start", "create", "retry", "confirm", "capture", "reconcile",
                "reserve", "reserving", "activate", "save", "saving", "commit"},
          stage : Stages, view : BindingType, snap : BindingType, verified : BOOLEAN,
          failed : BOOLEAN, reserved : BOOLEAN, layout : {"none", "demo", "analysis"},
          launch : BOOLEAN, raised : BOOLEAN]]
    /\ mail \in [Requests -> [pc : {"none", "deliver", "report", "reporting"},
                              outcome : {"none", "sent", "waiting_configuration", "failed"},
                              snap : BindingType]]
    /\ work \in [Requests -> {"none", "execute", "enqueued", "report", "bootstrap", "exception"}]
    /\ tx \in [rows : Rows, captured : BOOLEAN]
    /\ made \in [{"quote", "order", "payment"} -> Nat]
    /\ paid \in BOOLEAN
    /\ gw \in Seq({"authorized", "captured", "failed"} \cup Discrepant)
    /\ binding \in BindingType
    /\ db \in Rows
    /\ analysisOn \in BOOLEAN
    /\ \A r \in Requests : req[r].pc # "idle" <=> lock = r
    /\ lock = None => tx = NoTx
    /\ mails \in Nat /\ research \in Nat /\ lost \in Nat /\ faults \in Nat

Captured == \E i \in DOMAIN gw : gw[i] = "captured"

\* No case, e-mail or paid research exists without a committed capture of the
\* exact amount: a failed or mismatched payment never leaves a case behind
\* (activate.ts:110-112), whatever fails and in whatever order.
FulfilmentNeedsCapture ==
    db.case # "none" \/ mails > 0 \/ research > 0 => Captured

\* The paid research step is enqueued once for a purchase, and once more only for each
\* execution that enqueued it and then failed or died before its commit; through launches,
\* hand-overs, replays, crashes on either side of the commit and runs of a failed instance.
ResearchOnceUnlessLost == research <= 1 + lost /\ lost <= faults

\* Research runs for a case that is linked to the analysis instance.
ResearchHasItsCase ==
    research > 0 => db.case \in {"analysis", "upgraded"} /\ db.link = "analysis"

\* At most one confirmation e-mail is delivered for a purchase as long as the
\* transport does not lose its answer (contracts and dispatch.ts:96-99).
OneConfirmation == mails <= 1

\* A purchase makes one quote, one order, one payment, however its requests
\* are repeated and interrupted, and has one session that did not fail.
OnePurchase ==
    /\ \A s \in DOMAIN made : made[s] <= 1
    /\ \A i \in DOMAIN gw : i < Len(gw) => gw[i] = "failed"

\* Between requests what the sales records claim is committed: the binding
\* names rows that exist, and a payment recorded as captured was captured.
RecordsAgree ==
    lock = None =>
        /\ binding.bound # "none" => db[binding.bound] # "none" /\ db.case # "none"
        /\ paid => Captured

\* A captured purchase whose customer keeps confirming is handed to research
\* when analysis is enabled (service.ts:214-216: reconfirmation recovers).
PurchaseIsProcessed ==
    (paid /\ analysisOn) ~> (db.analysis \in {"dispatched", "failed"})

=============================================================================
