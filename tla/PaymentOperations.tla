------------------------- MODULE PaymentOperations -------------------------
(***************************************************************************)
(* One GatewayTransaction after its session exists: manual capture, refund *)
(* and cancel (executeManualOperation), the capture ledger that bounds the *)
(* sum of captures by the authorised amount, and the two writers that      *)
(* follow the provider, webhooks and the status poller.                    *)
(*                                                                         *)
(* An operation id names one row of gateway_payment_operations; attempts   *)
(* at it run in workers that may crash, be retried and overlap.  Rows are  *)
(* updated by compare-and-swap, one step each.  The transaction row has no *)
(* version column: the completion transaction, a webhook and a poll read   *)
(* it in one step and write what they computed in a later one.             *)
(*                                                                         *)
(* The provider is external; it is modelled by what the service relies on: *)
(* it executes a call at most once per idempotency key, and it does not    *)
(* enforce the authorised amount itself.                                   *)
(***************************************************************************)
EXTENDS Naturals, FiniteSetsExt

CONSTANTS
    Ops,              \* operation ids
    Kind,             \* Ops -> {"capture", "refund", "cancel"}
    Amount,           \* Ops -> Nat: requested amount, 0 when it is omitted
    Workers,          \* requests running at a time
    Keys,             \* idempotency keys of webhook deliveries and polls
    Authorized,       \* transaction.amount, in minor units
    LeaseCovers,      \* TRUE: a lease expires only after its attempt ended
    Failures,         \* what a call that throws leaves open: "definite", nothing
                      \* was executed under its key; "unreachable", this attempt
                      \* executed nothing; "lost_reply", it may have
    ExactProvider,    \* TRUE: the provider captures exactly what is asked
    OutsideCapture,   \* TRUE: someone may capture in the provider's dashboard
    MaxAttempts       \* bound on attempts that claim an operation

ASSUME OperationsAssumption ==
    /\ "none" \notin Ops
    /\ Kind \in [Ops -> {"capture", "refund", "cancel"}]
    /\ Amount \in [Ops -> Nat]
    /\ Authorized \in Nat \ {0} /\ MaxAttempts \in Nat
    /\ {LeaseCovers, ExactProvider, OutsideCapture} \subseteq BOOLEAN
    /\ Failures \in {"definite", "unreachable", "lost_reply"}

VARIABLES
    txn,      \* the GatewayTransaction row: status and captured amount
    ops,      \* the operation rows
    tokens,   \* attempt tokens issued
    pc,       \* what each worker does next
    job,      \* each worker's operation, token, snapshot and reserved units
    money,    \* what the provider did: charged per operation, and the rest
    pcHook,   \* progress of each delivery or poll
    hook,     \* its status and the snapshot of the row it read
    confirmed \* the provider reported the whole amount captured (history)

vars == <<txn, ops, tokens, pc, job, money, pcHook, hook, confirmed>>

Statuses == {"pending", "authorized", "captured", "partially_captured", "refunded",
             "partially_refunded", "cancelled", "failed", "expired"}

\* Terminal statuses have no way out: VALID_TRANSITIONS lists none.
TERMINAL_STATUSES == {"refunded", "cancelled", "failed", "expired"}

VALID_TRANSITIONS ==
    [s \in Statuses |->
        CASE s = "pending" -> {"authorized", "captured", "failed", "expired", "cancelled"}
          [] s = "authorized" -> {"captured", "partially_captured", "cancelled", "failed"}
          [] s = "captured" -> {"refunded", "partially_refunded"}
          [] s = "partially_captured" ->
                 {"captured", "refunded", "partially_refunded", "cancelled"}
          [] s = "partially_refunded" -> {"refunded"}
          [] OTHER -> {}]

isValidTransition(from, to) == to \in VALID_TRANSITIONS[from]

Targets(action) ==
    CASE action = "capture" -> {"captured", "partially_captured"}
      [] action = "refund"  -> {"refunded", "partially_refunded"}
      [] action = "cancel"  -> {"cancelled"}

canApplyManualAction(action, from) ==
    /\ from \notin TERMINAL_STATUSES
    /\ \E to \in Targets(action) : from = to \/ isValidTransition(from, to)

NoJob  == [op |-> "none", token |-> 0, txn |-> [status |-> "authorized", captured |-> 0],
           reserved |-> 0, got |-> 0, result |-> "none"]
NoHook == [status |-> "none", txn |-> [status |-> "authorized", captured |-> 0]]

\* The transaction is authorised: capture, refund and cancel presuppose it.
Init ==
    /\ txn = [status |-> "authorized", captured |-> 0]
    /\ ops = [o \in Ops |-> [status |-> "none", token |-> 0, leased |-> FALSE, reserved |-> 0]]
    /\ tokens = 0
    /\ pc = [w \in Workers |-> "idle"]
    /\ job = [w \in Workers |-> NoJob]
    /\ money = [charged |-> [o \in Ops |-> 0], outside |-> 0, refunded |-> FALSE,
                cancelled |-> FALSE]
    /\ pcHook = [k \in Keys |-> "none"]
    /\ hook = [k \in Keys |-> NoHook]
    /\ confirmed = FALSE

Goto(w, state) == pc' = [pc EXCEPT ![w] = state]
UnchangedHooks == UNCHANGED <<pcHook, hook, confirmed>>

-----------------------------------------------------------------------------
(* The capture ledger *)

Remaining(t) == Authorized - t.captured

\* An omitted amount asks for everything that is still authorised.
Requested(o, t) == IF Amount[o] = 0 THEN Remaining(t) ELSE Amount[o]

\* Faulty variants: each capture is held against the whole authorisation and
\* not against what is left of it; the amount is not held against anything.
assertCaptureWithinAuthorized(o, t) == Requested(o, t) > 0 /\ Requested(o, t) <= Authorized
assertCapturePositive(o, t) == Remaining(t) > 0 /\ Requested(o, t) > 0

assertCaptureWithinRemaining(o, t) ==
    Remaining(t) > 0 /\ Requested(o, t) > 0 /\ Requested(o, t) <= Remaining(t)

\* formatAmountUnits(x < 0n ? 0n : x) of the difference of two ledger values.
Minus(a, b) == IF a >= b THEN a - b ELSE 0

-----------------------------------------------------------------------------
(* executeManualOperation *)

\* findTransactionOrThrow: the snapshot every later check of the attempt uses.
Read(w, o) ==
    /\ pc[w] = "idle"
    /\ job' = [job EXCEPT ![w] = [NoJob EXCEPT !.op = o, !.txn = txn]]
    /\ Goto(w, "prepare")
    /\ UNCHANGED <<txn, ops, tokens, money>> /\ UnchangedHooks

\* A completion transaction has updated the operation row and not committed:
\* no other statement can change that row meanwhile.
RowFree(o) == \A v \in Workers : ~(pc[v] = "commit" /\ job[v].op = o)

AllowedInitially(o, t) ==
    /\ canApplyManualAction(Kind[o], t.status)
    /\ Kind[o] = "capture" => assertCaptureWithinRemaining(o, t)

\* Faulty variant: an operation in progress may be taken over under its lease.
CanClaimLeased(o, t) ==
    \/ ops[o].status = "none" /\ AllowedInitially(o, t)
    \/ ops[o].status \in {"failed", "in_progress"}

\* preparePaymentOperation: a new row is inserted, a failed one or one whose
\* lease ran out is taken over, anything else is refused or replayed.
CanClaim(o, t) ==
    \/ ops[o].status = "none" /\ AllowedInitially(o, t)
    \/ ops[o].status = "failed"
    \/ ops[o].status = "in_progress" /\ ~ops[o].leased

Prepare(w) ==
    LET o == job[w].op IN
    /\ pc[w] = "prepare" /\ RowFree(o)
    /\ IF CanClaim(o, job[w].txn)
       THEN /\ tokens < MaxAttempts
            /\ tokens' = tokens + 1
            /\ ops' = [ops EXCEPT ![o].status = "in_progress", ![o].token = tokens + 1,
                                  ![o].leased = TRUE]
            /\ job' = [job EXCEPT ![w].token = tokens + 1, ![w].reserved = ops[o].reserved]
            /\ Goto(w, IF Kind[o] = "capture" /\ ops[o].reserved = 0 THEN "reserve" ELSE "invoke")
       ELSE /\ Goto(w, "idle")
            /\ job' = [job EXCEPT ![w] = NoJob]
            /\ UNCHANGED <<tokens, ops>>
    /\ UNCHANGED <<txn, money>> /\ UnchangedHooks

\* Faulty variant: the ledger is increased without comparing it first.
ReservesBlindly(o, t) == assertCaptureWithinRemaining(o, t) /\ ops[o].reserved = 0

\* Both updates of the reservation find the row as the attempt read it.
Reserves(o, t) ==
    assertCaptureWithinRemaining(o, t) /\ txn.captured = t.captured /\ ops[o].reserved = 0

\* reserveCaptureAmount: the ledger moves and the slice is stamped on the
\* operation in one transaction, or the attempt fails before the provider.
Reserve(w) ==
    LET o == job[w].op
        t == job[w].txn
    IN
    /\ pc[w] = "reserve" /\ RowFree(o)
    /\ IF Reserves(o, t)
       THEN /\ txn' = [txn EXCEPT !.captured = t.captured + Requested(o, t)]
            /\ ops' = [ops EXCEPT ![o].reserved = Requested(o, t)]
            /\ job' = [job EXCEPT ![w].reserved = Requested(o, t)]
            /\ Goto(w, "invoke")
       ELSE Goto(w, "fail") /\ UNCHANGED <<txn, ops, job>>
    /\ UNCHANGED <<tokens, money>> /\ UnchangedHooks

-----------------------------------------------------------------------------
(* The provider, external *)

TotalCaptured == MapThenSumSet(LAMBDA o : money.charged[o], Ops) + money.outside

ProviderStatus(m, total) ==
    CASE m.cancelled -> "cancelled"
      [] m.refunded -> "refunded"
      [] total >= Authorized -> "captured"
      [] total > 0 /\ total < Authorized -> "partially_captured"
      [] OTHER -> "authorized"

\* What a capture may take: nothing again under a key it has already served.
Takes(o, reserved) ==
    IF money.charged[o] > 0 THEN {money.charged[o]}
    ELSE IF ExactProvider THEN {reserved} ELSE 1..reserved

Accepts(o) ==
    CASE Kind[o] = "capture" -> ~money.cancelled
      [] Kind[o] = "refund"  -> TotalCaptured > 0 /\ ~money.cancelled
      [] Kind[o] = "cancel"  -> TotalCaptured = 0

\* The provider executes the operation of worker w, taking n for a capture.
Executes(w, n) ==
    LET o == job[w].op IN
    money' = CASE Kind[o] = "capture" -> [money EXCEPT !.charged[o] = n]
               [] Kind[o] = "refund"  -> [money EXCEPT !.refunded = TRUE]
               [] Kind[o] = "cancel"  -> [money EXCEPT !.cancelled = TRUE]

Outcome(o) ==
    CASE Kind[o] = "capture" ->
             IF TotalCaptured' >= Authorized THEN "captured" ELSE "partially_captured"
      [] Kind[o] = "refund"  -> "refunded"
      [] Kind[o] = "cancel"  -> "cancelled"

Chargeable(w) == IF Kind[job[w].op] = "capture" THEN Takes(job[w].op, job[w].reserved) ELSE {0}

Invoke(w) ==
    LET o == job[w].op IN
    /\ pc[w] = "invoke" /\ Accepts(o)
    /\ \E n \in Chargeable(w) :
         /\ Executes(w, n)
         /\ job' = [job EXCEPT ![w].got = n, ![w].result = Outcome(o)]
    /\ Goto(w, "complete")
    /\ UNCHANGED <<txn, ops, tokens>> /\ UnchangedHooks

\* The adapter cannot be resolved, or its capture, refund or cancel throws.
InvokeThrows(w) ==
    /\ pc[w] = "invoke"
    /\ \/ /\ Failures = "definite" => money.charged[job[w].op] = 0
          /\ UNCHANGED money
       \/ /\ Failures = "lost_reply" /\ Accepts(job[w].op)
          /\ \E n \in Chargeable(w) : Executes(w, n)
    /\ Goto(w, IF job[w].reserved > 0 THEN "release" ELSE "fail")
    /\ UNCHANGED <<txn, ops, tokens, job>> /\ UnchangedHooks

-----------------------------------------------------------------------------
(* Completion and failure *)

\* Faulty variant: the final updates are keyed by the operation alone.
HoldsById(w) == ops[job[w].op].status # "none"

\* The attempt still holds the operation (the WHERE of both final updates).
Holds(w) == ops[job[w].op].status = "in_progress" /\ ops[job[w].op].token = job[w].token

\* applyAdapterResultStatus: the status to write, or "conflict".
Applied(current, result) ==
    IF result = current \/ isValidTransition(result, current) THEN current
    ELSE IF isValidTransition(current, result) THEN result
    ELSE "conflict"

\* completePaymentOperation, first half: the operation row is updated, then
\* the transaction row is read.  A lost claim or a status conflict rolls back.
Complete(w) ==
    /\ pc[w] = "complete" /\ RowFree(job[w].op)
    /\ IF Holds(w) /\ Applied(txn.status, job[w].result) # "conflict"
       THEN job' = [job EXCEPT ![w].txn = txn] /\ Goto(w, "commit")
       ELSE Goto(w, "fail") /\ UNCHANGED job
    /\ UNCHANGED <<txn, ops, tokens, money>> /\ UnchangedHooks

\* settleCapturedAmount, computed from the ledger value the completion read.
Settled(w) ==
    IF job[w].got = job[w].reserved THEN txn.captured
    ELSE Minus(job[w].txn.captured + job[w].got, job[w].reserved)

\* ... second half: the flush writes the columns that changed, and commits.
Commit(w) ==
    LET o == job[w].op
        next == Applied(job[w].txn.status, job[w].result)
    IN
    /\ pc[w] = "commit"
    /\ ops' = [ops EXCEPT ![o].status = "succeeded", ![o].leased = FALSE]
    /\ txn' = [status   |-> IF next # job[w].txn.status THEN next ELSE txn.status,
               captured |-> IF Kind[o] = "capture" THEN Settled(w) ELSE txn.captured]
    /\ Goto(w, "idle")
    /\ job' = [job EXCEPT ![w] = NoJob]
    /\ UNCHANGED <<tokens, money>> /\ UnchangedHooks

\* Faulty variant: the ledger is lowered and the stamp stays.
ReleaseUnstamped(w) ==
    /\ pc[w] = "release" /\ RowFree(job[w].op)
    /\ txn' = [txn EXCEPT !.captured = Minus(txn.captured, job[w].reserved)]
    /\ Goto(w, "fail")
    /\ UNCHANGED <<ops, tokens, job, money>> /\ UnchangedHooks

\* releaseCaptureAmount, when the call threw: ledger and stamp change together
\* or (an error is swallowed) not at all.
Release(w) ==
    LET o == job[w].op IN
    /\ pc[w] = "release" /\ RowFree(o)
    /\ \/ /\ ops[o].reserved = job[w].reserved
          /\ txn' = [txn EXCEPT !.captured = Minus(txn.captured, job[w].reserved)]
          /\ ops' = [ops EXCEPT ![o].reserved = 0]
       \/ UNCHANGED <<txn, ops>>
    /\ Goto(w, "fail")
    /\ UNCHANGED <<tokens, job, money>> /\ UnchangedHooks

\* failPaymentOperation, whose own failure is swallowed; the error is rethrown.
Fail(w) ==
    LET o == job[w].op IN
    /\ pc[w] = "fail" /\ RowFree(o)
    /\ \/ Holds(w) /\ ops' = [ops EXCEPT ![o].status = "failed", ![o].leased = FALSE]
       \/ UNCHANGED ops
    /\ Goto(w, "idle")
    /\ job' = [job EXCEPT ![w] = NoJob]
    /\ UNCHANGED <<txn, tokens, money>> /\ UnchangedHooks

\* The process dies; an open completion transaction rolls back.
Crash(w) ==
    /\ pc[w] # "idle"
    /\ Goto(w, "idle")
    /\ job' = [job EXCEPT ![w] = NoJob]
    /\ UNCHANGED <<txn, ops, tokens, money>> /\ UnchangedHooks

\* leaseExpiresAt passes; nobody renews a lease.
LeaseExpires(o) ==
    /\ ops[o].status = "in_progress" /\ ops[o].leased
    /\ LeaseCovers => \A w \in Workers : job[w].op = o => job[w].token # ops[o].token
    /\ ops' = [ops EXCEPT ![o].leased = FALSE]
    /\ UNCHANGED <<txn, tokens, pc, job, money>> /\ UnchangedHooks

-----------------------------------------------------------------------------
(* Following the provider *)

UnchangedOps == UNCHANGED <<ops, tokens, pc, job>>
HookGoto(k, state) == pcHook' = [pcHook EXCEPT ![k] = state]

\* The rest of the amount is captured outside this service.
CaptureOutside ==
    /\ OutsideCapture /\ money.outside = 0 /\ ~money.cancelled
    /\ \E n \in 1..Authorized :
         TotalCaptured + n = Authorized /\ money' = [money EXCEPT !.outside = n]
    /\ UNCHANGED <<txn, pcHook, hook, confirmed>> /\ UnchangedOps

\* The provider sends an event carrying its status of the moment.
Emit(k) ==
    /\ pcHook[k] = "none"
    /\ hook' = [hook EXCEPT ![k].status = ProviderStatus(money, TotalCaptured)]
    /\ HookGoto(k, "sent")
    /\ UNCHANGED <<txn, money, confirmed>> /\ UnchangedOps

\* claimWebhookProcessing: the insert of a second delivery fails on the unique
\* key and is skipped, so a claimed event is never processed again.
ClaimWebhook(k) ==
    /\ pcHook[k] = "sent"
    /\ HookGoto(k, "claimed")
    /\ UNCHANGED <<txn, hook, money, confirmed>> /\ UnchangedOps

\* syncTransactionStatus reads the row it will flush.
ReadForSync(k) ==
    /\ pcHook[k] = "claimed"
    /\ hook' = [hook EXCEPT ![k].txn = txn]
    /\ HookGoto(k, "read")
    /\ UNCHANGED <<txn, money, confirmed>> /\ UnchangedOps

\* getPaymentStatus of the poller: the row, then the provider's status.
Poll(k) ==
    /\ pcHook[k] = "none"
    /\ hook' = [hook EXCEPT ![k] = [status |-> ProviderStatus(money, TotalCaptured), txn |-> txn]]
    /\ HookGoto(k, "read")
    /\ UNCHANGED <<txn, money, confirmed>> /\ UnchangedOps

\* The status to write is judged on the snapshot; alignCapturedAmountWithStatus
\* raises the ledger to the full amount when the provider reports captured.
Flush(k) ==
    LET snap == hook[k].txn
        next == hook[k].status
        moves == isValidTransition(snap.status, next)
        aligns == moves /\ next = "captured" /\ snap.captured < Authorized
    IN
    /\ pcHook[k] = "read"
    /\ txn' = [status   |-> IF moves THEN next ELSE txn.status,
               captured |-> IF aligns THEN Authorized ELSE txn.captured]
    /\ confirmed' = (confirmed \/ (moves /\ next = "captured"))
    /\ HookGoto(k, "done") /\ hook' = [hook EXCEPT ![k] = NoHook]
    /\ UNCHANGED money /\ UnchangedOps

\* The sync throws: the claim is deleted and the job is delivered again.
ReleaseWebhook(k) ==
    /\ pcHook[k] \in {"claimed", "read"}
    /\ HookGoto(k, "sent")
    /\ UNCHANGED <<txn, hook, money, confirmed>> /\ UnchangedOps

\* The process dies with the claim committed: redelivery skips the event.
LoseWebhook(k) ==
    /\ pcHook[k] \in {"claimed", "read"}
    /\ HookGoto(k, "done") /\ hook' = [hook EXCEPT ![k] = NoHook]
    /\ UNCHANGED <<txn, money, confirmed>> /\ UnchangedOps

-----------------------------------------------------------------------------

Attempt(w) ==
    \/ \E o \in Ops : Read(w, o)
    \/ Prepare(w) \/ Reserve(w) \/ Invoke(w) \/ InvokeThrows(w)
    \/ Complete(w) \/ Commit(w) \/ Release(w) \/ Fail(w) \/ Crash(w)

Follow(k) ==
    Emit(k) \/ ClaimWebhook(k) \/ ReadForSync(k) \/ Poll(k) \/ Flush(k)
    \/ ReleaseWebhook(k) \/ LoseWebhook(k)

Next ==
    \/ \E w \in Workers : Attempt(w)
    \/ \E o \in Ops : LeaseExpires(o)
    \/ \E k \in Keys : Follow(k)
    \/ CaptureOutside

Spec == Init /\ [][Next]_vars

-----------------------------------------------------------------------------
(* Properties *)

TxnType   == [status : Statuses, captured : Nat]
OpType    == [status : {"none", "in_progress", "failed", "succeeded"}, token : Nat,
              leased : BOOLEAN, reserved : 0..Authorized]
JobType   == [op : Ops \cup {"none"}, token : Nat, txn : TxnType, reserved : 0..Authorized,
              got : Nat, result : Statuses \cup {"none"}]
MoneyType == [charged : [Ops -> Nat], outside : Nat, refunded : BOOLEAN, cancelled : BOOLEAN]
HookType  == [status : Statuses \cup {"none"}, txn : TxnType]

TypeOK ==
    /\ txn \in TxnType
    /\ ops \in [Ops -> OpType]
    /\ tokens \in Nat
    /\ pc \in [Workers -> {"idle", "prepare", "reserve", "invoke", "complete", "commit",
                           "release", "fail"}]
    /\ job \in [Workers -> JobType]
    /\ money \in MoneyType
    /\ pcHook \in [Keys -> {"none", "sent", "claimed", "read", "done"}]
    /\ hook \in [Keys -> HookType]
    /\ confirmed \in BOOLEAN

\* The captured-to-date amount never passes the authorised one, also when the
\* provider takes less than it was asked for or someone captures outside, as long
\* as leases cover their attempts and a call that throws took nothing.
LedgerWithinAuthorization == txn.captured <= Authorized

\* The sum of all captures against one authorisation never exceeds it (#4487),
\* counting what the provider took and not what the ledger says it took.
NoOverCapture == TotalCaptured <= Authorized

\* Money that moved is money the operation still holds a slice for: whatever
\* crashed or was retried, no charge is forgotten by the row that made it.
SliceHeld ==
    \A o \in Ops : money.charged[o] > 0 => ops[o].reserved = money.charged[o]

\* The ledger is exactly the slices held, until the provider confirms more:
\* no crash, lost race or double release leaks or invents a slice.
LedgerIsSlices ==
    ~confirmed => txn.captured = MapThenSumSet(LAMBDA o : ops[o].reserved, Ops)

\* An operation that succeeded stays succeeded: no stale attempt, failure path or
\* expired lease reopens it, whatever the leases do.
SucceededIsFinal ==
    [][\A o \in Ops : ops[o].status = "succeeded" => ops'[o].status = "succeeded"]_vars

Active(w) == pc[w] \notin {"idle", "prepare"}

\* Attempts at one operation exclude each other as long as no lease expires
\* under a live attempt: at most one is between its claim and its last update.
SingleAttempt ==
    \A v, w \in Workers :
        Active(v) /\ Active(w) /\ job[v].op = job[w].op => v = w

=============================================================================
