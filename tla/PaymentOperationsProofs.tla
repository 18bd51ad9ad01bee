---------------------- MODULE PaymentOperationsProofs ----------------------
(***************************************************************************)
(* For any operations, workers, webhooks and amounts: type correctness of  *)
(* PaymentOperations and the finality of a succeeded operation, without    *)
(* any assumption, and the exclusion of attempts for leases that cover     *)
(* them.  PaymentLedgerProofs goes on from here to the ledger.             *)
(***************************************************************************)
EXTENDS PaymentOperations, TLAPS

-----------------------------------------------------------------------------
(* Types, without any assumption *)

\* A worker that is busy has an operation; its result is known from the call on,
\* and a completion that may commit has a status it can write.
JobsAreSound ==
    \A w \in Workers :
        /\ pc[w] # "idle" => job[w].op \in Ops
        /\ pc[w] \in {"complete", "commit"} => job[w].result \in Statuses
        /\ pc[w] = "commit" => Applied(job[w].txn.status, job[w].result) # "conflict"

TInv == TypeOK /\ JobsAreSound

LEMMA AppliedType ==
    ASSUME NEW current \in Statuses, NEW result \in Statuses,
           Applied(current, result) # "conflict"
    PROVE  Applied(current, result) \in Statuses
BY DEF Applied

LEMMA ProviderStatusType ==
    ASSUME NEW m, NEW total PROVE ProviderStatus(m, total) \in Statuses
BY DEF ProviderStatus, Statuses

LEMMA MinusType == ASSUME NEW a \in Nat, NEW b \in Nat PROVE Minus(a, b) \in Nat
BY DEF Minus

LEMMA OutcomeType == ASSUME NEW o \in Ops PROVE Outcome(o) \in Statuses
BY OperationsAssumption DEF Outcome, Statuses

\* A reservation that passes the ceiling is a slice of the authorised amount.
LEMMA RequestedType ==
    ASSUME NEW o \in Ops, NEW t \in TxnType, assertCaptureWithinRemaining(o, t)
    PROVE  /\ Requested(o, t) \in 1..Authorized
           /\ t.captured + Requested(o, t) \in Nat
           /\ t.captured + Requested(o, t) <= Authorized
BY OperationsAssumption DEF assertCaptureWithinRemaining, Requested, Remaining, TxnType

LEMMA ChargeableType ==
    ASSUME TypeOK, NEW w \in Workers, job[w].op \in Ops, NEW n \in Chargeable(w)
    PROVE  n \in Nat
<1>1. money.charged[job[w].op] \in Nat /\ job[w].reserved \in 0..Authorized
  BY DEF TypeOK, MoneyType, JobType
<1> QED BY <1>1, OperationsAssumption DEF Chargeable, Takes

\* The parts of the state that steps write, typed one at a time.
LEMMA NoJobType == NoJob \in JobType /\ NoHook \in HookType
BY OperationsAssumption DEF NoJob, NoHook, JobType, HookType, TxnType, Statuses

LEMMA JobPut ==
    ASSUME job \in [Workers -> JobType], NEW w \in Workers, NEW r \in JobType
    PROVE  [job EXCEPT ![w] = r] \in [Workers -> JobType]
OBVIOUS

LEMMA InitTInv == Init => TInv
<1> SUFFICES ASSUME Init PROVE TInv
  OBVIOUS
<1>1. txn \in TxnType /\ ops \in [Ops -> OpType] /\ money \in MoneyType
  BY OperationsAssumption DEF Init, TxnType, OpType, MoneyType, Statuses
<1>2. job \in [Workers -> JobType] /\ hook \in [Keys -> HookType]
  BY NoJobType DEF Init
<1> QED BY <1>1, <1>2 DEF Init, TInv, TypeOK, JobsAreSound

\* The steps of an attempt up to the call.
LEMMA ReadTyped == ASSUME TInv, NEW w \in Workers, NEW o \in Ops, Read(w, o) PROVE TInv'
<1>1. [NoJob EXCEPT !.op = o, !.txn = txn] \in JobType
  BY NoJobType DEF NoJob, JobType, TInv, TypeOK
<1>2. job' \in [Workers -> JobType]
  BY <1>1, JobPut DEF Read, TInv, TypeOK
<1>3. job'[w].op = o
  BY DEF Read, NoJob, TInv, TypeOK
<1>4. JobsAreSound'
  BY <1>3 DEF Read, Goto, TInv, TypeOK, JobsAreSound
<1> QED BY <1>2, <1>4 DEF Read, Goto, UnchangedHooks, TInv, TypeOK

LEMMA PrepareTyped == ASSUME TInv, NEW w \in Workers, Prepare(w) PROVE TInv'
<1> DEFINE o == job[w].op
<1>1. o \in Ops
  BY DEF TInv, JobsAreSound, Prepare
<1>2. CASE CanClaim(o, job[w].txn)
  <2>1. /\ tokens' = tokens + 1
        /\ ops' = [ops EXCEPT ![o] = [@ EXCEPT !.status = "in_progress", !.token = tokens + 1,
                                               !.leased = TRUE]]
        /\ job' = [job EXCEPT ![w] = [@ EXCEPT !.token = tokens + 1, !.reserved = ops[o].reserved]]
        /\ pc' \in {[pc EXCEPT ![w] = "reserve"], [pc EXCEPT ![w] = "invoke"]}
        /\ UNCHANGED <<txn, money, pcHook, hook, confirmed>>
    BY <1>1, <1>2 DEF Prepare, Goto, UnchangedHooks, TInv, TypeOK, OpType, JobType
  <2>0. ops[o] \in OpType /\ job[w] \in JobType /\ tokens + 1 \in Nat
    BY <1>1 DEF TInv, TypeOK
  <2>2. [ops[o] EXCEPT !.status = "in_progress", !.token = tokens + 1, !.leased = TRUE] \in OpType
    BY <2>0 DEF OpType
  <2>3. [job[w] EXCEPT !.token = tokens + 1, !.reserved = ops[o].reserved] \in JobType
    BY <2>0 DEF OpType, JobType
  <2>4. ops' \in [Ops -> OpType] /\ job' \in [Workers -> JobType]
    BY <2>1, <2>2, <2>3 DEF TInv, TypeOK
  <2>5. job'[w].op = o
    BY <2>1 DEF TInv, TypeOK, JobType
  <2>6. JobsAreSound'
    BY <1>1, <2>1, <2>5 DEF TInv, TypeOK, JobsAreSound
  <2> QED BY <2>1, <2>4, <2>6 DEF TInv, TypeOK
<1>3. CASE ~CanClaim(o, job[w].txn)
  <2>1. /\ pc' = [pc EXCEPT ![w] = "idle"] /\ job' = [job EXCEPT ![w] = NoJob]
        /\ UNCHANGED <<txn, ops, tokens, money, pcHook, hook, confirmed>>
    BY <1>3 DEF Prepare, Goto, UnchangedHooks
  <2>2. job' \in [Workers -> JobType]
    BY <2>1, NoJobType, JobPut DEF TInv, TypeOK
  <2>3. JobsAreSound'
    BY <2>1 DEF TInv, TypeOK, JobsAreSound
  <2> QED BY <2>1, <2>2, <2>3 DEF TInv, TypeOK
<1> QED BY <1>2, <1>3

\* A step that ends an attempt forgets its job.
LEMMA JobDropped ==
    ASSUME TInv, NEW w \in Workers, pc' = [pc EXCEPT ![w] = "idle"],
           job' = [job EXCEPT ![w] = NoJob]
    PROVE  job' \in [Workers -> JobType] /\ JobsAreSound'
<1>1. job' \in [Workers -> JobType]
  BY NoJobType, JobPut DEF TInv, TypeOK
<1>2. JobsAreSound'
  BY DEF TInv, TypeOK, JobsAreSound
<1> QED BY <1>1, <1>2

LEMMA ReserveTyped == ASSUME TInv, NEW w \in Workers, Reserve(w) PROVE TInv'
<1> DEFINE o == job[w].op
           t == job[w].txn
           n == Requested(o, t)
<1>1. o \in Ops /\ t \in TxnType /\ job[w] \in JobType /\ ops[o] \in OpType
  BY DEF TInv, JobsAreSound, TypeOK, JobType, Reserve
<1>2. CASE Reserves(o, t)
  <2>1. n \in 1..Authorized /\ t.captured + n \in Nat
    BY <1>1, <1>2, RequestedType DEF Reserves
  <2>2. n \in 0..Authorized
    BY <2>1, OperationsAssumption
  <2>3. /\ [txn EXCEPT !.captured = t.captured + n] \in TxnType
        /\ [ops[o] EXCEPT !.reserved = n] \in OpType
        /\ [job[w] EXCEPT !.reserved = n] \in JobType
    BY <1>1, <2>1, <2>2 DEF TInv, TypeOK, TxnType, OpType, JobType
  <2>4. /\ txn' = [txn EXCEPT !.captured = t.captured + n]
        /\ ops' = [ops EXCEPT ![o] = [ops[o] EXCEPT !.reserved = n]]
        /\ job' = [job EXCEPT ![w] = [job[w] EXCEPT !.reserved = n]]
        /\ pc' = [pc EXCEPT ![w] = "invoke"]
        /\ UNCHANGED <<tokens, money, pcHook, hook, confirmed>>
    BY <1>1, <1>2 DEF Reserve, Goto, UnchangedHooks, TInv, TypeOK
  <2>5. txn' \in TxnType /\ ops' \in [Ops -> OpType] /\ job' \in [Workers -> JobType]
    BY <2>3, <2>4 DEF TInv, TypeOK
  <2>6. job'[w].op = o
    BY <1>1, <2>4 DEF TInv, TypeOK, JobType
  <2>7. JobsAreSound'
    BY <1>1, <2>4, <2>6 DEF TInv, TypeOK, JobsAreSound
  <2> QED BY <2>4, <2>5, <2>7 DEF TInv, TypeOK
<1>3. CASE ~Reserves(o, t)
  BY <1>3 DEF TInv, Reserve, Goto, UnchangedHooks, TypeOK, JobsAreSound
<1> QED BY <1>2, <1>3

\* The call to the provider, answered or not.
LEMMA ExecutesTyped ==
    ASSUME TInv, NEW w \in Workers, job[w].op \in Ops, NEW n \in Chargeable(w), Executes(w, n)
    PROVE  money' \in MoneyType
<1>1. n \in Nat
  BY ChargeableType DEF TInv
<1>2. Kind[job[w].op] \in {"capture", "refund", "cancel"}
  BY OperationsAssumption
<1> QED BY <1>1, <1>2 DEF TInv, TypeOK, MoneyType, Executes

LEMMA InvokeTyped == ASSUME TInv, NEW w \in Workers, Invoke(w) PROVE TInv'
<1>1. job[w].op \in Ops /\ job[w] \in JobType
  BY DEF TInv, TypeOK, JobsAreSound, Invoke
<1>2. PICK n \in Chargeable(w) :
          Executes(w, n) /\ job' = [job EXCEPT ![w].got = n, ![w].result = Outcome(job[w].op)]
  BY DEF Invoke
<1>3. n \in Nat /\ Outcome(job[w].op) \in Statuses
  BY <1>1, ChargeableType, OutcomeType DEF TInv
<1>4. [job[w] EXCEPT !.got = n, !.result = Outcome(job[w].op)] \in JobType
  BY <1>1, <1>3 DEF JobType
<1>5. job' = [job EXCEPT ![w] = [job[w] EXCEPT !.got = n, !.result = Outcome(job[w].op)]]
  BY <1>1, <1>2 DEF TInv, TypeOK
<1>6. job' \in [Workers -> JobType] /\ money' \in MoneyType
  BY <1>1, <1>2, <1>4, <1>5, ExecutesTyped DEF TInv, TypeOK
<1>7. job'[w].op = job[w].op /\ job'[w].result \in Statuses
  BY <1>1, <1>3, <1>5 DEF TInv, TypeOK, JobType
<1>8. JobsAreSound'
  BY <1>1, <1>5, <1>7 DEF Invoke, Goto, TInv, TypeOK, JobsAreSound
<1> QED BY <1>6, <1>8 DEF TInv, Invoke, Goto, UnchangedHooks, TypeOK

LEMMA InvokeThrowsTyped == ASSUME TInv, NEW w \in Workers, InvokeThrows(w) PROVE TInv'
<1>1. job[w].op \in Ops
  BY DEF TInv, JobsAreSound, InvokeThrows
<1>2. money' \in MoneyType
  BY <1>1, ExecutesTyped DEF TInv, TypeOK, InvokeThrows
<1> QED BY <1>1, <1>2 DEF TInv, InvokeThrows, Goto, UnchangedHooks, TypeOK, JobsAreSound

\* Completion, release, failure and crash.
LEMMA CompleteTyped == ASSUME TInv, NEW w \in Workers, Complete(w) PROVE TInv'
<1>1. job[w] \in JobType /\ job[w].op \in Ops /\ job[w].result \in Statuses
  BY DEF TInv, TypeOK, JobsAreSound, Complete
<1>2. CASE Holds(w) /\ Applied(txn.status, job[w].result) # "conflict"
  <2>1. job' = [job EXCEPT ![w] = [job[w] EXCEPT !.txn = txn]] /\ pc' = [pc EXCEPT ![w] = "commit"]
    BY <1>2 DEF Complete, Goto, TInv, TypeOK
  <2>2. [job[w] EXCEPT !.txn = txn] \in JobType
    BY <1>1 DEF JobType, TInv, TypeOK
  <2>3. job' \in [Workers -> JobType]
    BY <2>1, <2>2 DEF TInv, TypeOK
  <2>4. job'[w].op = job[w].op /\ job'[w].result = job[w].result /\ job'[w].txn = txn
    BY <1>1, <2>1 DEF TInv, TypeOK, JobType
  <2>5. JobsAreSound'
    BY <1>1, <1>2, <2>1, <2>4 DEF TInv, TypeOK, JobsAreSound
  <2> QED BY <2>1, <2>3, <2>5 DEF Complete, UnchangedHooks, TInv, TypeOK
<1>3. CASE ~(Holds(w) /\ Applied(txn.status, job[w].result) # "conflict")
  BY <1>1, <1>3 DEF TInv, Complete, Goto, UnchangedHooks, TypeOK, JobsAreSound
<1> QED BY <1>2, <1>3

LEMMA CommitTyped == ASSUME TInv, NEW w \in Workers, Commit(w) PROVE TInv'
<1> DEFINE o == job[w].op
           next == Applied(job[w].txn.status, job[w].result)
<1>1. /\ o \in Ops /\ ops[o] \in OpType
      /\ job[w].result \in Statuses /\ next # "conflict"
      /\ job[w].txn.status \in Statuses /\ job[w].txn.captured \in Nat
      /\ job[w].got \in Nat /\ job[w].reserved \in Nat
  BY OperationsAssumption DEF TInv, JobsAreSound, TypeOK, JobType, TxnType, Commit
<1>2. next \in Statuses
  BY <1>1, AppliedType
<1>3. Settled(w) \in Nat
  <2>1. txn.captured \in Nat /\ job[w].txn.captured + job[w].got \in Nat
    BY <1>1 DEF TInv, TypeOK, TxnType
  <2>2. Minus(job[w].txn.captured + job[w].got, job[w].reserved) \in Nat
    BY <1>1, <2>1, MinusType
  <2> QED BY <2>1, <2>2 DEF Settled
<1>4. txn' \in TxnType
  BY <1>2, <1>3 DEF TInv, Commit, TypeOK, TxnType
<1>5. [ops[o] EXCEPT !.status = "succeeded", !.leased = FALSE] \in OpType
  BY <1>1 DEF OpType
<1>6. ops' = [ops EXCEPT ![o] = [ops[o] EXCEPT !.status = "succeeded", !.leased = FALSE]]
  BY <1>1 DEF Commit, TInv, TypeOK
<1>7. ops' \in [Ops -> OpType]
  BY <1>5, <1>6 DEF TInv, TypeOK
<1> QED BY <1>4, <1>7, JobDropped DEF TInv, Commit, Goto, UnchangedHooks, TypeOK

LEMMA ReleaseTyped == ASSUME TInv, NEW w \in Workers, Release(w) PROVE TInv'
<1> DEFINE o == job[w].op
<1>1. o \in Ops /\ ops[o] \in OpType /\ 0 \in 0..Authorized
  BY OperationsAssumption DEF TInv, JobsAreSound, TypeOK, Release
<1>2. Minus(txn.captured, job[w].reserved) \in Nat
  <2>1. txn.captured \in Nat /\ job[w].reserved \in Nat
    BY OperationsAssumption DEF TInv, TypeOK, TxnType, JobType
  <2> QED BY <2>1, MinusType
<1>3. [txn EXCEPT !.captured = Minus(txn.captured, job[w].reserved)] \in TxnType
  BY <1>2 DEF TInv, TypeOK, TxnType
<1>4. [ops EXCEPT ![o].reserved = 0] \in [Ops -> OpType]
  BY <1>1 DEF TInv, TypeOK, OpType
<1>5. txn' \in TxnType /\ ops' \in [Ops -> OpType]
  BY <1>3, <1>4 DEF Release, TInv, TypeOK
<1>6. JobsAreSound'
  BY DEF TInv, Release, Goto, TypeOK, JobsAreSound
<1> QED BY <1>5, <1>6 DEF TInv, Release, Goto, UnchangedHooks, TypeOK

LEMMA FailTyped == ASSUME TInv, NEW w \in Workers, Fail(w) \/ Crash(w) PROVE TInv'
<1>1. CASE Fail(w)
  <2>1. job[w].op \in Ops
    BY <1>1 DEF TInv, JobsAreSound, Fail
  <2>2. ops' \in [Ops -> OpType]
    BY <1>1, <2>1 DEF Fail, TInv, TypeOK, OpType
  <2> QED BY <1>1, <2>2, JobDropped DEF TInv, Fail, Goto, UnchangedHooks, TypeOK
<1>2. CASE Crash(w)
  BY <1>2, JobDropped DEF TInv, Crash, Goto, UnchangedHooks, TypeOK
<1> QED BY <1>1, <1>2

\* Leases, the provider's own doings, webhooks and polls.
LEMMA WorldTyped ==
    ASSUME TInv, (\E o \in Ops : LeaseExpires(o)) \/ CaptureOutside
    PROVE  TInv'
<1>1. CASE \E o \in Ops : LeaseExpires(o)
  <2>1. ops' \in [Ops -> OpType]
    <3>1. PICK o \in Ops : LeaseExpires(o)
      BY <1>1
    <3>2. [ops[o] EXCEPT !.leased = FALSE] \in OpType
      BY DEF TInv, TypeOK, OpType
    <3> QED BY <3>1, <3>2 DEF LeaseExpires, TInv, TypeOK
  <2> QED BY <1>1, <2>1 DEF TInv, LeaseExpires, UnchangedHooks, TypeOK, JobsAreSound
<1>2. CASE CaptureOutside
  <2>1. money' \in MoneyType
    BY <1>2, OperationsAssumption DEF CaptureOutside, TInv, TypeOK, MoneyType
  <2> QED BY <1>2, <2>1 DEF TInv, CaptureOutside, UnchangedOps, TypeOK, JobsAreSound
<1> QED BY <1>1, <1>2

LEMMA FollowTyped == ASSUME TInv, NEW k \in Keys, Follow(k) PROVE TInv'
<1>1. UNCHANGED <<ops, tokens, pc, job, money>>
  BY DEF Follow, Emit, ClaimWebhook, ReadForSync, Poll, Flush, ReleaseWebhook, LoseWebhook,
         UnchangedOps
<1>2. hook[k] \in HookType /\ txn \in TxnType
  BY DEF TInv, TypeOK
<1>3. hook' \in [Keys -> HookType]
  <2>1. \A s \in Statuses : [hook[k] EXCEPT !.status = s] \in HookType
    BY <1>2 DEF HookType
  <2>2. [hook[k] EXCEPT !.txn = txn] \in HookType
    BY <1>2 DEF HookType
  <2>3. \A s \in Statuses : [status |-> s, txn |-> txn] \in HookType
    BY <1>2 DEF HookType
  <2>4. \E h \in HookType : hook' \in {hook, [hook EXCEPT ![k] = h]}
    BY <1>2, <2>1, <2>2, <2>3, NoJobType, ProviderStatusType
       DEF Follow, Emit, ClaimWebhook, ReadForSync, Poll, Flush, ReleaseWebhook, LoseWebhook,
           TInv, TypeOK
  <2> QED BY <2>4 DEF TInv, TypeOK
<1>4. txn' \in TxnType /\ confirmed' \in BOOLEAN
  <2>1. CASE Flush(k)
    <3>1. hook[k].txn.status \in Statuses /\ Authorized \in Nat
      BY <1>2, OperationsAssumption DEF HookType, TxnType
    <3>2. isValidTransition(hook[k].txn.status, hook[k].status) => hook[k].status \in Statuses
      BY <3>1 DEF isValidTransition, VALID_TRANSITIONS, Statuses
    <3> QED BY <2>1, <3>1, <3>2 DEF Flush, TInv, TypeOK, TxnType
  <2>2. CASE ~Flush(k)
    BY <2>2 DEF Follow, Emit, ClaimWebhook, ReadForSync, Poll, ReleaseWebhook, LoseWebhook,
         TInv, TypeOK
  <2> QED BY <2>1, <2>2
<1>5. pcHook' \in [Keys -> {"none", "sent", "claimed", "read", "done"}]
  BY DEF Follow, Emit, ClaimWebhook, ReadForSync, Poll, Flush, ReleaseWebhook, LoseWebhook,
         HookGoto, TInv, TypeOK
<1>6. JobsAreSound'
  BY <1>1 DEF TInv, JobsAreSound
<1> QED BY <1>1, <1>3, <1>4, <1>5, <1>6 DEF TInv, TypeOK

LEMMA NextTyped == TInv /\ [Next]_vars => TInv'
<1> SUFFICES ASSUME TInv, [Next]_vars PROVE TInv'
  OBVIOUS
<1>1. ASSUME NEW w \in Workers, Attempt(w) PROVE TInv'
  BY <1>1, ReadTyped, PrepareTyped, ReserveTyped, InvokeTyped, InvokeThrowsTyped,
     CompleteTyped, CommitTyped, ReleaseTyped, FailTyped DEF Attempt
<1>2. CASE UNCHANGED vars
  BY <1>2 DEF TInv, vars, TypeOK, JobsAreSound
<1> QED BY <1>1, <1>2, WorldTyped, FollowTyped DEF Next

LEMMA TInvariance == Spec => []TInv
BY InitTInv, NextTyped, PTL DEF Spec

\* Every variable keeps its type; a slice never exceeds the authorised amount.
THEOREM TypeCorrect == Spec => []TypeOK
<1>1. TInv => TypeOK
  BY DEF TInv
<1> QED BY <1>1, TInvariance, PTL


\* An operation that succeeded stays succeeded: only CanClaim and the failure of an
\* attempt that still holds the operation write another status.
THEOREM SucceededStays == Spec => SucceededIsFinal
<1>1. TInv /\ [Next]_vars =>
        \A o \in Ops : ops[o].status = "succeeded" => ops'[o].status = "succeeded"
  <2> SUFFICES ASSUME TInv, [Next]_vars, NEW o \in Ops, ops[o].status = "succeeded"
               PROVE  ops'[o].status = "succeeded"
    OBVIOUS
  <2>1. ASSUME NEW w \in Workers, Attempt(w) PROVE ops'[o].status = "succeeded"
    <3>1. CASE Prepare(w)
      BY <3>1 DEF TInv, TypeOK, OpType, Prepare, CanClaim
    <3>2. CASE Reserve(w) \/ Release(w)
      BY <3>2 DEF TInv, TypeOK, OpType, Reserve, Release
    <3>3. CASE Commit(w)
      BY <3>3 DEF TInv, TypeOK, OpType, Commit
    <3>4. CASE Fail(w)
      BY <3>4 DEF TInv, TypeOK, OpType, Fail, Holds
    <3>5. CASE ops' = ops
      BY <3>5
    <3> QED BY <2>1, <3>1, <3>2, <3>3, <3>4, <3>5
            DEF Attempt, Read, Invoke, InvokeThrows, Complete, Crash
  <2>2. CASE \E p \in Ops : LeaseExpires(p)
    BY <2>2 DEF TInv, TypeOK, OpType, LeaseExpires
  <2>3. CASE ops' = ops
    BY <2>3
  <2> QED BY <2>1, <2>2, <2>3 DEF Next, vars, CaptureOutside, UnchangedOps, Follow, Emit,
          ClaimWebhook, ReadForSync, Poll, Flush, ReleaseWebhook, LoseWebhook
<1> QED BY <1>1, TInvariance, PTL DEF Spec, SucceededIsFinal

-----------------------------------------------------------------------------
(* Exclusion of attempts, when leases cover them *)

\* Tokens were issued before, no two attempts have the same, and one that has not
\* claimed anything has none.
TokensAreOwned ==
    /\ \A o \in Ops : ops[o].token <= tokens
    /\ \A w \in Workers :
         job[w].token <= tokens /\ (~Active(w) => job[w].token = 0)
    /\ \A v, w \in Workers : job[v].token # 0 /\ job[v].token = job[w].token => v = w

\* From its claim to its last update an attempt holds its operation under a lease.
AttemptsHold ==
    \A w \in Workers : Active(w) =>
        /\ ops[job[w].op].status = "in_progress" /\ ops[job[w].op].leased
        /\ ops[job[w].op].token = job[w].token /\ job[w].token # 0

EInv == TInv /\ TokensAreOwned /\ AttemptsHold

LEMMA Exclusion == EInv => SingleAttempt
BY DEF EInv, TokensAreOwned, AttemptsHold, SingleAttempt, Active, TInv, JobsAreSound

\* Steps that leave claims as they are.
LEMMA QuietExclusion ==
    ASSUME EInv, TInv', tokens' = tokens,
           \A o \in Ops : /\ ops'[o].status = ops[o].status /\ ops'[o].token = ops[o].token
                          /\ ops'[o].leased = ops[o].leased,
           \A w \in Workers : /\ job'[w].op = job[w].op /\ job'[w].token = job[w].token
                              /\ Active(w)' <=> Active(w)
    PROVE  EInv'
<1>1. TokensAreOwned'
  BY DEF EInv, TokensAreOwned
<1>2. AttemptsHold'
  <2> SUFFICES ASSUME NEW w \in Workers, Active(w)'
               PROVE  /\ ops'[job'[w].op].status = "in_progress" /\ ops'[job'[w].op].leased
                      /\ ops'[job'[w].op].token = job'[w].token /\ job'[w].token # 0
    BY DEF AttemptsHold
  <2>1. job[w].op \in Ops /\ Active(w)
    BY DEF EInv, TInv, JobsAreSound, Active
  <2> QED BY <2>1 DEF EInv, AttemptsHold
<1> QED BY <1>1, <1>2 DEF EInv

\* A step that ends an attempt may change its own operation only.
LEMMA EndExclusion ==
    ASSUME EInv, TInv', NEW w \in Workers, tokens' = tokens, Active(w) \/ ops' = ops,
           pc' = [pc EXCEPT ![w] = "idle"], job' = [job EXCEPT ![w] = NoJob],
           \A o \in Ops : ops'[o].token = ops[o].token /\ (o # job[w].op => ops'[o] = ops[o])
    PROVE  EInv'
<1>1. job'[w].token = 0 /\ ~Active(w)' /\ \A v \in Workers \ {w} : job'[v] = job[v]
  BY DEF EInv, TInv, TypeOK, NoJob, Active
<1>2. \A v \in Workers \ {w} : Active(v)' <=> Active(v)
  BY DEF EInv, TInv, TypeOK, Active
<1>3. TokensAreOwned'
  BY <1>1, <1>2 DEF EInv, TokensAreOwned, TInv, TypeOK
<1>4. AttemptsHold'
  <2> SUFFICES ASSUME NEW v \in Workers, Active(v)'
               PROVE  /\ ops'[job'[v].op].status = "in_progress" /\ ops'[job'[v].op].leased
                      /\ ops'[job'[v].op].token = job'[v].token /\ job'[v].token # 0
    BY DEF AttemptsHold
  <2>1. v # w /\ Active(v) /\ job'[v] = job[v] /\ job[v].op \in Ops
    BY <1>1, <1>2 DEF EInv, TInv, JobsAreSound, Active
  <2>2. ops'[job[v].op] = ops[job[v].op]
    BY <2>1, Exclusion DEF SingleAttempt
  <2> QED BY <2>1, <2>2 DEF EInv, AttemptsHold
<1> QED BY <1>3, <1>4 DEF EInv

\* A claim takes an operation nobody works at, with a token nobody has.
LEMMA PrepareExclusion ==
    ASSUME LeaseCovers, EInv, TInv', NEW w \in Workers, Prepare(w)
    PROVE  EInv'
<1> DEFINE o == job[w].op
<1>1. o \in Ops /\ ~Active(w)
  BY DEF EInv, TInv, JobsAreSound, Prepare, Active
<1>2. CASE CanClaim(o, job[w].txn)
  <2>1. \A v \in Workers : Active(v) => job[v].op # o
    BY <1>2 DEF EInv, AttemptsHold, CanClaim
  <2>2. /\ tokens' = tokens + 1 /\ ops'[o].token = tokens + 1 /\ ops'[o].leased
        /\ ops'[o].status = "in_progress" /\ job'[w].token = tokens + 1 /\ job'[w].op = o
        /\ Active(w)'
    BY <1>1, <1>2 DEF Prepare, Goto, Active, EInv, TInv, TypeOK, OpType, JobType
  <2>3. /\ \A p \in Ops \ {o} : ops'[p] = ops[p]
        /\ \A v \in Workers \ {w} : job'[v] = job[v] /\ (Active(v)' <=> Active(v))
    BY <1>2 DEF Prepare, Goto, Active, EInv, TInv, TypeOK
  <2>4. TokensAreOwned'
    <3>1. tokens \in Nat /\ \A v \in Workers : job[v].token \in Nat
      BY DEF EInv, TInv, TypeOK, JobType
    <3>2. \A p \in Ops : ops[p].token \in Nat
      BY DEF EInv, TInv, TypeOK, OpType
    <3> QED BY <2>2, <2>3, <3>1, <3>2 DEF EInv, TokensAreOwned
  <2>5. AttemptsHold'
    <3> SUFFICES ASSUME NEW v \in Workers, Active(v)'
                 PROVE  /\ ops'[job'[v].op].status = "in_progress" /\ ops'[job'[v].op].leased
                        /\ ops'[job'[v].op].token = job'[v].token /\ job'[v].token # 0
      BY DEF AttemptsHold
    <3>1. CASE v = w
      BY <2>2, <3>1 DEF EInv, TInv, TypeOK
    <3>2. CASE v # w
      <4>1. Active(v) /\ job'[v] = job[v] /\ job[v].op \in Ops \ {o}
        BY <2>1, <2>3, <3>2 DEF EInv, TInv, JobsAreSound, Active
      <4> QED BY <2>3, <4>1 DEF EInv, AttemptsHold
    <3> QED BY <3>1, <3>2
  <2> QED BY <2>4, <2>5 DEF EInv
<1>3. CASE ~CanClaim(o, job[w].txn)
  BY <1>3, EndExclusion DEF Prepare, Goto
<1> QED BY <1>2, <1>3

LEMMA ReadExclusion ==
    ASSUME EInv, TInv', NEW w \in Workers, NEW o \in Ops, Read(w, o)
    PROVE  EInv'
<1>1. job'[w].token = 0 /\ ~Active(w)' /\ ~Active(w)
  BY DEF Read, Goto, NoJob, Active, EInv, TInv, TypeOK
<1>2. \A v \in Workers \ {w} : job'[v] = job[v] /\ (Active(v)' <=> Active(v))
  BY DEF Read, Goto, Active, EInv, TInv, TypeOK
<1>3. ops' = ops /\ tokens' = tokens
  BY DEF Read
<1>4. TokensAreOwned'
  BY <1>1, <1>2, <1>3 DEF EInv, TokensAreOwned, TInv, TypeOK
<1>5. AttemptsHold'
  BY <1>1, <1>2, <1>3 DEF EInv, AttemptsHold
<1> QED BY <1>4, <1>5 DEF EInv

\* No lease runs out under the attempt that took it.
LEMMA LeaseExclusion ==
    ASSUME LeaseCovers, EInv, TInv', NEW o \in Ops, LeaseExpires(o)
    PROVE  EInv'
<1>1. \A v \in Workers : Active(v) => job[v].op # o
  BY DEF LeaseExpires, EInv, AttemptsHold
<1>2. /\ UNCHANGED <<tokens, pc, job>> /\ ops'[o].token = ops[o].token
      /\ \A p \in Ops \ {o} : ops'[p] = ops[p]
  BY DEF LeaseExpires, EInv, TInv, TypeOK, OpType
<1>3. TokensAreOwned'
  BY <1>2 DEF EInv, TokensAreOwned, Active
<1>4. AttemptsHold'
  BY <1>1, <1>2 DEF EInv, AttemptsHold, Active, TInv, JobsAreSound
<1> QED BY <1>3, <1>4 DEF EInv

LEMMA NextExclusion == ASSUME LeaseCovers PROVE EInv /\ [Next]_vars => EInv'
<1> SUFFICES ASSUME EInv, [Next]_vars PROVE EInv'
  OBVIOUS
<1>1. TInv'
  BY NextTyped DEF EInv
<1>2. ASSUME NEW w \in Workers, Attempt(w) PROVE EInv'
  <2>1. CASE \E o \in Ops : Read(w, o)
    BY <1>1, <2>1, ReadExclusion
  <2>2. CASE Prepare(w)
    BY <1>1, <2>2, PrepareExclusion
  <2>3. CASE Reserve(w) \/ Invoke(w) \/ InvokeThrows(w) \/ Complete(w) \/ Release(w)
    <3>1. tokens' = tokens
      BY <2>3 DEF Reserve, Invoke, InvokeThrows, Complete, Release
    <3>2. \A o \in Ops : /\ ops'[o].status = ops[o].status /\ ops'[o].token = ops[o].token
                         /\ ops'[o].leased = ops[o].leased
      <4>1. ops \in [Ops -> OpType] /\ \A o \in Ops : ops[o] \in OpType
        BY DEF EInv, TInv, TypeOK
      <4>2. CASE UNCHANGED ops
        BY <4>2
      <4>3. CASE \E n : ops' = [ops EXCEPT ![job[w].op].reserved = n]
        BY <4>1, <4>3 DEF OpType
      <4> QED BY <2>3, <4>2, <4>3 DEF Reserve, Invoke, InvokeThrows, Complete, Release
    <3>3. \A v \in Workers : job'[v].op = job[v].op /\ job'[v].token = job[v].token
      <4>1. job \in [Workers -> JobType] /\ \A v \in Workers : job[v] \in JobType
        BY DEF EInv, TInv, TypeOK
      <4>2. CASE Reserve(w)
        BY <4>1, <4>2 DEF Reserve, JobType
      <4>3. CASE Invoke(w)
        BY <4>1, <4>3 DEF Invoke, JobType
      <4>4. CASE Complete(w)
        BY <4>1, <4>4 DEF Complete, JobType
      <4> QED BY <2>3, <4>2, <4>3, <4>4 DEF InvokeThrows, Release
    <3>4. \A v \in Workers : Active(v)' <=> Active(v)
      BY <2>3 DEF Reserve, Invoke, InvokeThrows, Complete, Release, Goto, Active, EInv, TInv,
           TypeOK
    <3> QED BY <1>1, <3>1, <3>2, <3>3, <3>4, QuietExclusion
  <2>4. CASE Commit(w) \/ Fail(w) \/ Crash(w)
    <3>1. /\ tokens' = tokens /\ pc' = [pc EXCEPT ![w] = "idle"]
          /\ job' = [job EXCEPT ![w] = NoJob]
      BY <2>4 DEF Commit, Fail, Crash, Goto
    <3>2. Active(w) \/ ops' = ops
      BY <2>4 DEF Commit, Fail, Crash, Active
    <3>3. \A o \in Ops : ops'[o].token = ops[o].token /\ (o # job[w].op => ops'[o] = ops[o])
      BY <2>4 DEF Commit, Fail, Crash, EInv, TInv, TypeOK, OpType
    <3> QED BY <1>1, <3>1, <3>2, <3>3, EndExclusion
  <2> QED BY <1>2, <2>1, <2>2, <2>3, <2>4 DEF Attempt
<1>3. CASE \E o \in Ops : LeaseExpires(o)
  BY <1>1, <1>3, LeaseExclusion
<1>4. CASE UNCHANGED <<ops, tokens, pc, job>>
  BY <1>1, <1>4, QuietExclusion DEF Active
<1> QED BY <1>2, <1>3, <1>4 DEF Next, vars, CaptureOutside, UnchangedOps, Follow, Emit,
        ClaimWebhook, ReadForSync, Poll, Flush, ReleaseWebhook, LoseWebhook

LEMMA EInvariance == ASSUME LeaseCovers PROVE Spec => []EInv
<1>1. Init => EInv
  BY InitTInv DEF Init, EInv, TokensAreOwned, AttemptsHold, Active, NoJob
<1> QED BY <1>1, NextExclusion, PTL DEF Spec

\* Two attempts at one operation never run at a time, however many workers retry
\* it, as long as a lease outlives its attempt.
THEOREM AttemptsExclude == ASSUME LeaseCovers PROVE Spec => []SingleAttempt
BY EInvariance, Exclusion, PTL

=============================================================================
