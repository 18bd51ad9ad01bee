------------------------ MODULE PaymentLedgerProofs ------------------------
(***************************************************************************)
(* The capture ledger of PaymentOperations for any number of captures and  *)
(* workers, any amounts and any webhooks and polls: it stays within the    *)
(* authorised amount; with an exact provider every charge keeps its slice, *)
(* the ledger is the sum of the slices, and the charges together stay      *)
(* within the authorised amount.  All assume leases that cover their       *)
(* attempts, and calls that took nothing when they throw; without them TLC *)
(* finds charges that no slice covers and that exceed the authorisation.   *)
(***************************************************************************)
EXTENDS PaymentOperationsProofs, FiniteSums

Definite == LeaseCovers /\ Failures = "definite"

-----------------------------------------------------------------------------
(* The inductive invariant *)

\* What the provider took under an operation fits the slice the operation holds;
\* only captures hold slices.
SlicesCover ==
    \A o \in Ops :
        /\ money.charged[o] <= ops[o].reserved
        /\ ExactProvider /\ money.charged[o] > 0 => ops[o].reserved = money.charged[o]
        /\ Kind[o] # "capture" => ops[o].reserved = 0

\* What an attempt remembers of its slice is what its operation's row holds, an
\* attempt about to reserve holds none, and one about to release took nothing.
Knows(w) ==
    /\ pc[w] = "reserve" => Kind[job[w].op] = "capture" /\ ops[job[w].op].reserved = 0
    /\ pc[w] \in {"invoke", "complete", "commit", "release"} =>
           /\ job[w].reserved = ops[job[w].op].reserved
           /\ Kind[job[w].op] = "capture" => ops[job[w].op].reserved > 0
    /\ pc[w] \in {"complete", "commit"} /\ Kind[job[w].op] = "capture" =>
           job[w].got = money.charged[job[w].op]
    /\ pc[w] = "release" => money.charged[job[w].op] = 0

\* The ledger, and every snapshot of it a completion may write from.
Ceiling == txn.captured <= Authorized /\ \A w \in Workers : job[w].txn.captured <= Authorized

SInv == EInv /\ SlicesCover /\ (\A w \in Workers : Knows(w)) /\ Ceiling

\* The ranges the arithmetic below needs.
LEMMA Ranges ==
    ASSUME TInv
    PROVE  /\ Authorized \in Nat /\ txn.captured \in Nat
           /\ \A o \in Ops : ops[o].reserved \in 0..Authorized /\ money.charged[o] \in Nat
           /\ \A w \in Workers : /\ job[w].reserved \in 0..Authorized /\ job[w].got \in Nat
                                 /\ job[w].txn \in TxnType /\ job[w].txn.captured \in Nat
BY OperationsAssumption DEF TInv, TypeOK, TxnType, OpType, JobType, MoneyType

\* The other attempts know what they knew when their operations are left alone.
LEMMA OthersKnow ==
    ASSUME SInv, NEW w \in Workers, NEW v \in Workers \ {w},
           job'[v] = job[v], pc'[v] = pc[v],
           Active(v) => /\ ops'[job[v].op].reserved = ops[job[v].op].reserved
                        /\ money'.charged[job[v].op] = money.charged[job[v].op]
    PROVE  Knows(v)'
BY DEF SInv, Knows, Active

\* An attempt that changes nothing but its own operation keeps away from theirs.
LEMMA OwnOperation ==
    ASSUME SInv, NEW w \in Workers, NEW v \in Workers \ {w}, Active(w), Active(v)
    PROVE  job[v].op # job[w].op /\ job[v].op \in Ops /\ job[w].op \in Ops
BY Exclusion DEF SInv, SingleAttempt, EInv, TInv, JobsAreSound, Active

-----------------------------------------------------------------------------
(* One lemma per step that touches a slice, a charge or the ledger *)

LEMMA PrepareKeeps ==
    ASSUME SInv, EInv', NEW w \in Workers, Prepare(w) PROVE SInv'
<1> DEFINE o == job[w].op
<1> USE DEF SInv, EInv
<1>1. o \in Ops /\ ops \in [Ops -> OpType] /\ job \in [Workers -> JobType]
      /\ pc[w] = "prepare"
  BY DEF TInv, TypeOK, JobsAreSound, Prepare
<1>2. \A p \in Ops : ops'[p].reserved = ops[p].reserved
  BY <1>1 DEF Prepare, OpType
<1>3. \A v \in Workers \ {w} : job'[v] = job[v] /\ pc'[v] = pc[v]
  BY <1>1 DEF Prepare, Goto, TInv, TypeOK
<1>4. SlicesCover'
  BY <1>2 DEF SlicesCover, Prepare
<1>5. Ceiling'
  <2>1. job'[w].txn = job[w].txn \/ job'[w].txn = NoJob.txn
    BY <1>1 DEF Prepare, JobType
  <2> QED BY <1>3, <2>1, Ranges DEF Ceiling, Prepare, NoJob
<1>6. Knows(w)'
  <2>1. CASE pc'[w] = "idle"
    BY <2>1 DEF Knows
  <2>2. CASE pc'[w] # "idle"
    <3>1. /\ job'[w].op = o /\ job'[w].reserved = ops[o].reserved
          /\ pc'[w] = IF Kind[o] = "capture" /\ ops[o].reserved = 0 THEN "reserve" ELSE "invoke"
      BY <1>1, <2>2 DEF Prepare, Goto, JobType, TInv, TypeOK
    <3>2. Kind[o] = "capture" /\ ops[o].reserved # 0 => ops[o].reserved > 0
      BY <1>1, Ranges
    <3> QED BY <1>1, <1>2, <3>1, <3>2 DEF Knows
  <2> QED BY <2>1, <2>2
<1>7. \A v \in Workers \ {w} : Knows(v)'
  <2> SUFFICES ASSUME NEW v \in Workers \ {w} PROVE Knows(v)'
    OBVIOUS
  <2>1. Active(v) => job[v].op \in Ops
    BY DEF Active, TInv, JobsAreSound
  <2> QED BY <1>2, <1>3, <2>1, OthersKnow DEF Prepare
<1> QED BY <1>4, <1>5, <1>6, <1>7

LEMMA ReserveKeeps ==
    ASSUME SInv, EInv', NEW w \in Workers, Reserve(w) PROVE SInv'
<1> DEFINE o == job[w].op
           t == job[w].txn
<1> USE DEF SInv, EInv
<1>1. /\ o \in Ops /\ ops \in [Ops -> OpType] /\ job \in [Workers -> JobType] /\ t \in TxnType
      /\ pc[w] = "reserve" /\ Active(w) /\ txn \in TxnType
  BY Ranges DEF TInv, TypeOK, JobsAreSound, Reserve, Active
<1>2. \A v \in Workers \ {w} : job'[v] = job[v] /\ pc'[v] = pc[v]
  BY <1>1 DEF Reserve, Goto, TInv, TypeOK
<1>3. \A p \in Ops \ {o} : ops'[p] = ops[p]
  BY <1>1 DEF Reserve
<1>4. \A v \in Workers \ {w} : Knows(v)'
  BY <1>1, <1>2, <1>3, OthersKnow, OwnOperation DEF Reserve
<1>5. CASE ~Reserves(o, t)
  <2>1. pc'[w] = "fail" /\ UNCHANGED <<txn, ops, job, money>>
    BY <1>1, <1>5 DEF Reserve, Goto, TInv, TypeOK
  <2> QED BY <1>4, <2>1 DEF Knows, SlicesCover, Ceiling
<1>6. CASE Reserves(o, t)
  <2> DEFINE n == Requested(o, t)
  <2>1. n \in 1..Authorized /\ t.captured + n <= Authorized /\ t.captured + n \in Nat
    BY <1>1, <1>6, RequestedType DEF Reserves
  <2>2. /\ ops'[o].reserved = n /\ job'[w].reserved = n /\ job'[w].op = o
        /\ job'[w].txn = t /\ pc'[w] = "invoke" /\ money' = money
    BY <1>1, <1>6 DEF Reserve, Goto, OpType, JobType, TInv, TypeOK
  <2>3. txn'.captured = t.captured + n
    BY <1>1, <1>6 DEF Reserve, TxnType
  <2>4. Kind[o] = "capture" /\ money.charged[o] = 0
    BY <1>1, <1>6, Ranges DEF Reserves, SlicesCover, Knows
  <2>5. SlicesCover'
    BY <1>3, <2>1, <2>2, <2>4 DEF SlicesCover
  <2>6. Ceiling'
    BY <1>2, <2>1, <2>2, <2>3 DEF Ceiling
  <2>7. Knows(w)'
    BY <2>1, <2>2 DEF Knows
  <2> QED BY <1>4, <2>5, <2>6, <2>7
<1> QED BY <1>5, <1>6

LEMMA InvokeKeeps ==
    ASSUME SInv, EInv', NEW w \in Workers, Invoke(w) PROVE SInv'
<1> DEFINE o == job[w].op
<1> USE DEF SInv, EInv
<1>1. /\ o \in Ops /\ job \in [Workers -> JobType] /\ money \in MoneyType
      /\ pc[w] = "invoke" /\ Active(w)
  BY DEF TInv, TypeOK, JobsAreSound, Invoke, Active
<1>2. PICK n \in Chargeable(w) :
        Executes(w, n) /\ job' = [job EXCEPT ![w].got = n, ![w].result = Outcome(o)]
  BY DEF Invoke
<1>3. /\ pc'[w] = "complete" /\ UNCHANGED <<txn, ops>>
      /\ \A v \in Workers \ {w} : job'[v] = job[v] /\ pc'[v] = pc[v]
  BY <1>1, <1>2 DEF Invoke, Goto, TInv, TypeOK
<1>4. /\ job'[w].got = n /\ job'[w].op = o /\ job'[w].reserved = job[w].reserved
      /\ job'[w].txn = job[w].txn
  BY <1>1, <1>2 DEF JobType
<1>5. \A p \in Ops \ {o} : money'.charged[p] = money.charged[p]
  BY <1>1, <1>2, OperationsAssumption DEF Executes, MoneyType
<1>6. ASSUME Kind[o] = "capture" PROVE SlicesCover' /\ Knows(w)'
  <2>1. money'.charged[o] = n
    BY <1>1, <1>2, <1>6 DEF Executes, MoneyType
  <2>2. /\ n \in Nat /\ n <= ops[o].reserved
        /\ ExactProvider /\ n > 0 => ops[o].reserved = n
    <3>1. job[w].reserved = ops[o].reserved /\ n \in Takes(o, job[w].reserved)
      BY <1>1, <1>2, <1>6 DEF Knows, Chargeable
    <3>2. /\ ops[o].reserved \in Nat /\ money.charged[o] \in Nat
          /\ money.charged[o] <= ops[o].reserved
          /\ ExactProvider /\ money.charged[o] > 0 => ops[o].reserved = money.charged[o]
      BY <1>1, Ranges DEF SlicesCover
    <3> QED BY <3>1, <3>2 DEF Takes
  <2>3. SlicesCover'
    BY <1>3, <1>5, <1>6, <2>1, <2>2 DEF SlicesCover
  <2>4. Knows(w)'
    BY <1>1, <1>3, <1>4, <2>1 DEF Knows
  <2> QED BY <2>3, <2>4
<1>7. ASSUME Kind[o] # "capture" PROVE SlicesCover' /\ Knows(w)'
  <2>1. money'.charged = money.charged
    BY <1>1, <1>2, <1>7, OperationsAssumption DEF Executes, MoneyType
  <2> QED BY <1>1, <1>3, <1>4, <1>7, <2>1 DEF SlicesCover, Knows
<1>8. \A v \in Workers \ {w} : Knows(v)'
  BY <1>1, <1>3, <1>5, OthersKnow, OwnOperation
<1>9. Ceiling'
  BY <1>3, <1>4 DEF Ceiling
<1> QED BY <1>6, <1>7, <1>8, <1>9

\* A call that throws took nothing: this is where definite failures are needed.
LEMMA InvokeThrowsKeeps ==
    ASSUME Definite, SInv, EInv', NEW w \in Workers, InvokeThrows(w) PROVE SInv'
<1> USE DEF SInv, EInv
<1>1. /\ money.charged[job[w].op] = 0 /\ UNCHANGED <<txn, ops, job, money>>
      /\ pc'[w] \in {"release", "fail"} /\ pc[w] = "invoke"
      /\ pc'[w] = "release" => job[w].reserved > 0
      /\ \A v \in Workers \ {w} : pc'[v] = pc[v]
  BY DEF InvokeThrows, Definite, Goto, TInv, TypeOK
<1>2. Knows(w)'
  BY <1>1 DEF Knows
<1>3. \A v \in Workers \ {w} : Knows(v)'
  BY <1>1, OthersKnow
<1> QED BY <1>1, <1>2, <1>3 DEF SlicesCover, Ceiling

LEMMA CompleteKeeps ==
    ASSUME SInv, EInv', NEW w \in Workers, Complete(w) PROVE SInv'
<1> USE DEF SInv, EInv
<1>1. /\ job \in [Workers -> JobType] /\ pc[w] = "complete" /\ UNCHANGED <<txn, ops, money>>
      /\ pc'[w] \in {"commit", "fail"}
      /\ \A v \in Workers \ {w} : job'[v] = job[v] /\ pc'[v] = pc[v]
  BY DEF Complete, Goto, TInv, TypeOK
<1>2. /\ job'[w].op = job[w].op /\ job'[w].reserved = job[w].reserved
      /\ job'[w].got = job[w].got /\ job'[w].txn \in {txn, job[w].txn}
  BY <1>1 DEF Complete, JobType
<1>3. Knows(w)'
  BY <1>1, <1>2 DEF Knows
<1>4. \A v \in Workers \ {w} : Knows(v)'
  BY <1>1, OthersKnow
<1>5. Ceiling'
  BY <1>1, <1>2 DEF Ceiling
<1> QED BY <1>1, <1>3, <1>4, <1>5 DEF SlicesCover

\* A settlement gives back at most what the attempt reserved, and never adds.
LEMMA CommitKeeps ==
    ASSUME SInv, EInv', NEW w \in Workers, Commit(w) PROVE SInv'
<1> DEFINE o == job[w].op
<1> USE DEF SInv, EInv
<1>1. /\ o \in Ops /\ ops \in [Ops -> OpType] /\ job \in [Workers -> JobType]
      /\ pc[w] = "commit" /\ Active(w)
  BY DEF TInv, TypeOK, JobsAreSound, Commit, Active
<1>2. /\ \A p \in Ops : ops'[p].reserved = ops[p].reserved
      /\ money' = money /\ pc'[w] = "idle" /\ job'[w] = NoJob
      /\ \A v \in Workers \ {w} : job'[v] = job[v] /\ pc'[v] = pc[v]
  BY <1>1 DEF Commit, Goto, OpType, TInv, TypeOK
<1>3. Kind[o] = "capture" => Settled(w) <= Authorized
  <2> SUFFICES ASSUME Kind[o] = "capture" PROVE Settled(w) <= Authorized
    OBVIOUS
  <2>1. job[w].got <= job[w].reserved
    BY <1>1 DEF Knows, SlicesCover
  <2>2. job[w].txn.captured <= Authorized /\ txn.captured <= Authorized
    BY DEF Ceiling
  <2> QED BY <2>1, <2>2, Ranges DEF Settled, Minus
<1>4. txn'.captured \in {Settled(w), txn.captured}
      /\ (Kind[o] # "capture" => txn'.captured = txn.captured)
  BY DEF Commit
<1>5. Ceiling'
  BY <1>2, <1>3, <1>4, Ranges DEF Ceiling, NoJob
<1>6. Knows(w)'
  BY <1>2 DEF Knows
<1>7. \A v \in Workers \ {w} : Knows(v)'
  BY <1>1, <1>2, OthersKnow, OwnOperation
<1> QED BY <1>2, <1>5, <1>6, <1>7 DEF SlicesCover

LEMMA ReleaseKeeps ==
    ASSUME SInv, EInv', NEW w \in Workers, Release(w) PROVE SInv'
<1> DEFINE o == job[w].op
<1> USE DEF SInv, EInv
<1>1. /\ o \in Ops /\ ops \in [Ops -> OpType] /\ pc[w] = "release" /\ Active(w)
      /\ txn \in TxnType
  BY DEF TInv, TypeOK, JobsAreSound, Release, Active
<1>2. /\ UNCHANGED <<job, money>> /\ pc'[w] = "fail"
      /\ \A v \in Workers \ {w} : pc'[v] = pc[v]
      /\ \A p \in Ops \ {o} : ops'[p] = ops[p]
  BY <1>1 DEF Release, Goto, TInv, TypeOK
<1>3. money.charged[o] = 0
  BY <1>1 DEF Knows
<1>4. ops'[o].reserved \in {0, ops[o].reserved} /\ txn'.captured <= Authorized
  BY <1>1, Ranges DEF Release, OpType, TxnType, Minus, Ceiling
<1>5. SlicesCover'
  BY <1>2, <1>3, <1>4, Ranges DEF SlicesCover
<1>6. Knows(w)'
  BY <1>2 DEF Knows
<1>7. \A v \in Workers \ {w} : Knows(v)'
  BY <1>1, <1>2, OthersKnow, OwnOperation
<1> QED BY <1>2, <1>4, <1>5, <1>6, <1>7 DEF Ceiling

\* Steps that give up an attempt, or start one that holds nothing yet.
LEMMA QuietKeeps ==
    ASSUME SInv, EInv', NEW w \in Workers,
           Fail(w) \/ Crash(w) \/ \E o \in Ops : Read(w, o)
    PROVE  SInv'
<1> USE DEF SInv, EInv
<1>1. /\ \A p \in Ops : ops'[p].reserved = ops[p].reserved
      /\ UNCHANGED <<txn, money>>
  <2>1. CASE Fail(w)
    <3>1. ops \in [Ops -> OpType] /\ \A p \in Ops : ops[p] \in OpType
      BY DEF TInv, TypeOK
    <3> QED BY <2>1, <3>1 DEF Fail, OpType
  <2> QED BY <2>1 DEF Crash, Read
<1>2. /\ pc'[w] \in {"idle", "prepare"} /\ job'[w].txn \in {NoJob.txn, txn}
      /\ \A v \in Workers \ {w} : job'[v] = job[v] /\ pc'[v] = pc[v]
  <2>1. pc \in [Workers -> {"idle", "prepare", "reserve", "invoke", "complete", "commit",
                            "release", "fail"}] /\ job \in [Workers -> JobType]
    BY DEF TInv, TypeOK
  <2>2. CASE Fail(w)
    BY <2>1, <2>2 DEF Fail, Goto
  <2>3. CASE Crash(w)
    BY <2>1, <2>3 DEF Crash, Goto
  <2>4. CASE \E o \in Ops : Read(w, o)
    BY <2>1, <2>4 DEF Read, Goto, NoJob
  <2> QED BY <2>2, <2>3, <2>4
<1>3. Knows(w)'
  BY <1>2 DEF Knows
<1>4. \A v \in Workers \ {w} : Knows(v)'
  <2> SUFFICES ASSUME NEW v \in Workers \ {w} PROVE Knows(v)'
    OBVIOUS
  <2>1. Active(v) => job[v].op \in Ops
    BY DEF Active, TInv, JobsAreSound
  <2> QED BY <1>1, <1>2, <2>1, OthersKnow
<1>5. Ceiling'
  BY <1>1, <1>2, Ranges DEF Ceiling, NoJob
<1> QED BY <1>1, <1>3, <1>4, <1>5 DEF SlicesCover

\* Leases, webhooks, polls and captures elsewhere: only a flush moves the ledger,
\* and it moves it to the ceiling.
LEMMA WorldKeeps ==
    ASSUME SInv, EInv',
           (\E o \in Ops : LeaseExpires(o)) \/ (\E k \in Keys : Follow(k)) \/ CaptureOutside
    PROVE  SInv'
<1> USE DEF SInv, EInv
<1>1. /\ UNCHANGED <<pc, job>> /\ \A p \in Ops : ops'[p].reserved = ops[p].reserved
      /\ money'.charged = money.charged
      /\ txn'.captured \in {txn.captured, Authorized}
  <2>1. CASE \E o \in Ops : LeaseExpires(o)
    BY <2>1 DEF LeaseExpires, TInv, TypeOK, OpType
  <2>2. CASE \E k \in Keys : Follow(k)
    BY <2>2 DEF Follow, Emit, ClaimWebhook, ReadForSync, Poll, Flush, ReleaseWebhook,
         LoseWebhook, UnchangedOps
  <2>3. CASE CaptureOutside
    BY <2>3 DEF CaptureOutside, UnchangedOps, TInv, TypeOK, MoneyType
  <2> QED BY <2>1, <2>2, <2>3
<1>2. \A w \in Workers : Active(w) => job[w].op \in Ops
  BY DEF Active, TInv, JobsAreSound
<1>3. \A w \in Workers : Knows(w)'
  BY <1>1, <1>2 DEF Knows, Active
<1> QED BY <1>1, <1>3, Ranges DEF SlicesCover, Ceiling

-----------------------------------------------------------------------------

LEMMA NextKeeps == ASSUME Definite PROVE SInv /\ [Next]_vars => SInv'
<1> SUFFICES ASSUME SInv, [Next]_vars PROVE SInv'
  OBVIOUS
<1>1. EInv'
  BY NextExclusion DEF SInv, Definite
<1>2. ASSUME NEW w \in Workers, Attempt(w) PROVE SInv'
  BY <1>1, <1>2, PrepareKeeps, ReserveKeeps, InvokeKeeps, InvokeThrowsKeeps, CompleteKeeps,
     CommitKeeps, ReleaseKeeps, QuietKeeps DEF Attempt
<1>3. CASE UNCHANGED vars
  BY <1>1, <1>3 DEF vars, SInv, SlicesCover, Knows, Ceiling
<1> QED BY <1>1, <1>2, <1>3, WorldKeeps DEF Next

LEMMA InitKeeps == Init => SInv
<1> SUFFICES ASSUME Init PROVE SInv
  OBVIOUS
<1>1. EInv
  BY InitTInv DEF Init, EInv, TokensAreOwned, AttemptsHold, Active, NoJob
<1> QED BY <1>1, OperationsAssumption DEF Init, SInv, SlicesCover, Knows, Ceiling, NoJob

LEMMA SInvariance == ASSUME Definite PROVE Spec => []SInv
BY InitKeeps, NextKeeps, PTL DEF Spec

\* The ledger never passes the authorised amount, whatever is captured when, by
\* whom and how often, with settlements, releases and webhooks in between.
THEOREM LedgerIsBounded == ASSUME Definite PROVE Spec => []LedgerWithinAuthorization
BY SInvariance, PTL DEF SInv, Ceiling, LedgerWithinAuthorization

\* No charge is forgotten: a provider that takes what it is asked for never has
\* more or less of an operation than the slice its row holds.
THEOREM ChargesAreHeld == ASSUME Definite, ExactProvider PROVE Spec => []SliceHeld
<1>1. SInv => SliceHeld
  BY DEF SInv, SlicesCover, SliceHeld
<1> QED BY <1>1, SInvariance, PTL

-----------------------------------------------------------------------------
(* Sums over the operations *)

SumOf(f) == CHOOSE g : IsSum(g, f, Ops)
Reserved == [o \in Ops |-> ops[o].reserved]

\* The slices held, all operations together, and what the provider charged.
Slices == SumOf(Reserved)[Ops]
Charges == SumOf(money.charged)[Ops]

LEMMA SumOfIsSum ==
    ASSUME IsFiniteSet(Ops), NEW f \in [Ops -> Nat] PROVE IsSum(SumOf(f), f, Ops)
BY SumExists DEF SumOf

LEMMA ReservedType == ASSUME TInv PROVE Reserved \in [Ops -> Nat] /\ money.charged \in [Ops -> Nat]
<1>1. \A o \in Ops : ops[o].reserved \in Nat
  BY Ranges
<1>2. money.charged \in [Ops -> Nat]
  BY DEF TInv, TypeOK, MoneyType
<1> QED BY <1>1, <1>2 DEF Reserved

\* What the module sums with the folds of the community modules is these sums.
LEMMA ChargesAreFolded == TotalCaptured = Charges + money.outside
BY DEF TotalCaptured, Charges, MapThenSumSet, MapThenFoldSet, SumOf, IsSum, Pick

LEMMA SlicesAreFolded == MapThenSumSet(LAMBDA o : ops[o].reserved, Ops) = Slices
<1> DEFINE ByRow(g) ==
             [s \in SUBSET Ops |->
                IF s = {} THEN 0
                ELSE ops[CHOOSE x \in s : TRUE].reserved + g[s \ {CHOOSE x \in s : TRUE}]]
           ByField(g) ==
             [s \in SUBSET Ops |->
                IF s = {} THEN 0
                ELSE Reserved[CHOOSE x \in s : TRUE] + g[s \ {CHOOSE x \in s : TRUE}]]
<1>1. \A s \in SUBSET Ops :
        s # {} => Reserved[CHOOSE x \in s : TRUE] = ops[CHOOSE x \in s : TRUE].reserved
  BY DEF Reserved
<1>2. ASSUME NEW g PROVE ByRow(g) = ByField(g)
  BY <1>1
<1>3. MapThenSumSet(LAMBDA o : ops[o].reserved, Ops) = (CHOOSE g : g = ByRow(g))[Ops]
  BY DEF MapThenSumSet, MapThenFoldSet
<1>4. SumOf(Reserved) = CHOOSE g : g = ByField(g)
  BY DEF SumOf, IsSum, Pick
<1>5. (CHOOSE g : g = ByRow(g)) = (CHOOSE g : g = ByField(g))
  <2> HIDE DEF ByRow, ByField
  <2> QED BY <1>2
<1> QED BY <1>3, <1>4, <1>5 DEF Slices

LEMMA SlicesType == ASSUME IsFiniteSet(Ops), TInv PROVE Slices \in Nat
<1>1. \A o \in Ops : Reserved[o] \in Nat
  BY ReservedType
<1>2. IsSum(SumOf(Reserved), Reserved, Ops)
  BY ReservedType, SumOfIsSum
<1>3. \A s \in SUBSET Ops : SumOf(Reserved)[s] \in Nat
  BY <1>1, <1>2, SumNat
<1> QED BY <1>3 DEF Slices

\* The charges stay within the slices, one by one and so together.
LEMMA ChargesWithinSlices ==
    ASSUME IsFiniteSet(Ops), TInv, SlicesCover PROVE Charges \in Nat /\ Charges <= Slices
<1>1. \A o \in Ops : /\ money.charged[o] \in Nat /\ Reserved[o] \in Nat
                     /\ money.charged[o] <= Reserved[o]
  BY ReservedType DEF SlicesCover, Reserved
<1>2. /\ IsSum(SumOf(Reserved), Reserved, Ops)
      /\ IsSum(SumOf(money.charged), money.charged, Ops)
  BY ReservedType, SumOfIsSum
<1>3. SumOf(money.charged)[Ops] <= SumOf(Reserved)[Ops]
  BY <1>1, <1>2, SumMono
<1>4. \A s \in SUBSET Ops : SumOf(money.charged)[s] \in Nat
  BY <1>1, <1>2, SumNat
<1> QED BY <1>3, <1>4 DEF Charges, Slices

\* Two summands that differ in one operation by n have sums that differ by n.
LEMMA OneDiffers ==
    ASSUME IsFiniteSet(Ops), NEW f \in [Ops -> Nat], NEW e \in [Ops -> Nat], NEW o \in Ops,
           NEW n \in Nat, e[o] = f[o] + n, \A p \in Ops \ {o} : e[p] = f[p]
    PROVE  SumOf(e)[Ops] = SumOf(f)[Ops] + n
<1>1. IsSum(SumOf(f), f, Ops) /\ IsSum(SumOf(e), e, Ops)
  BY SumOfIsSum
<1>2. \A x \in Ops : f[x] \in Nat /\ e[x] \in Nat
  OBVIOUS
<1> QED BY <1>1, <1>2, SumMore

LEMMA ReservedTypeNext == ASSUME TInv' PROVE Reserved' \in [Ops -> Nat]
<1>1. \A p \in Ops : ops'[p].reserved \in 0..Authorized
  BY DEF TInv, TypeOK, OpType
<1> QED BY <1>1, OperationsAssumption DEF Reserved

\* A step that leaves every slice alone leaves their sum alone, and one that adds
\* a slice, or drops one, changes the sum by it.
LEMMA SlicesKept ==
    ASSUME \A p \in Ops : ops'[p].reserved = ops[p].reserved PROVE Slices' = Slices
<1>1. Reserved' = Reserved
  BY DEF Reserved
<1> QED BY <1>1 DEF Slices

LEMMA SliceAdded ==
    ASSUME IsFiniteSet(Ops), TInv, TInv', NEW o \in Ops, NEW n \in Nat,
           ops'[o].reserved = ops[o].reserved + n,
           \A p \in Ops \ {o} : ops'[p] = ops[p]
    PROVE  Slices' = Slices + n
<1>1. Reserved \in [Ops -> Nat] /\ Reserved' \in [Ops -> Nat]
  BY ReservedType, ReservedTypeNext
<1>2. Reserved'[o] = Reserved[o] + n /\ \A p \in Ops \ {o} : Reserved'[p] = Reserved[p]
  BY DEF Reserved
<1>3. SumOf(Reserved')[Ops] = SumOf(Reserved)[Ops] + n
  <2> HIDE DEF Reserved
  <2> QED BY <1>1, <1>2, OneDiffers
<1> QED BY <1>3 DEF Slices

LEMMA SliceDropped ==
    ASSUME IsFiniteSet(Ops), TInv, TInv', NEW o \in Ops, ops'[o].reserved = 0,
           \A p \in Ops \ {o} : ops'[p] = ops[p]
    PROVE  Slices = Slices' + ops[o].reserved
<1>1. Reserved \in [Ops -> Nat] /\ Reserved' \in [Ops -> Nat]
  BY ReservedType, ReservedTypeNext
<1>2. /\ Reserved[o] = Reserved'[o] + ops[o].reserved /\ ops[o].reserved \in Nat
      /\ \A p \in Ops \ {o} : Reserved[p] = Reserved'[p]
  BY <1>1 DEF Reserved
<1>3. SumOf(Reserved)[Ops] = SumOf(Reserved')[Ops] + ops[o].reserved
  BY <1>1, <1>2, OneDiffers
<1> QED BY <1>3 DEF Slices

-----------------------------------------------------------------------------
(* The ledger is the slices *)

\* A capture that was answered took something; with an exact provider that is the
\* whole slice, so its completion leaves the ledger where it is.
Took(w) ==
    pc[w] \in {"complete", "commit"} /\ Kind[job[w].op] = "capture" =>
        money.charged[job[w].op] > 0

\* Nothing is captured elsewhere unless somebody may.
NothingElsewhere == ~OutsideCapture => money.outside = 0

\* The slices never exceed the ledger; until a report raises it they are equal.
Backed == Slices <= txn.captured /\ (~confirmed => txn.captured = Slices)

LInv == SInv /\ (\A w \in Workers : Took(w)) /\ NothingElsewhere /\ Backed

\* What a step leaves alone of the ledger, the slices and the confirmation.
LEMMA BackedKept ==
    ASSUME Backed, txn'.captured = txn.captured, confirmed' = confirmed,
           \A p \in Ops : ops'[p].reserved = ops[p].reserved
    PROVE  Backed'
BY SlicesKept DEF Backed

\* A completion took what a call before it took.
LEMMA TookKept ==
    ASSUME LInv, ExactProvider, SInv', NEW w \in Workers, Attempt(w)
    PROVE  \A v \in Workers : Took(v)'
<1> USE DEF LInv, SInv, EInv
<1>1. /\ \A v \in Workers \ {w} : job'[v] = job[v] /\ pc'[v] = pc[v]
      /\ job \in [Workers -> JobType]
      /\ pc \in [Workers -> {"idle", "prepare", "reserve", "invoke", "complete", "commit",
                             "release", "fail"}]
  <2>1. /\ job \in [Workers -> JobType]
        /\ pc \in [Workers -> {"idle", "prepare", "reserve", "invoke", "complete", "commit",
                               "release", "fail"}]
    BY DEF TInv, TypeOK
  <2> QED BY <2>1
         DEF Attempt, Read, Prepare, Reserve, Invoke, InvokeThrows, Complete, Commit, Release,
             Fail, Crash, Goto
<1>2. ASSUME NEW v \in Workers \ {w} PROVE Took(v)'
  <2> SUFFICES ASSUME pc[v] \in {"complete", "commit"}, Kind[job[v].op] = "capture"
               PROVE  money'.charged[job[v].op] > 0
    BY <1>1 DEF Took
  <2>1. money.charged[job[v].op] > 0 /\ Active(v)
    BY DEF Took, Active
  <2>2. CASE Active(w)
    <3>1. job[v].op # job[w].op /\ job[v].op \in Ops /\ job[w].op \in Ops
      BY <2>1, <2>2, OwnOperation
    <3>2. money' = money \/ \E n \in Chargeable(w) : Executes(w, n)
      BY DEF Attempt, Read, Prepare, Reserve, Invoke, InvokeThrows, Complete, Commit, Release,
             Fail, Crash
    <3>3. money'.charged[job[v].op] = money.charged[job[v].op]
      <4>1. money \in MoneyType /\ Kind[job[w].op] \in {"capture", "refund", "cancel"}
        BY <3>1, OperationsAssumption DEF TInv, TypeOK
      <4> QED BY <3>1, <3>2, <4>1 DEF Executes, MoneyType
    <3> QED BY <2>1, <3>3
  <2>3. CASE ~Active(w)
    <3>1. money' = money
      BY <2>3 DEF Active, Attempt, Read, Prepare, Reserve, Invoke, InvokeThrows, Complete,
           Commit, Release, Fail, Crash
    <3> QED BY <2>1, <3>1
  <2> QED BY <2>2, <2>3
<1>3. Took(w)'
  <2>1. CASE Invoke(w)
    <3> DEFINE o == job[w].op
    <3>1. PICK n \in Chargeable(w) :
            Executes(w, n) /\ job' = [job EXCEPT ![w].got = n, ![w].result = Outcome(o)]
      BY <2>1 DEF Invoke
    <3>2. job'[w].op = o /\ o \in Ops /\ pc[w] = "invoke" /\ money \in MoneyType
      BY <1>1, <2>1, <3>1 DEF JobType, Invoke, TInv, JobsAreSound, TypeOK
    <3> SUFFICES ASSUME Kind[o] = "capture" PROVE money'.charged[o] > 0
      BY <3>2 DEF Took
    <3>3. n > 0
      <4>1. job[w].reserved > 0 /\ money.charged[o] \in Nat
        BY <3>2, Ranges DEF Knows
      <4> QED BY <3>1, <4>1 DEF Chargeable, Takes
    <3>4. money'.charged[o] = n
      BY <3>1, <3>2 DEF Executes, MoneyType
    <3> QED BY <3>3, <3>4
  <2>2. CASE Complete(w)
    <3>1. pc[w] = "complete" /\ money' = money /\ job'[w].op = job[w].op
      BY <1>1, <2>2 DEF Complete, JobType
    <3> QED BY <3>1 DEF Took
  <2>3. CASE ~Invoke(w) /\ ~Complete(w)
    <3>1. pc'[w] \notin {"complete", "commit"}
      BY <1>1, <2>3 DEF Attempt, Read, Prepare, Reserve, InvokeThrows, Commit, Release, Fail,
           Crash, Goto
    <3> QED BY <3>1 DEF Took
  <2> QED BY <2>1, <2>2, <2>3
<1> QED BY <1>2, <1>3

\* A reservation puts its slice into the ledger and on its row.
LEMMA ReserveBacked ==
    ASSUME IsFiniteSet(Ops), LInv, TInv', NEW w \in Workers, Reserve(w) PROVE Backed'
<1> DEFINE o == job[w].op
           t == job[w].txn
           n == Requested(o, t)
<1> USE DEF LInv, SInv, EInv
<1>1. o \in Ops /\ t \in TxnType /\ ops \in [Ops -> OpType] /\ txn \in TxnType
  BY Ranges DEF TInv, TypeOK, JobsAreSound, Reserve
<1>2. CASE ~Reserves(o, t)
  BY <1>2, BackedKept DEF Reserve, UnchangedHooks
<1>3. CASE Reserves(o, t)
  <2>1. n \in Nat /\ ops[o].reserved = 0 /\ txn.captured = t.captured
    BY <1>1, <1>3, RequestedType DEF Reserves
  <2>2. /\ txn'.captured = txn.captured + n /\ confirmed' = confirmed
        /\ ops'[o].reserved = ops[o].reserved + n
        /\ \A p \in Ops \ {o} : ops'[p] = ops[p]
    BY <1>1, <1>3, <2>1 DEF Reserve, UnchangedHooks, TxnType, OpType
  <2>3. Slices' = Slices + n
    BY <1>1, <2>1, <2>2, SliceAdded
  <2>4. Slices \in Nat /\ txn.captured \in Nat
    BY SlicesType, Ranges
  <2> HIDE DEF n
  <2> QED BY <2>1, <2>2, <2>3, <2>4 DEF Backed
<1> QED BY <1>2, <1>3

\* A release takes its slice out of the ledger and off its row; the ledger covers
\* every slice, so the subtraction is exact.
LEMMA ReleaseBacked ==
    ASSUME IsFiniteSet(Ops), LInv, TInv', NEW w \in Workers, Release(w) PROVE Backed'
<1> DEFINE o == job[w].op
<1> USE DEF LInv, SInv, EInv
<1>1. o \in Ops /\ ops \in [Ops -> OpType] /\ txn \in TxnType
  BY DEF TInv, TypeOK, JobsAreSound, Release
<1>2. CASE UNCHANGED <<txn, ops>>
  BY <1>2, BackedKept DEF Release, UnchangedHooks
<1>3. CASE ~UNCHANGED <<txn, ops>>
  <2> DEFINE n == ops[o].reserved
  <2>1. /\ job[w].reserved = n /\ txn'.captured = Minus(txn.captured, n)
        /\ confirmed' = confirmed /\ ops'[o].reserved = 0
        /\ \A p \in Ops \ {o} : ops'[p] = ops[p]
    BY <1>1, <1>3 DEF Release, UnchangedHooks, TxnType, OpType
  <2>2. Slices = Slices' + n
    BY <1>1, <2>1, SliceDropped
  <2>3. Slices \in Nat /\ Slices' \in Nat /\ txn.captured \in Nat /\ n \in Nat
    <3>1. Slices' \in Nat
      <4>1. \A p \in Ops : Reserved'[p] \in Nat
        BY ReservedTypeNext
      <4>2. IsSum(SumOf(Reserved'), Reserved', Ops)
        BY ReservedTypeNext, SumOfIsSum
      <4>3. \A s \in SUBSET Ops : SumOf(Reserved')[s] \in Nat
        BY <4>1, <4>2, SumNat
      <4> QED BY <4>3 DEF Slices
    <3> QED BY <1>1, <3>1, SlicesType, Ranges
  <2> HIDE DEF n
  <2>4. txn'.captured = txn.captured - n
    BY <2>1, <2>2, <2>3 DEF Backed, Minus
  <2> QED BY <2>1, <2>2, <2>3, <2>4 DEF Backed
<1> QED BY <1>2, <1>3

\* A completion settles nothing: it got what was reserved.
LEMMA CommitBacked ==
    ASSUME ExactProvider, LInv, NEW w \in Workers, Commit(w) PROVE Backed'
<1> DEFINE o == job[w].op
<1> USE DEF LInv, SInv, EInv
<1>1. o \in Ops /\ ops \in [Ops -> OpType] /\ pc[w] = "commit"
  BY DEF TInv, TypeOK, JobsAreSound, Commit
<1>2. Kind[o] = "capture" => Settled(w) = txn.captured
  <2> SUFFICES ASSUME Kind[o] = "capture" PROVE job[w].got = job[w].reserved
    BY DEF Settled
  <2>1. job[w].got = money.charged[o] /\ money.charged[o] > 0
    BY <1>1 DEF Knows, Took
  <2>2. job[w].reserved = ops[o].reserved
    BY <1>1 DEF Knows
  <2> QED BY <1>1, <2>1, <2>2 DEF SlicesCover
<1>3. txn'.captured = txn.captured /\ confirmed' = confirmed
  BY <1>2 DEF Commit, UnchangedHooks
<1>4. \A p \in Ops : ops'[p].reserved = ops[p].reserved
  BY <1>1 DEF Commit, OpType
<1> QED BY <1>3, <1>4, BackedKept

\* The steps of an attempt that touch neither ledger nor slices.
LEMMA AttemptBacked ==
    ASSUME IsFiniteSet(Ops), ExactProvider, LInv, TInv', NEW w \in Workers, Attempt(w)
    PROVE  Backed'
<1> USE DEF LInv, SInv, EInv
<1>1. CASE Reserve(w) \/ Release(w) \/ Commit(w)
  BY <1>1, ReserveBacked, ReleaseBacked, CommitBacked
<1>2. CASE ~(Reserve(w) \/ Release(w) \/ Commit(w))
  <2>1. txn' = txn /\ confirmed' = confirmed
    BY <1>2 DEF Attempt, Read, Prepare, Invoke, InvokeThrows, Complete, Fail, Crash,
         UnchangedHooks
  <2>2. \A p \in Ops : ops'[p].reserved = ops[p].reserved
    <3>1. ops \in [Ops -> OpType] /\ (Prepare(w) \/ Fail(w) => job[w].op \in Ops)
      BY DEF TInv, TypeOK, JobsAreSound, Prepare, Fail
    <3>2. CASE Prepare(w)
      BY <3>1, <3>2 DEF Prepare, OpType
    <3>3. CASE Fail(w)
      BY <3>1, <3>3 DEF Fail, OpType
    <3>4. CASE ~Prepare(w) /\ ~Fail(w)
      BY <1>2, <3>4 DEF Attempt, Read, Invoke, InvokeThrows, Complete, Crash
    <3> QED BY <3>2, <3>3, <3>4
  <2> QED BY <2>1, <2>2, BackedKept
<1> QED BY <1>1, <1>2

\* Only a flush that confirms the capture of the whole amount moves the ledger
\* away from the slices, and never below them.
LEMMA WorldBacked ==
    ASSUME IsFiniteSet(Ops), LInv,
           (\E o \in Ops : LeaseExpires(o)) \/ (\E k \in Keys : Follow(k)) \/ CaptureOutside
    PROVE  Backed'
<1> USE DEF LInv, SInv, EInv
<1>1. \A p \in Ops : ops'[p].reserved = ops[p].reserved
  <2>1. ops \in [Ops -> OpType]
    BY DEF TInv, TypeOK
  <2> QED BY <2>1
         DEF LeaseExpires, Follow, Emit, ClaimWebhook, ReadForSync, Poll, Flush, ReleaseWebhook,
             LoseWebhook, CaptureOutside, UnchangedOps, OpType
<1>2. \/ txn'.captured = txn.captured /\ (~confirmed' => ~confirmed)
      \/ txn'.captured = Authorized /\ confirmed'
  <2>1. CASE \E k \in Keys : Flush(k)
    <3>1. PICK k \in Keys : Flush(k)
      BY <2>1
    <3> DEFINE raises == /\ isValidTransition(hook[k].txn.status, hook[k].status)
                         /\ hook[k].status = "captured"
               aligns == raises /\ hook[k].txn.captured < Authorized
    <3>2. txn'.captured = IF aligns THEN Authorized ELSE txn.captured
      BY <3>1 DEF Flush
    <3>3. confirmed' = (confirmed \/ raises)
      BY <3>1, Zenon DEF Flush
    <3> HIDE DEF raises
    <3> QED BY <3>2, <3>3
  <2>2. CASE ~\E k \in Keys : Flush(k)
    <3>1. txn' = txn /\ confirmed' = confirmed
      BY <2>2 DEF LeaseExpires, Follow, Emit, ClaimWebhook, ReadForSync, Poll, ReleaseWebhook,
           LoseWebhook, CaptureOutside, UnchangedHooks
    <3> QED BY <3>1
  <2> QED BY <2>1, <2>2
<1>3. Slices' = Slices /\ Slices \in Nat
  BY <1>1, SlicesKept, SlicesType
<1>4. txn.captured \in Nat /\ Authorized \in Nat /\ txn.captured <= Authorized
  BY Ranges DEF Ceiling
<1> QED BY <1>2, <1>3, <1>4 DEF Backed

LEMMA TookWorld ==
    ASSUME LInv,
           (\E o \in Ops : LeaseExpires(o)) \/ (\E k \in Keys : Follow(k)) \/ CaptureOutside
    PROVE  \A v \in Workers : Took(v)'
<1> USE DEF LInv, SInv, EInv
<1>1. UNCHANGED <<pc, job>> /\ money'.charged = money.charged
  <2>1. money \in MoneyType
    BY DEF TInv, TypeOK
  <2> QED BY <2>1
         DEF LeaseExpires, Follow, Emit, ClaimWebhook, ReadForSync, Poll, Flush, ReleaseWebhook,
             LoseWebhook, CaptureOutside, UnchangedOps, MoneyType
<1> QED BY <1>1 DEF Took

LEMMA NothingElsewhereKept == ASSUME LInv, [Next]_vars PROVE NothingElsewhere'
<1> SUFFICES ASSUME ~OutsideCapture PROVE money'.outside = money.outside
  BY DEF LInv, NothingElsewhere
<1>1. money \in MoneyType
  BY DEF LInv, SInv, EInv, TInv, TypeOK
<1>2. CASE \E w \in Workers : Attempt(w)
  <2>1. PICK w \in Workers : Attempt(w)
    BY <1>2
  <2>2. money' = money \/ \E n \in Chargeable(w) : Executes(w, n)
    BY <2>1 DEF Attempt, Read, Prepare, Reserve, Invoke, InvokeThrows, Complete, Commit,
         Release, Fail, Crash
  <2>3. CASE \E n \in Chargeable(w) : Executes(w, n)
    <3>1. pc[w] = "invoke" \/ money' = money
      BY <2>1 DEF Attempt, Read, Prepare, Reserve, Invoke, InvokeThrows, Complete, Commit,
           Release, Fail, Crash
    <3>2. pc[w] = "invoke" => Kind[job[w].op] \in {"capture", "refund", "cancel"}
      BY OperationsAssumption DEF LInv, SInv, EInv, TInv, JobsAreSound
    <3> QED BY <1>1, <2>3, <3>1, <3>2 DEF Executes, MoneyType
  <2> QED BY <2>2, <2>3
<1>3. CASE ~\E w \in Workers : Attempt(w)
  BY <1>3 DEF Next, LeaseExpires, Follow, Emit, ClaimWebhook, ReadForSync, Poll, Flush,
       ReleaseWebhook, LoseWebhook, CaptureOutside, vars
<1> QED BY <1>2, <1>3

LEMMA NextBacked ==
    ASSUME Definite, ExactProvider, IsFiniteSet(Ops) PROVE LInv /\ [Next]_vars => LInv'
<1> SUFFICES ASSUME LInv, [Next]_vars PROVE LInv'
  OBVIOUS
<1>1. SInv' /\ TInv'
  BY NextKeeps DEF LInv, SInv, EInv
<1>2. NothingElsewhere'
  BY NothingElsewhereKept
<1>3. Backed' /\ \A v \in Workers : Took(v)'
  <2>1. ASSUME NEW w \in Workers, Attempt(w) PROVE Backed' /\ \A v \in Workers : Took(v)'
    BY <1>1, <2>1, AttemptBacked, TookKept
  <2>2. CASE UNCHANGED vars
    <3>1. UNCHANGED <<txn, ops, pc, job, money, confirmed>>
      BY <2>2 DEF vars
    <3>2. Backed'
      BY <3>1, BackedKept DEF LInv
    <3> QED BY <3>1, <3>2 DEF LInv, Took
  <2>3. CASE (\E o \in Ops : LeaseExpires(o)) \/ (\E k \in Keys : Follow(k)) \/ CaptureOutside
    BY <2>3, WorldBacked, TookWorld
  <2> QED BY <2>1, <2>2, <2>3 DEF Next
<1> QED BY <1>1, <1>2, <1>3 DEF LInv

\* No operation holds a slice at the start.
LEMMA InitBacked == ASSUME IsFiniteSet(Ops) PROVE Init => LInv
<1> SUFFICES ASSUME Init PROVE LInv
  OBVIOUS
<1>1. SInv
  BY InitKeeps
<1>2. Slices = 0
  <2> DEFINE T == {s \in SUBSET Ops : SumOf(Reserved)[s] = 0}
  <2>1. IsSum(SumOf(Reserved), Reserved, Ops)
    BY <1>1, ReservedType, SumOfIsSum DEF SInv, EInv
  <2>2. \A o \in Ops : Reserved[o] = 0
    BY DEF Init, Reserved
  <2>3. {} \in T
    BY <2>1, SumEmpty
  <2>4. ASSUME NEW s \in SUBSET Ops, s # {}, s \ {Pick(s)} \in T PROVE s \in T
    <3>1. SumOf(Reserved)[s] = Reserved[Pick(s)] + SumOf(Reserved)[s \ {Pick(s)}] /\ Pick(s) \in Ops
      BY <2>1, <2>4, SumStep, PickIn
    <3> QED BY <2>2, <2>4, <3>1
  <2>5. SUBSET Ops \subseteq T
    <3> HIDE DEF T
    <3> QED BY <2>3, <2>4, SubsetInduction
  <2> QED BY <2>5 DEF Slices
<1>3. Backed /\ NothingElsewhere /\ \A w \in Workers : Took(w)
  BY <1>2 DEF Init, Backed, NothingElsewhere, Took
<1> QED BY <1>1, <1>3 DEF LInv

LEMMA LInvariance ==
    ASSUME Definite, ExactProvider, IsFiniteSet(Ops) PROVE Spec => []LInv
BY InitBacked, NextBacked, PTL DEF Spec

\* No crash, lost race or release leaks or invents a slice: until the provider
\* confirms the whole amount the ledger is the sum of the slices, for any
\* operations, attempts and workers.
THEOREM LedgerIsTheSlices ==
    ASSUME Definite, ExactProvider, IsFiniteSet(Ops) PROVE Spec => []LedgerIsSlices
<1>1. LInv => LedgerIsSlices
  BY SlicesAreFolded DEF LInv, Backed, LedgerIsSlices
<1> QED BY <1>1, LInvariance, PTL

\* Whatever crashes, overlaps or is retried, the captures of any number of
\* operations together take at most the authorised amount.
THEOREM CapturesAreBounded ==
    ASSUME Definite, ExactProvider, ~OutsideCapture, IsFiniteSet(Ops)
    PROVE  Spec => []NoOverCapture
<1>1. LInv => NoOverCapture
  <2> SUFFICES ASSUME LInv PROVE NoOverCapture
    OBVIOUS
  <2>1. Charges \in Nat /\ Charges <= Slices
    BY ChargesWithinSlices DEF LInv, SInv, EInv
  <2>2. Slices \in Nat /\ txn.captured \in Nat /\ Authorized \in Nat
    BY SlicesType, Ranges DEF LInv, SInv, EInv
  <2>3. Slices <= txn.captured /\ txn.captured <= Authorized /\ money.outside = 0
    BY DEF LInv, Backed, SInv, Ceiling, NothingElsewhere
  <2> QED BY <2>1, <2>2, <2>3, ChargesAreFolded DEF NoOverCapture
<1> QED BY <1>1, LInvariance, PTL

=============================================================================
