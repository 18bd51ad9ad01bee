------------------------ MODULE PaymentSessionProofs ------------------------
(***************************************************************************)
(* For any number of callers, faults and prunes, the safety of the claim   *)
(* protocol of PaymentSession.  One inductive invariant carries all of it: *)
(* it adds to the properties what the row and the claims tell about each   *)
(* other between two updates of the row.                                   *)
(***************************************************************************)
EXTENDS PaymentSession, TLAPS

\* A call that works at the provider or at its outcome holds a claim it took.
Claiming == {"calling", "release", "finalize"}
ClaimsAreNamed ==
    \A c \in Callers : pc[c] \in Claiming => own[c].id # 0 /\ own[c].token # 0

\* No two calls were given the same token.
TokensAreDistinct ==
    \A c, d \in Callers : own[c].token # 0 /\ own[c].token = own[d].token => c = d

\* A missing row is empty, and a completed one is claimed by nobody.
RowIsConsistent ==
    /\ row.id = 0 => row.token = 0 /\ row.txn = 0
    /\ row.txn # 0 => row.token = 0

\* A row has a transaction exactly if it is completed, and it names it.
RowNamesItsTransaction ==
    /\ row.txn = 0 => \A t \in txns : t.row # row.id
    /\ row.txn # 0 => \E t \in txns : t.id = row.txn /\ t.row = row.id

\* The claim the row carries is the last one issued on it.
RowHasTheLastClaim ==
    row.token # 0 => \A c \in Callers : own[c].id = row.id => own[c].token <= row.token

\* What a finished call answered is the transaction of the row or of an older one.
AnswersAreOld ==
    \A c \in Callers : pc[c] = "done" =>
        \E t \in txns : /\ t.id = answer[c]
                        /\ row.id # 0 => t.row < row.id \/ row.txn = t.id

\* Unless a heartbeat was late, a call at the provider has its claim on the row.
ClaimIsHeld ==
    ~late => \A c \in Callers :
        pc[c] \in {"calling", "release"} => Owns(c) /\ row.fresh

\* The token of a live claim names no transaction yet.
TokenIsUnspent == \A t \in txns : t.id # row.token

IInv ==
    /\ TypeOK
    /\ ClaimsAreNamed
    /\ TokensAreDistinct
    /\ RowIsConsistent
    /\ RowNamesItsTransaction
    /\ RowHasTheLastClaim
    /\ OneTransactionPerRow
    /\ LastClaimWins
    /\ TokenIsUnspent
    /\ AnswersAreOld
    /\ ClaimIsHeld

LEMMA InitIInv == Init => IInv
<1> SUFFICES ASSUME Init PROVE IInv
  OBVIOUS
<1>1. TypeOK
  <2>1. late \in BOOLEAN
    BY DEF Init
  <2>2. /\ rows = 0 /\ tokens = 0 /\ sessions = 0 /\ txns = {} /\ row = NoRow
        /\ pc \in [Callers -> States] /\ own = [c \in Callers |-> NoClaim]
        /\ seen = [c \in Callers |-> 0] /\ opened = [c \in Callers |-> 0]
        /\ answer = [c \in Callers |-> 0] /\ faults = 0 /\ prunes = 0
    BY DEF Init, States
  <2> QED BY <2>1, <2>2 DEF TypeOK, NoRow, NoClaim
<1>2. /\ ClaimsAreNamed /\ TokensAreDistinct /\ RowIsConsistent
      /\ RowNamesItsTransaction /\ RowHasTheLastClaim /\ OneTransactionPerRow
      /\ LastClaimWins /\ TokenIsUnspent
  BY DEF Init, NoRow, NoClaim, ClaimsAreNamed, Claiming, TokensAreDistinct, RowIsConsistent,
         RowNamesItsTransaction, RowHasTheLastClaim, OneTransactionPerRow, LastClaimWins,
         TokenIsUnspent
<1>3. AnswersAreOld /\ ClaimIsHeld
  BY DEF Init, AnswersAreOld, ClaimIsHeld
<1> QED BY <1>1, <1>2, <1>3 DEF IInv

\* The conjuncts that speak of pc and answer only through these two facts are
\* kept by every step that leaves row, transactions and claims alone.
RowUnchanged == UNCHANGED <<row, rows, tokens, txns, own>>

LEMMA QuietStep ==
    ASSUME IInv, RowUnchanged
    PROVE  /\ TokensAreDistinct' /\ RowIsConsistent' /\ RowNamesItsTransaction'
           /\ RowHasTheLastClaim' /\ OneTransactionPerRow' /\ LastClaimWins' /\ TokenIsUnspent'
BY DEF IInv, RowUnchanged, TokensAreDistinct, RowIsConsistent, RowNamesItsTransaction,
       RowHasTheLastClaim, OneTransactionPerRow, LastClaimWins, TokenIsUnspent

LEMMA CallStep == ASSUME IInv, NEW c \in Callers, Call(c) PROVE IInv'
<1>1. RowUnchanged
  BY DEF Call, RowUnchanged
<1>2. TypeOK' /\ ClaimsAreNamed' /\ AnswersAreOld' /\ ClaimIsHeld'
  BY DEF IInv, Call, Goto, TypeOK, States, ClaimsAreNamed, Claiming, AnswersAreOld,
         ClaimIsHeld, Owns
<1> QED BY <1>1, <1>2, QuietStep DEF IInv

\* A call that finds the row completed answers with the transaction it names.
LEMMA FindStep == ASSUME IInv, NEW c \in Callers, Find(c) PROVE IInv'
<1>1. RowUnchanged
  BY DEF Find, RowUnchanged
<1>2. TypeOK' /\ ClaimsAreNamed' /\ ClaimIsHeld'
  BY DEF IInv, Find, Goto, TypeOK, States, ClaimsAreNamed, Claiming, ClaimIsHeld, Owns
<1>3. AnswersAreOld'
  <2>1. CASE row.txn # 0
    <3>1. PICK t \in txns : t.id = row.txn /\ t.row = row.id
      BY <2>1 DEF IInv, RowNamesItsTransaction
    <3> QED BY <2>1, <3>1 DEF IInv, Find, Goto, TypeOK, AnswersAreOld
  <2>2. CASE row.txn = 0
    BY <2>2 DEF IInv, Find, Goto, TypeOK, AnswersAreOld
  <2> QED BY <2>1, <2>2
<1> QED BY <1>1, <1>2, <1>3, QuietStep DEF IInv

LEMMA ProviderStep ==
    ASSUME IInv, NEW c \in Callers, ProviderOpens(c) \/ ProviderFails(c) \/ Dies(c)
    PROVE  IInv'
<1>1. RowUnchanged
  BY DEF ProviderOpens, ProviderFails, Dies, RowUnchanged
<1>2. TypeOK'
  BY DEF IInv, ProviderOpens, ProviderFails, Dies, Goto, Fault, TypeOK, States
<1>3. ClaimsAreNamed' /\ AnswersAreOld' /\ ClaimIsHeld'
  BY DEF IInv, ProviderOpens, ProviderFails, Dies, Goto, Fault, TypeOK, States,
         ClaimsAreNamed, Claiming, AnswersAreOld, ClaimIsHeld, Owns
<1> QED BY <1>1, <1>2, <1>3, QuietStep DEF IInv

\* A claim, on a new row or a taken-over one, is the newest and the only one of
\* its token; the row it is made on is not completed.
LEMMA ClaimedStep ==
    ASSUME IInv, NEW c \in Callers, NEW id \in Nat \ {0}, Claimed(c, id),
           \/ id = row.id /\ row.txn = 0 /\ rows' = rows
           \/ row.id = 0 /\ id = rows + 1 /\ rows' = id,
           ~late => \A d \in Callers : pc[d] \in {"calling", "release"} => row.id = 0,
           pc[c] = "claim",
           UNCHANGED <<txns, sessions, seen, opened, answer, late, faults, prunes>>
    PROVE  IInv'
<1>1. TypeOK'
  BY DEF IInv, Claimed, Goto, TypeOK, States
<1>2. ClaimsAreNamed' /\ TokensAreDistinct' /\ RowIsConsistent'
  BY DEF IInv, Claimed, Goto, TypeOK, ClaimsAreNamed, Claiming, TokensAreDistinct,
         RowIsConsistent
<1>3. \A t \in txns : t.row # id
  BY DEF IInv, TypeOK, RowNamesItsTransaction
<1>4. RowNamesItsTransaction' /\ OneTransactionPerRow'
  BY <1>3 DEF IInv, Claimed, RowNamesItsTransaction, OneTransactionPerRow
<1>5. RowHasTheLastClaim' /\ LastClaimWins' /\ TokenIsUnspent'
  BY <1>3 DEF IInv, Claimed, TypeOK, RowHasTheLastClaim, LastClaimWins, TokenIsUnspent
<1>6. AnswersAreOld'
  BY DEF IInv, Claimed, Goto, TypeOK, AnswersAreOld
<1>7. ClaimIsHeld'
  BY DEF IInv, Claimed, Goto, TypeOK, ClaimIsHeld, ClaimsAreNamed, Claiming, Owns
<1> QED BY <1>1, <1>2, <1>4, <1>5, <1>6, <1>7 DEF IInv

\* A refused claim sends its call back to find the row again.
LEMMA RefusedStep ==
    ASSUME IInv, NEW c \in Callers, Goto(c, "find"), pc[c] = "claim", RowUnchanged,
           UNCHANGED <<sessions, seen, opened, answer, late, faults, prunes>>
    PROVE  IInv'
<1>1. TypeOK' /\ ClaimsAreNamed' /\ AnswersAreOld' /\ ClaimIsHeld'
  BY DEF IInv, RowUnchanged, Goto, TypeOK, States, ClaimsAreNamed, Claiming, AnswersAreOld,
         ClaimIsHeld, Owns
<1> QED BY <1>1, QuietStep DEF IInv

\* Unless a heartbeat was late nobody at the provider has an unclaimed or stale row.
LEMMA ClaimStep ==
    ASSUME IInv, NEW c \in Callers, Claim(c) \/ Reclaim(c)
    PROVE  IInv'
<1>1. CASE Claim(c) /\ row.id = 0
  <2>1. rows + 1 \in Nat \ {0}
    BY DEF IInv, TypeOK
  <2>2. ~late => \A d \in Callers : pc[d] \in {"calling", "release"} => row.id = 0
    BY <1>1
  <2> QED BY <1>1, <2>1, <2>2, ClaimedStep DEF Claim
<1>2. CASE Reclaim(c) /\ Reclaimable(seen[c])
  <2>1. seen[c] \in Nat \ {0} /\ seen[c] = row.id /\ row.txn = 0
    BY <1>2 DEF Reclaim, Reclaimable, IInv, TypeOK
  <2>2. ~late => \A d \in Callers : pc[d] \in {"calling", "release"} => row.id = 0
    BY <1>2 DEF Reclaimable, IInv, ClaimIsHeld, ClaimsAreNamed, Claiming, Owns
  <2>3. /\ Claimed(c, seen[c]) /\ rows' = rows /\ pc[c] = "claim"
        /\ UNCHANGED <<txns, sessions, seen, opened, answer, late, faults, prunes>>
    BY <1>2 DEF Reclaim
  <2> QED BY <2>1, <2>2, <2>3, ClaimedStep
<1>3. CASE Claim(c) /\ row.id # 0
  BY <1>3, RefusedStep DEF Claim, RowUnchanged
<1>4. CASE Reclaim(c) /\ ~Reclaimable(seen[c])
  BY <1>4, RefusedStep DEF Reclaim, RowUnchanged
<1> QED BY <1>1, <1>2, <1>3, <1>4

LEMMA ClockStep ==
    ASSUME IInv, GoesStale \/ \E c \in Callers : Heartbeat(c)
    PROVE  IInv'
<1>1. \E young \in BOOLEAN : row' = [row EXCEPT !.fresh = young]
  BY DEF GoesStale, Heartbeat
<1>2. UNCHANGED <<rows, tokens, txns, own, pc, answer, sessions, seen, opened, prunes>>
  BY DEF GoesStale, Heartbeat
<1>3. faults' \in Nat /\ late' \in BOOLEAN
  BY DEF IInv, GoesStale, Heartbeat, Fault, TypeOK
<1>4. TypeOK'
  BY <1>1, <1>2, <1>3 DEF IInv, TypeOK
<1>5. row'.id = row.id /\ row'.token = row.token /\ row'.txn = row.txn
  BY <1>1 DEF IInv, TypeOK
<1>6. /\ ClaimsAreNamed' /\ TokensAreDistinct' /\ RowIsConsistent' /\ RowNamesItsTransaction'
      /\ RowHasTheLastClaim' /\ OneTransactionPerRow' /\ LastClaimWins' /\ TokenIsUnspent'
      /\ AnswersAreOld'
  BY <1>5, <1>2 DEF IInv, ClaimsAreNamed, Claiming, TokensAreDistinct, RowIsConsistent,
       RowNamesItsTransaction, RowHasTheLastClaim, OneTransactionPerRow, LastClaimWins,
       TokenIsUnspent, AnswersAreOld
<1>7. ClaimIsHeld'
  <2>1. CASE GoesStale
    BY <2>1, <1>5, <1>2 DEF IInv, GoesStale, Beats, ClaimIsHeld, Owns
  <2>2. CASE \E c \in Callers : Heartbeat(c)
    BY <2>2, <1>5, <1>2 DEF IInv, Heartbeat, TypeOK, ClaimIsHeld, Owns
  <2> QED BY <2>1, <2>2
<1> QED BY <1>4, <1>6, <1>7 DEF IInv

LEMMA ReleaseStep == ASSUME IInv, NEW c \in Callers, Release(c) PROVE IInv'
<1>1. TypeOK' /\ row'.id = row.id /\ row'.txn = row.txn /\ row'.token \in {0, row.token}
  BY DEF IInv, Release, Goto, Owns, TypeOK, States
<1>2. UNCHANGED <<rows, tokens, txns, own, answer>>
  BY DEF Release
<1>3. /\ ClaimsAreNamed' /\ TokensAreDistinct' /\ RowIsConsistent' /\ RowNamesItsTransaction'
      /\ RowHasTheLastClaim' /\ OneTransactionPerRow' /\ LastClaimWins' /\ TokenIsUnspent'
  BY <1>1, <1>2 DEF IInv, Release, Goto, TypeOK, ClaimsAreNamed, Claiming, TokensAreDistinct,
       RowIsConsistent, RowNamesItsTransaction, RowHasTheLastClaim, OneTransactionPerRow,
       LastClaimWins, TokenIsUnspent
<1>4. AnswersAreOld'
  BY <1>1, <1>2 DEF IInv, Release, Goto, TypeOK, AnswersAreOld
<1>5. ClaimIsHeld'
  BY <1>2 DEF IInv, Release, Goto, TypeOK, ClaimIsHeld, ClaimsAreNamed, Claiming,
       TokensAreDistinct, Owns
<1> QED BY <1>1, <1>3, <1>4, <1>5 DEF IInv

\* The claim that finalises is the last one issued on its row, and the row has no
\* transaction yet.
LEMMA FinalizeStep == ASSUME IInv, NEW c \in Callers, Finalize(c) PROVE IInv'
<1>1. CASE Owns(c)
  <2> DEFINE t == [id |-> own[c].token, row |-> row.id, session |-> opened[c]]
  <2>1. /\ row.id # 0 /\ row.token # 0 /\ row.txn = 0 /\ row.id = own[c].id
        /\ row.token = own[c].token
    BY <1>1 DEF IInv, Finalize, ClaimsAreNamed, Claiming, Owns
  <2>2. /\ txns' = txns \cup {t} /\ row' = [row EXCEPT !.txn = t.id, !.token = 0, !.fresh = FALSE]
        /\ answer' = [answer EXCEPT ![c] = t.id] /\ pc' = [pc EXCEPT ![c] = "done"]
        /\ UNCHANGED <<rows, tokens, own, seen, sessions, opened, late, faults, prunes>>
    BY <1>1 DEF Finalize, Goto
  <2>3. t.id \in 1..tokens /\ t.row \in 1..rows /\ t.session \in 0..sessions
    BY <2>1 DEF IInv, TypeOK
  <2>4. t \in [id : 1..tokens, row : 1..rows, session : 0..sessions]
    BY <2>3
  <2>5. TypeOK'
    <3>1. txns' \subseteq [id : 1..tokens', row : 1..rows', session : 0..sessions']
      BY <2>2, <2>4 DEF IInv, TypeOK
    <3>2. row' \in [id : 0..rows', token : 0..tokens', fresh : BOOLEAN, txn : 0..tokens']
      <4>1. row' = [id |-> row.id, token |-> 0, fresh |-> FALSE, txn |-> t.id]
        BY <2>2 DEF IInv, TypeOK
      <4> QED BY <4>1, <2>2, <2>3 DEF IInv, TypeOK
    <3>3. pc' \in [Callers -> States] /\ answer' \in [Callers -> 0..tokens']
      BY <2>2, <2>3 DEF IInv, TypeOK, States
    <3> QED BY <2>2, <3>1, <3>2, <3>3 DEF IInv, TypeOK
  <2>6. ClaimsAreNamed' /\ TokensAreDistinct' /\ RowIsConsistent' /\ RowHasTheLastClaim'
    BY <2>1, <2>2 DEF IInv, TypeOK, ClaimsAreNamed, Claiming, TokensAreDistinct,
         RowIsConsistent, RowHasTheLastClaim
  <2>7. RowNamesItsTransaction'
    <3>1. row'.id = t.row /\ row'.txn = t.id /\ t \in txns' /\ t.id # 0
      BY <2>1, <2>2 DEF IInv, TypeOK
    <3> QED BY <3>1 DEF RowNamesItsTransaction
  <2>8. OneTransactionPerRow'
    BY <2>1, <2>2 DEF IInv, RowNamesItsTransaction, OneTransactionPerRow
  <2>9. LastClaimWins' /\ TokenIsUnspent'
    BY <2>1, <2>2, <2>5 DEF IInv, TypeOK, RowHasTheLastClaim, LastClaimWins, TokenIsUnspent
  <2>10. AnswersAreOld'
    <3> SUFFICES ASSUME NEW d \in Callers, pc'[d] = "done"
                 PROVE  \E s \in txns' : /\ s.id = answer'[d]
                                         /\ row'.id # 0 => s.row < row'.id \/ row'.txn = s.id
      BY DEF AnswersAreOld
    <3>1. row'.id = row.id /\ row'.txn = t.id /\ t \in txns'
      BY <2>2 DEF IInv, TypeOK
    <3>2. CASE d = c
      <4>1. answer'[d] = t.id
        BY <2>2, <3>2 DEF IInv, TypeOK
      <4> QED BY <3>1, <4>1
    <3>3. CASE d # c
      <4>1. pc[d] = "done" /\ answer'[d] = answer[d]
        BY <2>2, <3>3 DEF IInv, TypeOK
      <4>2. PICK s \in txns : s.id = answer[d] /\ s.row < row.id
        BY <2>1, <2>3, <4>1 DEF IInv, TypeOK, AnswersAreOld
      <4> QED BY <2>2, <3>1, <4>1, <4>2
    <3> QED BY <3>2, <3>3
  <2>11. ClaimIsHeld'
    BY <2>1, <2>2 DEF IInv, TypeOK, ClaimIsHeld, ClaimsAreNamed, Claiming,
         TokensAreDistinct, Owns
  <2> QED BY <2>5, <2>6, <2>7, <2>8, <2>9, <2>10, <2>11 DEF IInv
<1>2. CASE ~Owns(c)
  <2>1. RowUnchanged
    BY <1>2 DEF Finalize, RowUnchanged
  <2>2. TypeOK' /\ ClaimsAreNamed' /\ AnswersAreOld' /\ ClaimIsHeld'
    BY <1>2 DEF IInv, Finalize, Goto, TypeOK, States, ClaimsAreNamed, Claiming,
         AnswersAreOld, ClaimIsHeld, Owns
  <2> QED BY <2>1, <2>2, QuietStep DEF IInv
<1> QED BY <1>1, <1>2

LEMMA PruneStep == ASSUME IInv, Prune PROVE IInv'
BY DEF IInv, Prune, NoRow, TypeOK, ClaimsAreNamed, Claiming, TokensAreDistinct,
       RowIsConsistent, RowNamesItsTransaction, RowHasTheLastClaim, OneTransactionPerRow,
       LastClaimWins, TokenIsUnspent, AnswersAreOld, ClaimIsHeld, Owns

LEMMA StutterStep == ASSUME IInv, UNCHANGED vars PROVE IInv'
BY DEF IInv, vars, TypeOK, ClaimsAreNamed, TokensAreDistinct, RowIsConsistent,
       RowNamesItsTransaction, RowHasTheLastClaim, OneTransactionPerRow, LastClaimWins,
       TokenIsUnspent, AnswersAreOld, ClaimIsHeld, Owns

\* The strengthened invariant holds in every reachable state.
THEOREM Invariance == Spec => []IInv
<1>1. IInv /\ [Next]_vars => IInv'
  <2> SUFFICES ASSUME IInv, [Next]_vars PROVE IInv'
    OBVIOUS
  <2>1. ASSUME NEW c \in Callers, Call(c) PROVE IInv'
    BY <2>1, CallStep
  <2>2. ASSUME NEW c \in Callers, Step(c) \/ ProviderFails(c) \/ Dies(c) PROVE IInv'
    BY <2>2, FindStep, ClaimStep, ProviderStep, ReleaseStep, FinalizeStep DEF Step
  <2>3. ASSUME GoesStale \/ \E c \in Callers : Heartbeat(c) PROVE IInv'
    BY <2>3, ClockStep
  <2>4. CASE Prune
    BY <2>4, PruneStep
  <2>5. CASE UNCHANGED vars
    BY <2>5, StutterStep
  <2> QED BY <2>1, <2>2, <2>3, <2>4, <2>5 DEF Next
<1> QED BY <1>1, InitIInv, PTL DEF Spec

-----------------------------------------------------------------------------
(* What the invariant says about createPaymentSession *)

\* Types hold, and ids and tokens in use were issued before.
THEOREM TypeCorrect == Spec => []TypeOK
<1>1. IInv => TypeOK
  BY DEF IInv
<1> QED BY <1>1, Invariance, PTL

\* One idempotency key yields one transaction per row (gateway-service.ts:510-531),
\* for any number of concurrent calls, take-overs, crashes and late heartbeats.
THEOREM OneTransaction == Spec => []OneTransactionPerRow
<1>1. IInv => OneTransactionPerRow
  BY DEF IInv
<1> QED BY <1>1, Invariance, PTL

\* The transaction of a row was created under the last claim issued on it.
THEOREM TakenOverClaimsLose == Spec => []LastClaimWins
<1>1. IInv => LastClaimWins
  BY DEF IInv
<1> QED BY <1>1, Invariance, PTL

\* Every answer is a committed transaction, and replays of a row agree.
THEOREM ReplaysAgree == Spec => []AnswersAreRecorded
<1>1. IInv => AnswersAreRecorded
  <2> SUFFICES ASSUME IInv, NEW c \in Callers, pc[c] = "done"
               PROVE  /\ \E t \in txns : t.id = answer[c]
                      /\ row.txn # 0 /\ answer[c] # row.txn =>
                            \E t \in txns : t.id = answer[c] /\ t.row < row.id
    BY DEF AnswersAreRecorded
  <2>1. PICK t \in txns : t.id = answer[c] /\ (row.id # 0 => t.row < row.id \/ row.txn = t.id)
    BY DEF IInv, AnswersAreOld
  <2>2. row.txn # 0 => row.id # 0
    BY DEF IInv, RowIsConsistent
  <2> QED BY <2>1, <2>2
<1> QED BY <1>1, Invariance, PTL

\* Unless a heartbeat was late, one live call at most is inside adapter.createSession.
THEOREM SingleFlightHolds == Spec => []SingleFlight
<1>1. IInv => SingleFlight
  BY DEF IInv, SingleFlight, ClaimIsHeld, ClaimsAreNamed, Claiming,
       TokensAreDistinct, Owns
<1> QED BY <1>1, Invariance, PTL

\* A completed row keeps its transaction until it is pruned.
THEOREM CompletedRowsAreFinal == Spec => CompletedRowIsFinal
<1>1. IInv /\ [Next]_vars => (row.txn # 0 => row' = row \/ row' = NoRow)
  <2> SUFFICES ASSUME IInv, [Next]_vars, row.txn # 0 PROVE row' = row \/ row' = NoRow
    OBVIOUS
  <2> QED BY DEF IInv, RowIsConsistent, Next, Step, vars, Call, Find, Claim, Reclaim, Claimed,
            Reclaimable, Heartbeat, Beats, GoesStale, ProviderOpens, ProviderFails, Release,
            Finalize, Dies, Prune, Owns
<1> QED BY <1>1, Invariance, PTL DEF Spec, CompletedRowIsFinal

-----------------------------------------------------------------------------
(* The refinement of IdempotentSession *)

LEMMA PromiseInit == Init => Promise!Init
BY DEF Init, Promise!Init, NoRow, Phase

\* Seen from the callers, nothing happens: a call that was asked stays asked.
LEMMA InsideStep ==
    ASSUME NEW c \in Callers, TypeOK, UNCHANGED <<txns, answer>>, row'.txn = row.txn,
           \/ UNCHANGED pc
           \/ \E state \in States \ {"idle", "done", "failed"} :
                 Goto(c, state) /\ pc[c] \notin {"idle", "done", "failed"}
    PROVE  UNCHANGED Promise!vars
BY DEF TypeOK, States, Goto, Phase, Promise!vars

\* A call that ends without an answer fails, whatever became of its claim.
LEMMA FailStep ==
    ASSUME NEW c \in Callers, TypeOK, UNCHANGED <<txns, answer>>, row'.txn = row.txn,
           Goto(c, "failed"), pc[c] \notin {"idle", "done", "failed"}
    PROVE  Promise!Fail(c)
BY DEF TypeOK, States, Goto, Phase, Promise!Fail

LEMMA AnswerStep ==
    ASSUME NEW c \in Callers, IInv, Finalize(c), Owns(c)
    PROVE  Promise!Create(c)
<1> DEFINE t == [id |-> own[c].token, row |-> row.id, session |-> opened[c]]
<1>1. /\ row.txn = 0 /\ txns' = txns \cup {t} /\ row'.txn = t.id
      /\ answer' = [answer EXCEPT ![c] = t.id] /\ pc' = [pc EXCEPT ![c] = "done"]
  BY DEF IInv, TypeOK, Finalize, Owns, Goto
<1>2. t.id \in Nat \ {0} /\ \A s \in txns : s.id # t.id
  BY DEF IInv, TypeOK, TokenIsUnspent, ClaimsAreNamed, Claiming, Finalize, Owns
<1>3. {s.id : s \in txns'} = {s.id : s \in txns} \cup {t.id}
  BY <1>1
<1>4. [d \in Callers |-> Phase(d)]' = [[d \in Callers |-> Phase(d)] EXCEPT ![c] = "done"]
  BY <1>1 DEF IInv, TypeOK, Phase
<1>5. Phase(c) = "asked"
  BY DEF Finalize, Phase
<1> QED BY <1>1, <1>2, <1>3, <1>4, <1>5 DEF Promise!Create, Promise!Answered

LEMMA PromiseStep == IInv /\ [Next]_vars => [Promise!Next]_(Promise!vars)
<1> SUFFICES ASSUME IInv, [Next]_vars PROVE Promise!Next \/ UNCHANGED Promise!vars
  OBVIOUS
<1>0. TypeOK
  BY DEF IInv
<1>1. ASSUME NEW c \in Callers, Call(c) PROVE Promise!Ask(c)
  BY <1>0, <1>1 DEF TypeOK, States, Call, Goto, Phase, Promise!Ask
<1>2. ASSUME NEW c \in Callers, Find(c) PROVE Promise!Replay(c) \/ UNCHANGED Promise!vars
  <2>1. CASE row.txn # 0
    BY <1>0, <1>2, <2>1 DEF TypeOK, States, Find, Goto, Phase, Promise!Replay, Promise!Answered
  <2>2. CASE row.txn = 0
    BY <1>0, <1>2, <2>2, InsideStep DEF Find, States
  <2> QED BY <2>1, <2>2
<1>3. ASSUME NEW c \in Callers, Claim(c) \/ Reclaim(c) PROVE UNCHANGED Promise!vars
  <2>1. row'.txn = row.txn
    BY <1>0, <1>3 DEF IInv, RowIsConsistent, TypeOK, Claim, Reclaim, Claimed, Reclaimable
  <2> QED BY <1>0, <1>3, <2>1, InsideStep DEF Claim, Reclaim, Claimed, States
<1>4. ASSUME NEW c \in Callers, ProviderOpens(c) \/ ProviderFails(c) \/ Heartbeat(c)
      PROVE  UNCHANGED Promise!vars
  <2>1. row'.txn = row.txn
    BY <1>0, <1>4 DEF TypeOK, ProviderOpens, ProviderFails, Heartbeat
  <2> QED BY <1>0, <1>4, <2>1, InsideStep DEF ProviderOpens, ProviderFails, Heartbeat, States
<1>5. ASSUME NEW c \in Callers, Release(c) \/ Dies(c) PROVE Promise!Fail(c)
  <2>1. row'.txn = row.txn
    BY <1>0, <1>5 DEF TypeOK, Release, Dies
  <2> QED BY <1>0, <1>5, <2>1, FailStep DEF Release, Dies
<1>6. ASSUME NEW c \in Callers, Finalize(c) PROVE Promise!Create(c) \/ UNCHANGED Promise!vars
  <2>1. CASE ~Owns(c)
    <3>1. /\ Goto(c, "find") /\ pc[c] = "finalize" /\ row'.txn = row.txn
          /\ UNCHANGED <<txns, answer>>
      BY <1>6, <2>1 DEF Finalize
    <3> QED BY <1>0, <3>1, InsideStep DEF States
  <2> QED BY <1>6, <2>1, AnswerStep
<1>7. CASE GoesStale
  <2>1. row'.txn = row.txn /\ UNCHANGED <<txns, pc, answer>>
    BY <1>0, <1>7 DEF TypeOK, GoesStale
  <2> QED BY <2>1 DEF Phase, Promise!vars
<1>8. CASE Prune
  <2>1. row.txn # 0 /\ row'.txn = 0 /\ UNCHANGED <<txns, pc, answer>>
    BY <1>8 DEF Prune, NoRow
  <2>2. Promise!Forget
    BY <2>1 DEF Phase, Promise!Forget
  <2> QED BY <2>2 DEF Promise!Next
<1>9. CASE UNCHANGED vars
  BY <1>9 DEF vars, Phase, Promise!vars
<1> QED BY <1>1, <1>2, <1>3, <1>4, <1>5, <1>6, <1>7, <1>8, <1>9 DEF Next, Step, Promise!Next

\* Seen from its callers, createPaymentSession is the atomic operation of
\* IdempotentSession, for any number of calls, faults and prunes.
THEOREM ImplementsPromise == Spec => KeepsPromise
<1>1. Init => Promise!Init
  BY PromiseInit
<1>2. IInv /\ [Next]_vars => [Promise!Next]_(Promise!vars)
  BY PromiseStep
<1> QED BY <1>1, <1>2, Invariance, PTL DEF Spec, KeepsPromise, Promise!Spec

=============================================================================
