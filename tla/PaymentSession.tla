--------------------------- MODULE PaymentSession ---------------------------
(***************************************************************************)
(* The keyed half of createPaymentSession: several calls carry the same    *)
(* idempotency key, hence the same operation key, and coordinate through   *)
(* one row of gateway_session_initializations.  A call claims the row with *)
(* a fresh token, keeps the claim young with a heartbeat while the         *)
(* provider works, and finalises row and GatewayTransaction in one         *)
(* database transaction.  A claim nobody refreshes goes stale and may be   *)
(* taken over; a completed row answers replays until the prune worker      *)
(* deletes it.  Different operation keys never meet, so one key is         *)
(* modelled.  Every row update in the code is one conditional UPDATE, so   *)
(* every one is one step here; what a call read earlier is in seen[c].     *)
(***************************************************************************)
EXTENDS Naturals, FiniteSets

CONSTANTS
    Callers,         \* concurrent requests that carry the idempotency key
    MaxFaults,       \* bound on crashes, provider and database errors, late heartbeats
    MaxPrunes        \* bound on runs of the prune worker that delete the row

ASSUME SessionAssumption == MaxFaults \in Nat /\ MaxPrunes \in Nat

VARIABLES
    row,       \* the initialisation row of the key; id 0 when there is none
    rows,      \* rows inserted so far: the source of fresh row ids
    tokens,    \* claim tokens issued so far (randomUUID never repeats)
    txns,      \* committed GatewayTransactions
    sessions,  \* sessions the provider opened
    pc,        \* where each call stands
    seen,      \* the id of the row each call last read, 0 for none
    own,       \* the claim each call holds, or believes it holds
    opened,    \* the provider session each call was given
    answer,    \* the transaction each finished call returned, 0 for none
    late,      \* history: a claim went stale while its owner was beating
    faults, prunes

vars == <<row, rows, tokens, txns, sessions, pc, seen, own, opened, answer,
          late, faults, prunes>>

NoRow   == [id |-> 0, token |-> 0, fresh |-> FALSE, txn |-> 0]
NoClaim == [id |-> 0, token |-> 0]

States == {"idle", "find", "claim", "calling", "release", "finalize", "done", "failed"}

Init ==
    /\ row = NoRow /\ rows = 0 /\ tokens = 0 /\ txns = {} /\ sessions = 0
    /\ pc = [c \in Callers |-> "idle"]
    /\ seen = [c \in Callers |-> 0]
    /\ own = [c \in Callers |-> NoClaim]
    /\ opened = [c \in Callers |-> 0]
    /\ answer = [c \in Callers |-> 0]
    /\ late = FALSE /\ faults = 0 /\ prunes = 0

Goto(c, state) == pc' = [pc EXCEPT ![c] = state]
Fault == faults < MaxFaults /\ faults' = faults + 1

\* Faulty variant: the update is keyed by the row alone.
OwnsById(c) == own[c].id # 0 /\ row.id = own[c].id /\ row.txn = 0

\* Faulty variant: a completed row passes for a claimed one.
OwnsCompleted(c) == own[c].id # 0 /\ row.id = own[c].id

\* The row still carries the claim the call took (the WHERE of every update).
Owns(c) == row.id = own[c].id /\ row.token = own[c].token /\ row.txn = 0

\* A request arrives, or a client repeats one that was answered or failed.
Call(c) ==
    /\ pc[c] \in {"idle", "done", "failed"}
    /\ Goto(c, "find")
    /\ answer' = [answer EXCEPT ![c] = 0]
    /\ UNCHANGED <<row, rows, tokens, txns, sessions, seen, own, opened, late, faults, prunes>>

\* findPaymentSessionInitialization: a completed row replays its transaction,
\* anything else sends the call on to claim the row it has just read.
Find(c) ==
    /\ pc[c] = "find"
    /\ IF row.txn # 0
       THEN /\ answer' = [answer EXCEPT ![c] = row.txn]
            /\ Goto(c, "done")
            /\ UNCHANGED seen
       ELSE /\ seen' = [seen EXCEPT ![c] = row.id]
            /\ Goto(c, "claim")
            /\ UNCHANGED answer
    /\ UNCHANGED <<row, rows, tokens, txns, sessions, own, opened, late, faults, prunes>>

\* Faulty variant: the claim is written with a token that is not new.
ClaimedUncounted(c, id) ==
    /\ tokens' = tokens
    /\ row' = [id |-> id, token |-> tokens + 1, fresh |-> TRUE, txn |-> 0]
    /\ own' = [own EXCEPT ![c] = [id |-> id, token |-> tokens + 1]]
    /\ Goto(c, "calling")

Claimed(c, id) ==
    /\ tokens' = tokens + 1
    /\ row' = [id |-> id, token |-> tokens + 1, fresh |-> TRUE, txn |-> 0]
    /\ own' = [own EXCEPT ![c] = [id |-> id, token |-> tokens + 1]]
    /\ Goto(c, "calling")

\* The unique index on the operation key lets one insert through.
Claim(c) ==
    /\ pc[c] = "claim" /\ seen[c] = 0
    /\ IF row.id = 0
       THEN Claimed(c, rows + 1) /\ rows' = rows + 1
       ELSE Goto(c, "find") /\ UNCHANGED <<row, rows, tokens, own>>
    /\ UNCHANGED <<txns, sessions, seen, opened, answer, late, faults, prunes>>

\* Faulty variants: the take-over ignores that the row is completed, that the
\* owner is alive, or never takes a dead owner's claim.
ReclaimableCompleted(id) == row.id = id /\ (row.token = 0 \/ ~row.fresh)
ReclaimableAlive(id)     == row.id = id /\ row.txn = 0
ReclaimableReleased(id)  == row.id = id /\ row.txn = 0 /\ row.token = 0

\* The condition of the take-over UPDATE, evaluated on the row as it is now.
Reclaimable(id) == row.id = id /\ row.txn = 0 /\ (row.token = 0 \/ ~row.fresh)

Reclaim(c) ==
    /\ pc[c] = "claim" /\ seen[c] # 0
    /\ IF Reclaimable(seen[c])
       THEN Claimed(c, seen[c])
       ELSE Goto(c, "find") /\ UNCHANGED <<row, tokens, own>>
    /\ UNCHANGED <<rows, txns, sessions, seen, opened, answer, late, faults, prunes>>

\* refreshPaymentSessionInitialization, from the timer of startClaimHeartbeat.
Beats(c) == pc[c] \in {"calling", "release"} /\ Owns(c)

Heartbeat(c) ==
    /\ Beats(c) /\ ~row.fresh
    /\ row' = [row EXCEPT !.fresh = TRUE]
    /\ UNCHANGED <<rows, tokens, txns, sessions, pc, seen, own, opened, answer, late, faults, prunes>>

\* claimedAt falls behind staleBefore.  Nobody refreshes the claim of a call
\* that died; the claim of a live call ages only when its timers run late, or
\* when it finalises (its heartbeat is stopped by then).
GoesStale ==
    /\ row.token # 0 /\ row.fresh
    /\ row' = [row EXCEPT !.fresh = FALSE]
    /\ IF \E c \in Callers : pc[c] \in {"calling", "release", "finalize"} /\ Owns(c)
       THEN Fault
       ELSE UNCHANGED faults
    /\ late' = (late \/ \E c \in Callers : Beats(c))
    /\ UNCHANGED <<rows, tokens, txns, sessions, pc, seen, own, opened, answer, prunes>>

\* adapter.createSession returns; the heartbeat stops.
ProviderOpens(c) ==
    /\ pc[c] = "calling"
    /\ sessions' = sessions + 1
    /\ opened' = [opened EXCEPT ![c] = sessions + 1]
    /\ Goto(c, "finalize")
    /\ UNCHANGED <<row, rows, tokens, txns, seen, own, answer, late, faults, prunes>>

\* adapter.createSession throws, having opened a session or not.
ProviderFails(c) ==
    /\ pc[c] = "calling"
    /\ Fault
    /\ \E n \in {0, 1} : sessions' = sessions + n
    /\ Goto(c, "release")
    /\ UNCHANGED <<row, rows, tokens, txns, seen, own, opened, answer, late, prunes>>

\* releasePaymentSessionInitialization, then the provider's error is rethrown.
Release(c) ==
    /\ pc[c] = "release"
    /\ row' = IF Owns(c) THEN [row EXCEPT !.token = 0, !.fresh = FALSE] ELSE row
    /\ Goto(c, "failed")
    /\ UNCHANGED <<rows, tokens, txns, sessions, seen, own, opened, answer, late, faults, prunes>>

\* Faulty variant: a call that lost its claim answers with its own claim as if
\* it had been recorded.
FinalizeUnanswered(c) ==
    /\ pc[c] = "finalize"
    /\ row' = IF Owns(c) THEN [row EXCEPT !.txn = own[c].token, !.token = 0, !.fresh = FALSE] ELSE row
    /\ txns' = IF Owns(c) THEN txns \cup {[id |-> own[c].token, row |-> row.id, session |-> opened[c]]}
                          ELSE txns
    /\ answer' = [answer EXCEPT ![c] = own[c].token]
    /\ Goto(c, "done")
    /\ UNCHANGED <<rows, tokens, sessions, seen, own, opened, late, faults, prunes>>

\* The finalising transaction: the row is completed by the token that claimed
\* it and the transaction is inserted, or nothing happens and the loop goes on.
\* (The fresh id of the transaction is named by the token that finalises.)
Finalize(c) ==
    /\ pc[c] = "finalize"
    /\ IF Owns(c)
       THEN /\ row' = [row EXCEPT !.txn = own[c].token, !.token = 0, !.fresh = FALSE]
            /\ txns' = txns \cup {[id |-> own[c].token, row |-> row.id, session |-> opened[c]]}
            /\ answer' = [answer EXCEPT ![c] = own[c].token]
            /\ Goto(c, "done")
       ELSE Goto(c, "find") /\ UNCHANGED <<row, txns, answer>>
    /\ UNCHANGED <<rows, tokens, sessions, seen, own, opened, late, faults, prunes>>

\* A process dies, or a database call throws out of createPaymentSession (the
\* release, whose failure is only logged, and the finalising transaction,
\* which then rolls back): the call ends and its claim stays as it is.
Dies(c) ==
    /\ pc[c] \in {"find", "claim", "calling", "release", "finalize"}
    /\ Fault
    /\ Goto(c, "failed")
    /\ UNCHANGED <<row, rows, tokens, txns, sessions, seen, own, opened, answer, late, prunes>>

\* pruneCompletedPaymentSessionInitializations, past the replay window.
Prune ==
    /\ row.txn # 0 /\ prunes < MaxPrunes
    /\ row' = NoRow /\ prunes' = prunes + 1
    /\ UNCHANGED <<rows, tokens, txns, sessions, pc, seen, own, opened, answer, late, faults>>

Step(c) == Find(c) \/ Claim(c) \/ Reclaim(c) \/ ProviderOpens(c) \/ Release(c) \/ Finalize(c)

Next ==
    \/ \E c \in Callers : Call(c) \/ Step(c) \/ Heartbeat(c) \/ ProviderFails(c) \/ Dies(c)
    \/ GoesStale
    \/ Prune

Spec == Init /\ [][Next]_vars

\* A running call keeps running (the event loop is fair and every provider or
\* database call returns), timers fire, and clocks advance past the lease.
Fairness ==
    /\ \A c \in Callers : WF_vars(Step(c)) /\ WF_vars(Heartbeat(c))
    /\ WF_vars(GoesStale)

FairSpec == Spec /\ Fairness

-----------------------------------------------------------------------------
(* Properties *)

\* Types, and every id and token in use was issued before.
TypeOK ==
    /\ rows \in Nat /\ tokens \in Nat /\ sessions \in Nat
    /\ row \in [id : 0..rows, token : 0..tokens, fresh : BOOLEAN, txn : 0..tokens]
    /\ txns \subseteq [id : 1..tokens, row : 1..rows, session : 0..sessions]
    /\ pc \in [Callers -> States]
    /\ seen \in [Callers -> 0..rows]
    /\ own \in [Callers -> [id : 0..rows, token : 0..tokens]]
    /\ opened \in [Callers -> 0..sessions]
    /\ answer \in [Callers -> 0..tokens]
    /\ late \in BOOLEAN /\ faults \in Nat /\ prunes \in Nat

\* One idempotency key yields one GatewayTransaction for as long as its row
\* lives, however often the claim is taken over (gateway-service.ts:510-531).
OneTransactionPerRow ==
    \A s, t \in txns : s.row = t.row => s = t

\* A call whose claim was taken over never gets its own session recorded: the
\* transaction of a row was created under the last claim issued on that row.
LastClaimWins ==
    \A t \in txns, c \in Callers : own[c].id = t.row => own[c].token <= t.id

\* Replays agree: a finished call answered with the transaction of the row as
\* it stands or, once that row was pruned, with one that was committed.
AnswersAreRecorded ==
    \A c \in Callers : pc[c] = "done" =>
        /\ \E t \in txns : t.id = answer[c]
        /\ row.txn # 0 /\ answer[c] # row.txn =>
              \E t \in txns : t.id = answer[c] /\ t.row < row.id

\* Unless a heartbeat was late, at most one live call is inside
\* adapter.createSession for the key: the single flight the claim exists for.
SingleFlight ==
    ~late => \A c, d \in Callers : pc[c] = "calling" /\ pc[d] = "calling" => c = d

\* A completed row never changes its transaction; it can only be pruned.
CompletedRowIsFinal ==
    [][row.txn # 0 => (row' = row \/ row' = NoRow)]_vars

\* Every call is answered or fails: a waiting call outlives owners that crash,
\* release or finalise (the while loop of gateway-service.ts:457-537).
EveryCallReturns ==
    \A c \in Callers : pc[c] = "find" ~> pc[c] \in {"done", "failed"}

\* What a caller can observe of a call: the claim protocol is one long "asked".
Phase(c) == IF pc[c] \in {"idle", "done", "failed"} THEN pc[c] ELSE "asked"

Promise == INSTANCE IdempotentSession WITH
    current <- row.txn,
    created <- {t.id : t \in txns},
    phase   <- [c \in Callers |-> Phase(c)],
    reply   <- answer

\* createPaymentSession is idempotent: seen from its callers, with every claim,
\* take-over, late heartbeat, crash and prune, it is the atomic operation of
\* IdempotentSession (gateway-service.ts:414-538).
KeepsPromise == Promise!Spec

=============================================================================
