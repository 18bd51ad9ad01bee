-------------------------- MODULE IdempotentSession --------------------------
(***************************************************************************)
(* What createPaymentSession promises to callers that share an idempotency *)
(* key: the key stands for at most one GatewayTransaction at a time; every *)
(* call that is answered either created that transaction, when the key     *)
(* stood for none, or is told the one the key stands for at that moment;   *)
(* and a key that was forgotten never brings an old transaction back.      *)
(* PaymentSession, with its claims, heartbeats and take-overs, implements  *)
(* this specification.                                                     *)
(***************************************************************************)
EXTENDS Naturals

CONSTANT Callers

VARIABLES
    current,  \* the transaction the key stands for, 0 for none
    created,  \* every transaction created under the key
    phase,    \* "idle", "asked", "done" or "failed"
    reply     \* the transaction each answered call was told, 0 for none

vars == <<current, created, phase, reply>>

Init ==
    /\ current = 0 /\ created = {}
    /\ phase = [c \in Callers |-> "idle"]
    /\ reply = [c \in Callers |-> 0]

Ask(c) ==
    /\ phase[c] # "asked"
    /\ phase' = [phase EXCEPT ![c] = "asked"]
    /\ reply' = [reply EXCEPT ![c] = 0]
    /\ UNCHANGED <<current, created>>

Answered(c, txn) ==
    /\ phase[c] = "asked"
    /\ phase' = [phase EXCEPT ![c] = "done"]
    /\ reply' = [reply EXCEPT ![c] = txn]

Create(c) ==
    /\ current = 0
    /\ current' \in Nat \ ({0} \cup created)
    /\ created' = created \cup {current'}
    /\ Answered(c, current')

Replay(c) == current # 0 /\ Answered(c, current) /\ UNCHANGED <<current, created>>

Fail(c) ==
    /\ phase[c] = "asked"
    /\ phase' = [phase EXCEPT ![c] = "failed"]
    /\ UNCHANGED <<current, created, reply>>

Forget == current # 0 /\ current' = 0 /\ UNCHANGED <<created, phase, reply>>

Next == (\E c \in Callers : Ask(c) \/ Create(c) \/ Replay(c) \/ Fail(c)) \/ Forget

Spec == Init /\ [][Next]_vars

=============================================================================
