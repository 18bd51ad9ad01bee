---------------------- MODULE PurchaseActivationProofs ----------------------
(***************************************************************************)
(* The safety properties of PurchaseActivation, for any number of requests, *)
(* sessions and faults.                                                     *)
(*                                                                          *)
(* The parts of the inductive invariant follow the data: the sales records  *)
(* (SalesInv), the capture (CaptureInv), the order's binding and its two    *)
(* writers (BindingInv), the case and its instances (RowsInv), the research *)
(* orders (ResearchInv), the e-mails (MailInv), and what the order claims   *)
(* of the database (RecordsInv).  The steps of each part use what an action *)
(* does to the request that takes it, which is stated first.                *)
(***************************************************************************)
EXTENDS PurchaseActivation, SequenceTheorems, TLAPS

\* Somebody's e-mail is on its way: reserved and committed, and not yet reported.
Mailed(q) == mail[q].pc # "none"
NoMailing == \A q \in Requests : ~Mailed(q)

-----------------------------------------------------------------------------
\* Sales records are made by the lock holder, who looked for them before.
SalesInv ==
    /\ \A s \in {"quote", "order", "payment"} : made[s] <= 1
    /\ \A i \in 1..Len(gw) : i < Len(gw) => gw[i] = "failed"
    /\ \A r \in Requests : req[r].pc = "create" => Count(req[r].stage) = 0

\* The capture is committed, or will be with everything that rests on it.
Pay == tx.captured \/ Captured
Confirmed == {"reconcile", "reserve", "reserving", "activate", "save", "saving"}
CaptureInv ==
    /\ \A r \in Requests : req[r].pc \in Confirmed \/ req[r].reserved => Pay
    /\ \A r \in Requests : req[r].pc = "idle" => ~req[r].reserved
    /\ \A q \in Requests : Mailed(q) => Captured
    /\ tx.rows.case # "none" \/ tx.rows.analysis # "none" => Pay
    /\ db.case # "none" \/ db.analysis # "none" \/ mails > 0 \/ research > 0 => Captured

\* The order is written under the lock and by the one mailing branch there can be.
Reserving(r) ==
    \/ req[r].pc \in {"reserve", "reserving"}
    \/ req[r].pc \in {"capture", "reconcile"} /\ req[r].view.conf \in RetriedConfirmation
MailedBinding(q) ==
    Mailed(q) =>
       /\ binding.conf = "sending" /\ binding.by = q
       /\ mail[q].pc = "reporting" /\ mail[q].snap.bound # "none" => mail[q].snap.bound = binding.bound
RequestBinding(r) ==
    /\ req[r].reserved =>
          /\ req[r].pc \in {"activate", "save", "saving", "commit"}
          /\ binding.conf = "sending" /\ binding.by = r /\ NoMailing
    /\ Reserving(r) => NoMailing
    /\ req[r].pc = "reserving" => req[r].snap = binding
    /\ req[r].pc = "saving" => \A q \in Requests :
          Mailed(q) \/ (q = r /\ req[r].reserved) => req[r].snap.conf = "sending" /\ req[r].snap.by = q
    /\ req[r].pc \in Confirmed \cup {"capture"} /\ req[r].view.bound = "none" => binding.bound = "none"
    /\ req[r].pc \in {"save", "saving"} => req[r].view.bound = "none"
BindingInv == \A r \in Requests : MailedBinding(r) /\ RequestBinding(r)

\* The case and its instance are handed on once, and what waits in tx fits them.
RowsInv ==
    /\ tx.rows.case # "none" =>
          /\ tx.rows.case \in {"demo", "analysis"} /\ db.case \in {"none", tx.rows.case}
          /\ \A r \in Requests : req[r].pc \in {"idle", "save", "saving", "commit"}
          /\ tx.rows.link = "none" => binding.bound = "none"
    /\ \A r \in Requests : req[r].pc \in {"save", "saving"} => tx.rows.link # "none"
    /\ tx.rows.link # "none" => tx.rows.case = tx.rows.link
    /\ tx.rows.analysis # "none" =>
          tx.rows.analysis = "start" /\ tx.rows.link = "analysis" /\ db.analysis = "none"
    /\ db.analysis # "none" => db.case \in {"analysis", "upgraded"} /\ db.link = "analysis"

\* Every research order is that of the execution that holds the row of the instance, of the
\* one that committed, or of one that was lost; a failure was counted for each of the lost.
ResearchInv ==
    /\ \A r \in Requests : work[r] # "none" => req[r].pc = "idle"
    /\ \A r \in Requests : work[r] = "enqueued" =>
          /\ Executable
          /\ \A q \in Requests : work[q] = "enqueued" => q = r
    /\ research = lost + (IF RowFree /\ db.analysis # "dispatched" THEN 0 ELSE 1)
    /\ research > 0 => db.analysis # "none"
    /\ lost <= faults

\* Once an e-mail was delivered nothing makes the order ask for another one.
Sent == {"sending", "sent"}
MailInv ==
    /\ mails \in {0, 1}
    /\ mails = 1 =>
          /\ binding.conf \in Sent
          /\ \A q \in Requests : mail[q].pc # "deliver" /\ (Mailed(q) => mail[q].outcome = "sent")
          /\ \A r \in Requests : ~Reserving(r) /\ ~req[r].reserved
                /\ (req[r].pc = "saving" => req[r].snap.conf \in Sent)

\* What the sales records claim is in the database, or will be when the lock is given back.
RecordsInv ==
    /\ binding.bound # "none" => Seen(binding.bound) # "none" /\ Seen("case") # "none"
    /\ \A r \in Requests : req[r].pc \in {"save", "saving"} =>
          req[r].layout # "none" /\ Seen(req[r].layout) # "none" /\ Seen("case") # "none"
    /\ paid => Pay

-----------------------------------------------------------------------------
(* Types *)

Pcs == {"idle", "start", "create", "retry", "confirm", "capture", "reconcile",
        "reserve", "reserving", "activate", "save", "saving", "commit"}
Layouts == {"none", "demo", "analysis"}
ReqRecords == [pc : Pcs, stage : Stages, view : BindingType, snap : BindingType,
               verified : BOOLEAN, failed : BOOLEAN, reserved : BOOLEAN, layout : Layouts,
               launch : BOOLEAN, raised : BOOLEAN]
MailPcs == {"none", "deliver", "report", "reporting"}
MailRecords == [pc : MailPcs, outcome : {"none", "sent", "waiting_configuration", "failed"},
                snap : BindingType]
WorkPcs == {"none", "execute", "enqueued", "report", "bootstrap", "exception"}
GwStatus == {"authorized", "captured", "failed"} \cup Discrepant
TxType == [rows : Rows, captured : BOOLEAN]

\* A payment that is judged or captured has a transaction.
HasSession ==
    /\ tx.captured => gw # <<>>
    /\ \A r \in Requests : req[r].pc = "capture" => gw # <<>>
TypeInv == TypeOK /\ HasSession

\* What the types say, with the sets named.
LEMMA TypeFacts ==
  ASSUME TypeOK
  PROVE  /\ req \in [Requests -> ReqRecords] /\ mail \in [Requests -> MailRecords]
         /\ work \in [Requests -> WorkPcs] /\ tx \in TxType /\ gw \in Seq(GwStatus)
         /\ db \in Rows /\ binding \in BindingType /\ analysisOn \in BOOLEAN /\ paid \in BOOLEAN
         /\ made \in [{"quote", "order", "payment"} -> Nat]
         /\ mails \in Nat /\ research \in Nat /\ lost \in Nat /\ faults \in Nat
         /\ None \notin Requests
  BY PurchaseAssumption DEF TypeOK, ReqRecords, MailRecords, Pcs, MailPcs, WorkPcs, GwStatus,
     TxType, Layouts

LEMMA TypeFold ==
  /\ lock \in Requests \cup {None}
  /\ req \in [Requests -> ReqRecords] /\ mail \in [Requests -> MailRecords]
  /\ work \in [Requests -> WorkPcs] /\ tx \in TxType /\ gw \in Seq(GwStatus)
  /\ db \in Rows /\ binding \in BindingType /\ analysisOn \in BOOLEAN /\ paid \in BOOLEAN
  /\ made \in [{"quote", "order", "payment"} -> Nat]
  /\ mails \in Nat /\ research \in Nat /\ lost \in Nat /\ faults \in Nat
  /\ \A r \in Requests : req[r].pc # "idle" <=> lock = r
  /\ lock = None => tx = NoTx
  => TypeOK
  BY DEF TypeOK, ReqRecords, MailRecords, Pcs, MailPcs, WorkPcs, GwStatus, TxType, Layouts

LEMMA InitialRecords ==
  /\ NoBinding \in BindingType /\ NoRows \in Rows /\ NoTx \in TxType
  /\ NoTx.captured = FALSE /\ NoTx.rows = NoRows
  /\ NoRows.case = "none" /\ NoRows.link = "none" /\ NoRows.demo = "none" /\ NoRows.analysis = "none"
  /\ NoRows.exception = "none"
  /\ Idle \in ReqRecords /\ Idle.pc = "idle" /\ Idle.stage = "quote" /\ Idle.reserved = FALSE
  /\ NoMail \in MailRecords /\ NoMail.pc = "none"
  BY DEF NoBinding, BindingType, NoRows, Rows, NoTx, TxType, Idle, ReqRecords, Pcs, Stages, Layouts,
     NoMail, MailRecords, MailPcs

\* Only the lock holder is under way.
LEMMA Holder ==
  ASSUME TypeOK, NEW r \in Requests, req[r].pc # "idle"
  PROVE  lock = r /\ \A q \in Requests \ {r} : req[q].pc = "idle"
  BY DEF TypeOK

\* What a request knows after it went on.
LEMMA Continues ==
  ASSUME TypeOK, NEW r \in Requests, NEW pc \in Pcs, NEW m \in ReqRecords, Continue(r, pc, m)
  PROVE  /\ req' \in [Requests -> ReqRecords]
         /\ req'[r].pc = pc /\ req'[r].stage = m.stage /\ req'[r].view = m.view
         /\ req'[r].snap = m.snap /\ req'[r].reserved = m.reserved /\ req'[r].layout = m.layout
         /\ \A q \in Requests \ {r} : req'[q] = req[q]
  <1>t. req \in [Requests -> ReqRecords]  BY TypeFacts
  <1>1. PICK k : k = [m EXCEPT !.pc = pc]  OBVIOUS
  <1>2. k \in ReqRecords  BY <1>1 DEF ReqRecords
  <1>3. /\ k.pc = pc /\ k.stage = m.stage /\ k.view = m.view /\ k.snap = m.snap
        /\ k.reserved = m.reserved /\ k.layout = m.layout
    BY <1>1 DEF ReqRecords
  <1>4. req' = [req EXCEPT ![r] = k]  BY <1>1 DEF Continue
  <1> QED  BY <1>t, <1>2, <1>3, <1>4

\* What a confirmation branch knows after it went on.
LEMMA MailGoes ==
  ASSUME TypeOK, NEW r \in Requests, NEW pc \in MailPcs, NEW m \in MailRecords, Mail(r, pc, m)
  PROVE  /\ mail' \in [Requests -> MailRecords]
         /\ mail'[r].pc = pc /\ mail'[r].outcome = m.outcome /\ mail'[r].snap = m.snap
         /\ \A q \in Requests \ {r} : mail'[q] = mail[q]
  <1>t. mail \in [Requests -> MailRecords]  BY TypeFacts
  <1>1. PICK k : k = [m EXCEPT !.pc = pc]  OBVIOUS
  <1>2. k \in MailRecords /\ k.pc = pc /\ k.outcome = m.outcome /\ k.snap = m.snap
    BY <1>1 DEF MailRecords
  <1>4. mail' = [mail EXCEPT ![r] = k]  BY <1>1 DEF Mail
  <1> QED  BY <1>t, <1>2, <1>4

-----------------------------------------------------------------------------
(* What each action does to the request that takes it, and to what it shares *)

Others(r) == req' \in [Requests -> ReqRecords] /\ \A q \in Requests \ {r} : req'[q] = req[q]
TxRows == /\ tx'.rows.case = tx.rows.case /\ tx'.rows.link = tx.rows.link
          /\ tx'.rows.demo = tx.rows.demo /\ tx'.rows.analysis = tx.rows.analysis
TxKept == tx' \in TxType /\ tx'.captured = tx.captured /\ TxRows
AfterKept == UNCHANGED <<mail, work, mails, research, lost>>

LEMMA SameTx ==
  ASSUME TypeOK, UNCHANGED tx
  PROVE  TxKept
  BY TypeFacts DEF TxKept, TxRows

LEMMA RaiseEffect ==
  ASSUME TypeOK, NEW r \in Requests, RaiseException(r)
  PROVE  /\ Others(r) /\ TxKept
         /\ req'[r].pc = "commit" /\ req'[r].reserved = req[r].reserved
  <1>t. req[r] \in ReqRecords /\ tx \in TxType  BY TypeFacts
  <1>1. PICK m : m = [req[r] EXCEPT !.raised = TRUE]  OBVIOUS
  <1>2. m \in ReqRecords /\ m.reserved = req[r].reserved  BY <1>t, <1>1 DEF ReqRecords
  <1>3. Continue(r, "commit", m)  BY <1>1 DEF RaiseException
  <1>4. "commit" \in Pcs  BY DEF Pcs
  <1>5. Others(r) /\ req'[r].pc = "commit" /\ req'[r].reserved = req[r].reserved
    BY <1>2, <1>3, <1>4, Continues DEF Others
  <1>6. TxKept
    <2>1. CASE tx' = tx  BY <2>1, SameTx
    <2>2. CASE tx' = [tx EXCEPT !.rows.exception = "start"]
      BY <2>2, <1>t DEF TxType, Rows, TxKept, TxRows
    <2> QED  BY <2>1, <2>2 DEF RaiseException
  <1> QED  BY <1>5, <1>6

LEMMA AcquireEffect ==
  ASSUME TypeOK, NEW r \in Requests, NEW op \in {"start", "retry", "confirm"}, Acquire(r, op)
  PROVE  /\ Others(r) /\ lock' = r /\ lock = None
         /\ req[r].pc = "idle" /\ mail[r].pc = "none"
         /\ req'[r].pc = op /\ req'[r].stage = "quote" /\ req'[r].reserved = FALSE
         /\ tx' = NoTx /\ tx = NoTx
         /\ UNCHANGED <<faults, made, paid, binding, gw, db, analysisOn>> /\ AfterKept
  <1>1. op \in Pcs  BY DEF Pcs
  <1>2. Continue(r, op, Idle)  BY DEF Acquire
  <1>3. lock = None  BY DEF Acquire, LockFree
  <1>4. tx = NoTx  BY <1>3 DEF TypeOK
  <1> QED
    BY <1>1, <1>2, <1>3, <1>4, InitialRecords, Continues
    DEF Acquire, Others, AfterKept, UnchangedSales, UnchangedAfter, UnchangedWorld

UnderLockFrame == UNCHANGED <<lock, faults, db, analysisOn>> /\ AfterKept

LEMMA StartFindsEffect ==
  ASSUME TypeOK, NEW r \in Requests, StartFinds(r)
  PROVE  /\ req[r].pc = "start"
         /\ Others(r) /\ TxKept /\ req'[r].pc \in {"create", "start", "commit"}
         /\ req'[r].reserved = req[r].reserved
         /\ req'[r].pc = "create" => req'[r].stage = req[r].stage /\ Count(req[r].stage) = 0
         /\ UnderLockFrame /\ UNCHANGED <<made, paid, binding, gw>>
  <1>t. req[r] \in ReqRecords  BY TypeFacts
  <1>p. {"create", "start", "commit"} \subseteq Pcs  BY DEF Pcs
  <1>f. req[r].pc = "start" /\ UnderLockFrame /\ UNCHANGED <<made, paid, binding, gw>>
    BY DEF StartFinds, UnderLockFrame, AfterKept, UnchangedUnderLock, UnchangedSales,
           UnchangedAfter, UnchangedWorld
  <1> DEFINE stage == req[r].stage
  <1>s. stage \in Stages  BY <1>t DEF ReqRecords
  <1>1. CASE Count(stage) = 0 /\ Continue(r, "create", req[r]) /\ UNCHANGED tx
    BY <1>1, <1>t, <1>p, <1>f, Continues, SameTx DEF Others
  <1>2. CASE stage # "session" /\ UNCHANGED tx
             /\ Continue(r, "start", [req[r] EXCEPT !.stage = After(stage)])
    <2>1. PICK m : m = [req[r] EXCEPT !.stage = After(stage)]  OBVIOUS
    <2>2. After(stage) \in Stages  BY <1>2, <1>s DEF Stages, After
    <2>3. m \in ReqRecords /\ m.reserved = req[r].reserved  BY <1>t, <2>1, <2>2 DEF ReqRecords
    <2>4. Continue(r, "start", m)  BY <1>2, <2>1
    <2> QED  BY <2>3, <2>4, <1>2, <1>p, <1>f, Continues, SameTx DEF Others
  <1>3. CASE RaiseException(r)
    BY <1>3, <1>f, RaiseEffect
  <1>4. CASE Continue(r, "commit", req[r]) /\ UNCHANGED tx
    BY <1>4, <1>t, <1>p, <1>f, Continues, SameTx DEF Others
  <1>c. Count(stage) = 0 \/ Count(stage) > 0
    <2>1. Count(stage) \in Nat  BY <1>s, TypeFacts, LenProperties DEF Count, Stages
    <2> QED  BY <2>1
  <1> QED  BY <1>1, <1>2, <1>3, <1>4, <1>c DEF StartFinds

LEMMA StartCreatesEffect ==
  ASSUME TypeOK, NEW r \in Requests, StartCreates(r)
  PROVE  /\ req[r].pc = "create"
         /\ Others(r) /\ TxKept /\ req'[r].pc = "start" /\ req'[r].reserved = req[r].reserved
         /\ \/ gw' = Append(gw, "authorized") /\ req[r].stage = "session" /\ made' = made
            \/ req[r].stage \in {"quote", "order", "payment"} /\ gw' = gw
               /\ made' = [made EXCEPT ![req[r].stage] = @ + 1]
         /\ UnderLockFrame /\ UNCHANGED <<paid, binding>>
  <1>t. req[r] \in ReqRecords  BY TypeFacts
  <1>s. req[r].stage \in Stages  BY <1>t DEF ReqRecords
  <1>p. "start" \in Pcs  BY DEF Pcs
  <1>1. Continue(r, "start", req[r]) /\ UNCHANGED tx  BY DEF StartCreates
  <1>2. Others(r) /\ TxKept /\ req'[r].pc = "start" /\ req'[r].reserved = req[r].reserved
    BY <1>1, <1>t, <1>p, Continues, SameTx DEF Others
  <1> QED  BY <1>2, <1>s DEF StartCreates, UnderLockFrame, AfterKept, UnchangedAfter, Stages

LEMMA RetryEffect ==
  ASSUME TypeOK, NEW r \in Requests, RetryPayment(r)
  PROVE  /\ req[r].pc = "retry"
         /\ Others(r) /\ TxKept /\ req'[r].pc = "commit" /\ req'[r].reserved = req[r].reserved
         /\ \/ gw' = gw
            \/ gw' = Append(gw, "authorized") /\ gw # <<>> /\ Newest = "failed"
         /\ UnderLockFrame /\ UNCHANGED <<made, paid, binding>>
  <1>t. req[r] \in ReqRecords  BY TypeFacts
  <1>p. "commit" \in Pcs  BY DEF Pcs
  <1>f. req[r].pc = "retry" /\ UnderLockFrame /\ UNCHANGED <<made, paid, binding>>
    BY DEF RetryPayment, UnderLockFrame, AfterKept, UnchangedSales, UnchangedAfter
  <1>1. CASE binding.bound # "none" \/ made["payment"] = 0 \/ gw = <<>>
    <2>1. Continue(r, "commit", req[r]) /\ UNCHANGED <<tx, gw>>  BY <1>1 DEF RetryPayment
    <2> QED  BY <2>1, <1>t, <1>p, <1>f, Continues, SameTx DEF Others
  <1>2. CASE ~(binding.bound # "none" \/ made["payment"] = 0 \/ gw = <<>>) /\ Newest = "mismatched"
    <2>1. RaiseException(r) /\ UNCHANGED gw  BY <1>2 DEF RetryPayment
    <2> QED  BY <2>1, <1>f, RaiseEffect
  <1>3. CASE ~(binding.bound # "none" \/ made["payment"] = 0 \/ gw = <<>>) /\ Newest # "mismatched"
    <2>1. Continue(r, "commit", req[r]) /\ UNCHANGED tx
      BY <1>3 DEF RetryPayment
    <2>2. PICK i \in DOMAIN gw :
            gw' = IF Retryable(i) /\ i = Len(gw) /\ Len(gw) < MaxSessions
                  THEN Append(gw, "authorized") ELSE gw
      BY <1>3 DEF RetryPayment
    <2>3. gw' = gw \/ (gw' = Append(gw, "authorized") /\ Newest = "failed")
      BY <2>2 DEF Retryable, Newest
    <2> QED  BY <1>3, <2>1, <2>3, <1>t, <1>p, <1>f, Continues, SameTx DEF Others
  <1> QED  BY <1>1, <1>2, <1>3

LEMMA NewestType ==
  ASSUME TypeOK, gw # <<>>
  PROVE  Newest \in GwStatus /\ Len(gw) \in 1..Len(gw)
  BY TypeFacts, EmptySeq, LenProperties DEF Newest

LEMMA ConfirmEffect ==
  ASSUME TypeOK, NEW r \in Requests, ConfirmLoads(r)
  PROVE  /\ req[r].pc = "confirm"
         /\ Others(r) /\ TxKept /\ req'[r].pc \in {"capture", "reconcile", "commit"}
         /\ req'[r].reserved = req[r].reserved
         /\ req'[r].pc # "commit" => req'[r].view = binding /\ gw # <<>>
         /\ req'[r].pc = "reconcile" => gw # <<>> /\ Newest = "captured"
         /\ UnderLockFrame /\ UNCHANGED <<made, paid, binding, gw>>
  <1>t. req[r] \in ReqRecords /\ binding \in BindingType  BY TypeFacts
  <1>p. {"capture", "reconcile", "commit"} \subseteq Pcs  BY DEF Pcs
  <1>f. req[r].pc = "confirm" /\ UnderLockFrame /\ UNCHANGED <<made, paid, binding, gw>>
    BY DEF ConfirmLoads, UnderLockFrame, AfterKept, UnchangedUnderLock, UnchangedSales,
           UnchangedAfter, UnchangedWorld
  <1>1. CASE made["payment"] = 0 \/ gw = <<>>
    <2>1. Continue(r, "commit", req[r]) /\ UNCHANGED tx  BY <1>1 DEF ConfirmLoads
    <2> QED  BY <2>1, <1>t, <1>p, <1>f, Continues, SameTx DEF Others
  <1>2. CASE ~(made["payment"] = 0 \/ gw = <<>>) /\ Newest \in Discrepant
    <2>1. RaiseException(r)  BY <1>2 DEF ConfirmLoads
    <2> QED  BY <2>1, <1>f, RaiseEffect
  <1>3. CASE ~(made["payment"] = 0 \/ gw = <<>>) /\ Newest \notin Discrepant
    <2>1. PICK m : m = [req[r] EXCEPT !.view = binding, !.verified = Newest = "captured"]  OBVIOUS
    <2>2. m \in ReqRecords /\ m.view = binding /\ m.reserved = req[r].reserved
      BY <2>1, <1>t DEF ReqRecords
    <2>3. Continue(r, Verdict(Newest), m) /\ UNCHANGED tx  BY <1>3, <2>1 DEF ConfirmLoads
    <2>4. Newest \in {"authorized", "captured", "failed"}  BY <1>3, NewestType DEF GwStatus
    <2>5. /\ Verdict(Newest) \in {"capture", "reconcile", "commit"}
          /\ Verdict(Newest) = "reconcile" => Newest = "captured"
      BY <2>4 DEF Verdict
    <2>6. Verdict(Newest) \in Pcs  BY <2>5, <1>p
    <2>7. PICK pc \in Pcs : pc = Verdict(Newest)  BY <2>6
    <2>8. /\ Others(r) /\ TxKept /\ req'[r].pc = pc /\ req'[r].view = binding
          /\ req'[r].reserved = req[r].reserved
      BY <2>2, <2>3, <2>7, Continues, SameTx DEF Others
    <2> QED  BY <1>3, <1>f, <2>5, <2>7, <2>8
  <1> QED  BY <1>1, <1>2, <1>3

LEMMA CaptureEffect ==
  ASSUME TypeInv, NEW r \in Requests, Capture(r)
  PROVE  /\ req[r].pc = "capture"
         /\ Others(r) /\ tx' \in TxType /\ TxRows
         /\ req'[r].pc \in {"reconcile", "commit"} /\ req'[r].reserved = req[r].reserved
         /\ tx.captured => tx'.captured
         /\ req'[r].pc = "reconcile" => tx'.captured /\ req'[r].view = req[r].view
         /\ UnderLockFrame /\ UNCHANGED <<made, paid, binding, gw>>
         /\ gw # <<>>
  <1>t. req[r] \in ReqRecords /\ tx \in TxType /\ TypeOK  BY TypeFacts DEF TypeInv
  <1>p. {"reconcile", "commit"} \subseteq Pcs  BY DEF Pcs
  <1>f. req[r].pc = "capture" /\ UnderLockFrame /\ UNCHANGED <<made, paid, binding, gw>>
    BY DEF Capture, UnderLockFrame, AfterKept, UnchangedUnderLock, UnchangedSales,
           UnchangedAfter, UnchangedWorld
  <1>g. gw # <<>>  BY <1>f DEF TypeInv, HasSession
  <1>1. CASE Newest \in {"authorized", "captured"}
    <2>1. PICK m : m = [req[r] EXCEPT !.verified = TRUE]  OBVIOUS
    <2>2. m \in ReqRecords /\ m.view = req[r].view /\ m.reserved = req[r].reserved
      BY <2>1, <1>t DEF ReqRecords
    <2>3. Continue(r, "reconcile", m) /\ tx' = [tx EXCEPT !.captured = TRUE]
      BY <1>1, <2>1 DEF Capture, Discrepant
    <2>4. tx' \in TxType /\ TxRows /\ tx'.captured  BY <2>3, <1>t DEF TxType, TxRows
    <2> QED  BY <2>2, <2>3, <2>4, <1>t, <1>p, <1>f, <1>g, Continues DEF Others
  <1>2. CASE Newest = "failed"
    <2>1. Continue(r, "commit", req[r]) /\ UNCHANGED tx  BY <1>2 DEF Capture, Discrepant
    <2> QED  BY <2>1, <1>t, <1>p, <1>f, <1>g, Continues, SameTx DEF Others, TxKept
  <1>3. CASE Newest \in Discrepant
    <2>1. RaiseException(r)  BY <1>3 DEF Capture, Discrepant
    <2> QED  BY <2>1, <1>t, <1>f, <1>g, RaiseEffect DEF TxKept
  <1> QED  BY <1>1, <1>2, <1>3, <1>g, <1>t, NewestType DEF GwStatus

LEMMA ReconcileEffect ==
  ASSUME TypeOK, NEW r \in Requests, Reconcile(r)
  PROVE  /\ req[r].pc = "reconcile"
         /\ Others(r) /\ TxKept /\ req'[r].pc \in {"reserve", "activate"}
         /\ req'[r].reserved = req[r].reserved /\ req'[r].view = req[r].view
         /\ req'[r].pc = "reserve" => req[r].view.conf \in RetriedConfirmation
         /\ paid' = TRUE
         /\ UnderLockFrame /\ UNCHANGED <<made, binding, gw>>
  <1>t. req[r] \in ReqRecords  BY TypeFacts
  <1>p. {"reserve", "activate"} \subseteq Pcs  BY DEF Pcs
  <1>f. req[r].pc = "reconcile" /\ UnderLockFrame /\ paid' = TRUE /\ UNCHANGED <<made, binding, gw>>
    BY DEF Reconcile, UnderLockFrame, AfterKept, UnchangedUnderLock, UnchangedAfter, UnchangedWorld
  <1>1. UNCHANGED tx  BY DEF Reconcile
  <1>2. CASE req[r].view.conf \in RetriedConfirmation
    <2>1. Continue(r, "reserve", req[r])  BY <1>2 DEF Reconcile
    <2> QED  BY <2>1, <1>1, <1>2, <1>t, <1>p, <1>f, Continues, SameTx DEF Others
  <1>3. CASE req[r].view.conf \notin RetriedConfirmation
    <2>1. Continue(r, "activate", req[r])  BY <1>3 DEF Reconcile
    <2> QED  BY <2>1, <1>1, <1>t, <1>p, <1>f, Continues, SameTx DEF Others
  <1> QED  BY <1>2, <1>3

LEMMA ReserveLoadsEffect ==
  ASSUME TypeOK, NEW r \in Requests, ReserveLoads(r)
  PROVE  /\ req[r].pc = "reserve"
         /\ Others(r) /\ TxKept /\ req'[r].pc = "reserving"
         /\ req'[r].reserved = req[r].reserved /\ req'[r].view = req[r].view
         /\ req'[r].snap = binding
         /\ UnderLockFrame /\ UNCHANGED <<made, paid, binding, gw>>
  <1>t. req[r] \in ReqRecords /\ binding \in BindingType  BY TypeFacts
  <1>p. "reserving" \in Pcs  BY DEF Pcs
  <1>1. PICK m : m = [req[r] EXCEPT !.snap = binding]  OBVIOUS
  <1>2. m \in ReqRecords /\ m.view = req[r].view /\ m.reserved = req[r].reserved /\ m.snap = binding
    BY <1>1, <1>t DEF ReqRecords
  <1>3. Continue(r, "reserving", m) /\ UNCHANGED tx  BY <1>1 DEF ReserveLoads
  <1>4. /\ Others(r) /\ TxKept /\ req'[r].pc = "reserving"
        /\ req'[r].reserved = req[r].reserved /\ req'[r].view = req[r].view
        /\ req'[r].snap = binding
    BY <1>2, <1>3, <1>p, Continues, SameTx DEF Others
  <1> QED
    BY <1>4 DEF ReserveLoads, UnderLockFrame, AfterKept, UnchangedUnderLock, UnchangedSales,
                UnchangedAfter, UnchangedWorld

\* The binding a reservation, an activation and an outcome write.
LEMMA ReservationFields ==
  ASSUME TypeOK, NEW r \in Requests
  PROVE  /\ Reservation(r) \in BindingType
         /\ Reservation(r).bound = req[r].snap.bound /\ Reservation(r).offer = req[r].snap.offer
         /\ Reservation(r).by = r
         /\ Reservation(r).offer => Reservation(r).conf = "sending"
         /\ ~Reservation(r).offer => Reservation(r).conf = "waiting_input"
  <1>t. req[r].snap \in BindingType  BY TypeFacts DEF ReqRecords
  <1> QED  BY <1>t DEF Reservation, BindingType

LEMMA ActivationFields ==
  ASSUME TypeOK, NEW r \in Requests
  PROVE  /\ Activation(r) \in BindingType
         /\ Activation(r).bound = req[r].layout /\ Activation(r).conf = req[r].snap.conf
         /\ Activation(r).by = req[r].snap.by
  <1>t. req[r].snap \in BindingType /\ req[r].layout \in Layouts  BY TypeFacts DEF ReqRecords
  <1> QED  BY <1>t DEF Activation, BindingType, Layouts

LEMMA OutcomeFields ==
  ASSUME TypeOK, NEW r \in Requests
  PROVE  /\ Outcome(r) \in BindingType
         /\ Outcome(r).bound = mail[r].snap.bound /\ Outcome(r).conf = mail[r].outcome
         /\ Outcome(r).by = r
  <1>t. /\ mail[r].snap \in BindingType
        /\ mail[r].outcome \in {"none", "sent", "waiting_configuration", "failed"}
    BY TypeFacts DEF MailRecords
  <1> QED  BY <1>t DEF Outcome, BindingType

LEMMA ReserveWritesEffect ==
  ASSUME TypeOK, NEW r \in Requests, ReserveWrites(r)
  PROVE  /\ req[r].pc = "reserving"
         /\ Others(r) /\ TxKept /\ req'[r].pc = "activate"
         /\ binding' = Reservation(r) /\ binding' \in BindingType
         /\ req'[r].view = binding' /\ req'[r].reserved = binding'.offer
         /\ UnderLockFrame /\ UNCHANGED <<made, paid, gw>>
  <1>t. req[r] \in ReqRecords  BY TypeFacts
  <1>p. "activate" \in Pcs  BY DEF Pcs
  <1>b. binding' = Reservation(r) /\ binding' \in BindingType
    BY ReservationFields DEF ReserveWrites
  <1>1. PICK m : m = [req[r] EXCEPT !.view = binding', !.reserved = binding'.offer]  OBVIOUS
  <1>2. m \in ReqRecords /\ m.view = binding' /\ m.reserved = binding'.offer
    BY <1>1, <1>b, <1>t DEF ReqRecords, BindingType
  <1>3. Continue(r, "activate", m) /\ UNCHANGED tx  BY <1>1 DEF ReserveWrites
  <1>4. /\ Others(r) /\ TxKept /\ req'[r].pc = "activate"
        /\ req'[r].view = binding' /\ req'[r].reserved = binding'.offer
    BY <1>2, <1>3, <1>p, Continues, SameTx DEF Others
  <1> QED
    BY <1>4, <1>b DEF ReserveWrites, UnderLockFrame, AfterKept, UnchangedUnderLock,
                      UnchangedAfter, UnchangedWorld

LEMMA ReserveFailsEffect ==
  ASSUME TypeOK, NEW r \in Requests, ReserveFails(r)
  PROVE  /\ req[r].pc \in {"reserve", "reserving"}
         /\ Others(r) /\ TxKept /\ req'[r].pc = "activate"
         /\ req'[r].reserved = req[r].reserved /\ req'[r].view = req[r].view
         /\ binding' = binding \/ (req[r].pc = "reserving" /\ binding' = Reservation(r))
         /\ faults' \in Nat /\ UNCHANGED <<lock, db, analysisOn>> /\ AfterKept
         /\ UNCHANGED <<made, paid, gw>>
  <1>t. req[r] \in ReqRecords  BY TypeFacts
  <1>p. "activate" \in Pcs  BY DEF Pcs
  <1>3. Continue(r, "activate", req[r]) /\ UNCHANGED tx  BY DEF ReserveFails
  <1>4. /\ Others(r) /\ TxKept /\ req'[r].pc = "activate"
        /\ req'[r].reserved = req[r].reserved /\ req'[r].view = req[r].view
    BY <1>t, <1>3, <1>p, Continues, SameTx DEF Others
  <1>5. binding' = binding \/ (req[r].pc = "reserving" /\ binding' = Reservation(r))
    BY DEF ReserveFails, SavedOrNot
  <1>6. faults' \in Nat  BY TypeFacts DEF ReserveFails, Fault
  <1> QED  BY <1>4, <1>5, <1>6 DEF ReserveFails, AfterKept, UnchangedAfter, UnchangedWorld

\* The three outcomes of activatePaidPurchase.
LEMMA ActivatedFields ==
  ASSUME TypeOK
  PROVE  /\ Activated \in Rows
         /\ Activated.case = Layout /\ Activated.link = Layout /\ Layout \in {"demo", "analysis"}
         /\ Activated.demo = IF Layout = "demo" /\ Seen("demo") = "none" THEN "waiting" ELSE tx.rows.demo
         /\ Activated.analysis = IF Layout = "analysis" /\ Seen("analysis") = "none" THEN "start"
                                 ELSE tx.rows.analysis
  <1>t. tx.rows \in Rows  BY TypeFacts DEF TxType
  <1>1. CASE Layout = "analysis"
    <2> DEFINE a == IF Seen("analysis") = "none" THEN "start" ELSE tx.rows.analysis
    <2>1. Activated = [tx.rows EXCEPT !.case = "analysis", !.link = "analysis", !.analysis = a]
      BY <1>1 DEF Activated
    <2>2. a \in {"none", "start", "dispatched", "failed"}  BY <1>t DEF Rows
    <2> HIDE DEF a
    <2>3. /\ Activated \in Rows /\ Activated.case = "analysis" /\ Activated.link = "analysis"
          /\ Activated.demo = tx.rows.demo /\ Activated.analysis = a
      BY <2>1, <2>2, <1>t DEF Rows
    <2> QED  BY <1>1, <2>3 DEF a
  <1>2. CASE Layout = "demo"
    <2> DEFINE d == IF Seen("demo") = "none" THEN "waiting" ELSE tx.rows.demo
    <2>1. Activated = [tx.rows EXCEPT !.case = "demo", !.link = "demo", !.demo = d]
      BY <1>2 DEF Activated
    <2>2. d \in {"none", "waiting"}  BY <1>t DEF Rows
    <2> HIDE DEF d
    <2>3. /\ Activated \in Rows /\ Activated.case = "demo" /\ Activated.link = "demo"
          /\ Activated.demo = d /\ Activated.analysis = tx.rows.analysis
      BY <2>1, <2>2, <1>t DEF Rows
    <2> QED  BY <1>2, <2>3 DEF d
  <1> QED  BY <1>1, <1>2 DEF Layout

ActivateSkips(r) == req'[r].pc = "commit" /\ TxKept
ActivateWrites(r) ==
    /\ req'[r].pc = "save" /\ req'[r].layout = Layout /\ ~Conflicts
    /\ tx' \in TxType /\ tx'.captured = tx.captured /\ tx'.rows = Activated

LEMMA ActivateEffect ==
  ASSUME TypeOK, NEW r \in Requests, Activate(r)
  PROVE  /\ req[r].pc = "activate"
         /\ Others(r) /\ req'[r].reserved = req[r].reserved /\ req'[r].view = req[r].view
         /\ req'[r].snap = req[r].snap
         /\ ActivateSkips(r) \/ (req[r].view.bound = "none" /\ ActivateWrites(r))
         /\ UnderLockFrame /\ UNCHANGED <<made, paid, binding, gw>>
  <1>t. req[r] \in ReqRecords /\ tx \in TxType  BY TypeFacts
  <1>p. {"commit", "save"} \subseteq Pcs  BY DEF Pcs
  <1>f. req[r].pc = "activate" /\ UnderLockFrame /\ UNCHANGED <<made, paid, binding, gw>>
    BY DEF Activate, UnderLockFrame, AfterKept, UnchangedUnderLock, UnchangedSales,
           UnchangedAfter, UnchangedWorld
  <1>1. CASE req[r].view.bound # "none"
    <2>1. Continue(r, "commit", req[r]) /\ UNCHANGED tx  BY <1>1 DEF Activate
    <2> QED  BY <2>1, <1>t, <1>p, <1>f, Continues, SameTx DEF Others, ActivateSkips
  <1>2. CASE req[r].view.bound = "none" /\ Conflicts
    <2>1. PICK m : m = [req[r] EXCEPT !.failed = TRUE]  OBVIOUS
    <2>2. m \in ReqRecords /\ m.view = req[r].view /\ m.reserved = req[r].reserved /\ m.snap = req[r].snap
      BY <2>1, <1>t DEF ReqRecords
    <2>3. Continue(r, "commit", m) /\ UNCHANGED tx  BY <1>2, <2>1 DEF Activate
    <2> QED  BY <2>2, <2>3, <1>t, <1>p, <1>f, Continues, SameTx DEF Others, ActivateSkips
  <1>3. CASE req[r].view.bound = "none" /\ ~Conflicts
    <2> DEFINE g == Layout = "analysis" /\ Seen("analysis") \in {"none", "start"}
    <2>1. PICK m : m = [req[r] EXCEPT !.layout = Layout, !.launch = g]  OBVIOUS
    <2>2. Layout \in Layouts  BY DEF Layout, Layouts
    <2>3. g \in BOOLEAN  OBVIOUS
    <2>4. Continue(r, "save", m) /\ tx' = [tx EXCEPT !.rows = Activated]
      BY <1>3, <2>1 DEF Activate
    <2> HIDE DEF g
    <2>5. /\ m \in ReqRecords /\ m.view = req[r].view /\ m.reserved = req[r].reserved
          /\ m.snap = req[r].snap /\ m.layout = Layout
      BY <2>1, <2>2, <2>3, <1>t DEF ReqRecords
    <2>6. tx' \in TxType /\ tx'.captured = tx.captured /\ tx'.rows = Activated
      BY <2>4, <1>t, ActivatedFields DEF TxType
    <2>7. /\ Others(r) /\ req'[r].reserved = req[r].reserved /\ req'[r].view = req[r].view
          /\ req'[r].pc = "save" /\ req'[r].layout = Layout /\ req'[r].snap = req[r].snap
      BY <2>4, <2>5, <1>p, Continues DEF Others
    <2> QED  BY <1>3, <2>6, <2>7, <1>f DEF ActivateWrites
  <1> QED  BY <1>1, <1>2, <1>3

\* Activation fails with or without the case it created.
CaseStays ==
    /\ ~Conflicts /\ tx' \in TxType /\ tx'.captured = tx.captured
    /\ tx'.rows.case = Layout /\ tx'.rows.link = tx.rows.link
    /\ tx'.rows.demo = tx.rows.demo /\ tx'.rows.analysis = tx.rows.analysis

LEMMA ActivationFailsEffect ==
  ASSUME TypeOK, NEW r \in Requests, ActivationFails(r)
  PROVE  /\ req[r].pc = "activate" /\ req[r].view.bound = "none"
         /\ Others(r) /\ req'[r].pc = "commit" /\ req'[r].reserved = req[r].reserved
         /\ TxKept \/ CaseStays
         /\ faults' \in Nat /\ UNCHANGED <<lock, db, analysisOn>> /\ AfterKept
         /\ UNCHANGED <<made, paid, binding, gw>>
  <1>t. req[r] \in ReqRecords /\ tx \in TxType  BY TypeFacts
  <1>p. "commit" \in Pcs  BY DEF Pcs
  <1>1. PICK m : m = [req[r] EXCEPT !.failed = TRUE]  OBVIOUS
  <1>2. m \in ReqRecords /\ m.reserved = req[r].reserved  BY <1>1, <1>t DEF ReqRecords
  <1>3. Continue(r, "commit", m)  BY <1>1 DEF ActivationFails
  <1>4. Others(r) /\ req'[r].pc = "commit" /\ req'[r].reserved = req[r].reserved
    BY <1>2, <1>3, <1>p, Continues DEF Others
  <1>5. TxKept \/ CaseStays
    <2>1. CASE UNCHANGED tx  BY <2>1, SameTx
    <2>2. CASE ~Conflicts /\ tx' = [tx EXCEPT !.rows.case = Layout]
      <3>1. Layout \in {"demo", "analysis"}  BY DEF Layout
      <3> QED  BY <2>2, <3>1, <1>t DEF TxType, Rows, CaseStays
    <2> QED  BY <2>1, <2>2 DEF ActivationFails
  <1>6. faults' \in Nat  BY TypeFacts DEF ActivationFails, Fault
  <1> QED
    BY <1>4, <1>5, <1>6 DEF ActivationFails, AfterKept, UnchangedSales, UnchangedAfter, UnchangedWorld

LEMMA SaveLoadsEffect ==
  ASSUME TypeOK, NEW r \in Requests, SaveLoads(r)
  PROVE  /\ req[r].pc = "save"
         /\ Others(r) /\ TxKept /\ req'[r].pc = "saving"
         /\ req'[r].reserved = req[r].reserved /\ req'[r].view = req[r].view
         /\ req'[r].layout = req[r].layout /\ req'[r].snap = binding
         /\ UnderLockFrame /\ UNCHANGED <<made, paid, binding, gw>>
  <1>t. req[r] \in ReqRecords /\ binding \in BindingType  BY TypeFacts
  <1>p. "saving" \in Pcs  BY DEF Pcs
  <1>1. PICK m : m = [req[r] EXCEPT !.snap = binding]  OBVIOUS
  <1>2. /\ m \in ReqRecords /\ m.view = req[r].view /\ m.reserved = req[r].reserved
        /\ m.snap = binding /\ m.layout = req[r].layout
    BY <1>1, <1>t DEF ReqRecords
  <1>3. Continue(r, "saving", m) /\ UNCHANGED tx  BY <1>1 DEF SaveLoads
  <1>4. /\ Others(r) /\ TxKept /\ req'[r].pc = "saving"
        /\ req'[r].reserved = req[r].reserved /\ req'[r].view = req[r].view
        /\ req'[r].layout = req[r].layout /\ req'[r].snap = binding
    BY <1>2, <1>3, <1>p, Continues, SameTx DEF Others
  <1> QED
    BY <1>4 DEF SaveLoads, UnderLockFrame, AfterKept, UnchangedUnderLock, UnchangedSales,
                UnchangedAfter, UnchangedWorld

LEMMA SaveWritesEffect ==
  ASSUME TypeOK, NEW r \in Requests, SaveWrites(r)
  PROVE  /\ req[r].pc = "saving"
         /\ Others(r) /\ TxKept /\ req'[r].pc = "commit" /\ req'[r].reserved = req[r].reserved
         /\ binding' = Activation(r)
         /\ UnderLockFrame /\ UNCHANGED <<made, paid, gw>>
  <1>t. req[r] \in ReqRecords  BY TypeFacts
  <1>p. "commit" \in Pcs  BY DEF Pcs
  <1>b. binding' = Activation(r) /\ binding' \in BindingType  BY ActivationFields DEF SaveWrites
  <1>1. PICK m : m = [req[r] EXCEPT !.view = binding']  OBVIOUS
  <1>2. m \in ReqRecords /\ m.reserved = req[r].reserved  BY <1>1, <1>b, <1>t DEF ReqRecords
  <1>3. Continue(r, "commit", m) /\ UNCHANGED tx  BY <1>1 DEF SaveWrites
  <1>4. Others(r) /\ TxKept /\ req'[r].pc = "commit" /\ req'[r].reserved = req[r].reserved
    BY <1>2, <1>3, <1>p, Continues, SameTx DEF Others
  <1> QED
    BY <1>4, <1>b DEF SaveWrites, UnderLockFrame, AfterKept, UnchangedUnderLock,
                      UnchangedAfter, UnchangedWorld

LEMMA SaveFailsEffect ==
  ASSUME TypeOK, NEW r \in Requests, SaveFails(r)
  PROVE  /\ req[r].pc \in {"save", "saving"}
         /\ Others(r) /\ TxKept /\ req'[r].pc = "commit" /\ req'[r].reserved = req[r].reserved
         /\ binding' = binding \/ (req[r].pc = "saving" /\ binding' = Activation(r))
         /\ faults' \in Nat /\ UNCHANGED <<lock, db, analysisOn>> /\ AfterKept
         /\ UNCHANGED <<made, paid, gw>>
  <1>t. req[r] \in ReqRecords  BY TypeFacts
  <1>p. "commit" \in Pcs  BY DEF Pcs
  <1>1. PICK m : m = [req[r] EXCEPT !.failed = TRUE, !.launch = FALSE]  OBVIOUS
  <1>2. m \in ReqRecords /\ m.reserved = req[r].reserved  BY <1>1, <1>t DEF ReqRecords
  <1>3. Continue(r, "commit", m) /\ UNCHANGED tx  BY <1>1 DEF SaveFails
  <1>4. Others(r) /\ TxKept /\ req'[r].pc = "commit" /\ req'[r].reserved = req[r].reserved
    BY <1>2, <1>3, <1>p, Continues, SameTx DEF Others
  <1>5. binding' = binding \/ (req[r].pc = "saving" /\ binding' = Activation(r))
    BY DEF SaveFails, SavedOrNot
  <1>6. faults' \in Nat  BY TypeFacts DEF SaveFails, Fault
  <1> QED  BY <1>4, <1>5, <1>6 DEF SaveFails, AfterKept, UnchangedAfter, UnchangedWorld

SalesKept == UNCHANGED <<made, paid, binding>>

\* What the lock holder saw is what the commit leaves.
LEMMA MergedFields ==
  ASSUME TypeOK
  PROVE  /\ Merged \in Rows
         /\ Merged.case = Seen("case") /\ Merged.link = Seen("link") /\ Merged.demo = Seen("demo")
         /\ Merged.analysis = Seen("analysis")
  <1>t. tx.rows \in Rows /\ db \in Rows  BY TypeFacts DEF TxType
  <1>1. DOMAIN db = {"case", "link", "demo", "analysis", "exception"}  BY <1>t DEF Rows
  <1>2. /\ Seen("case") \in {"none", "demo", "analysis", "upgraded"}
        /\ Seen("link") \in {"none", "demo", "analysis"} /\ Seen("demo") \in {"none", "waiting"}
        /\ Seen("analysis") \in {"none", "start", "dispatched", "failed"}
        /\ Seen("exception") \in {"none", "start", "waiting"}
    BY <1>t DEF Seen, Rows
  <1>3. Merged = [f \in {"case", "link", "demo", "analysis", "exception"} |-> Seen(f)]
    BY <1>1 DEF Merged
  <1>4. Merged \in Rows
    <2>1. Merged = [case |-> Seen("case"), link |-> Seen("link"), demo |-> Seen("demo"),
                    analysis |-> Seen("analysis"), exception |-> Seen("exception")]
      BY <1>3, Zenon
    <2> QED  BY <2>1, <1>2 DEF Rows
  <1> QED  BY <1>3, <1>4

\* What a transaction's capture leaves in the list of gateway transactions.
GwCaptures ==
    \/ ~tx.captured /\ gw' = gw
    \/ tx.captured /\ gw' = [gw EXCEPT ![Len(gw)] = "captured"]

LEMMA CommitEffect ==
  ASSUME TypeOK, NEW r \in Requests, Commit(r)
  PROVE  /\ req[r].pc = "commit" /\ lock' = None
         /\ Others(r) /\ req'[r].pc = "idle" /\ req'[r].reserved = FALSE
         /\ db' = Merged /\ GwCaptures /\ tx' = NoTx
         /\ mail' \in [Requests -> MailRecords]
         /\ mail'[r].pc = (IF req[r].reserved THEN "deliver" ELSE "none")
         /\ \A q \in Requests \ {r} : mail'[q] = mail[q]
         /\ work' \in [Requests -> WorkPcs] /\ work'[r] # "enqueued"
         /\ \A q \in Requests \ {r} : work'[q] = work[q]
         /\ UNCHANGED <<analysisOn, mails, research, lost, faults, made, paid, binding>>
  <1>t. /\ req[r] \in ReqRecords /\ mail \in [Requests -> MailRecords]
        /\ work \in [Requests -> WorkPcs]
    BY TypeFacts
  <1>p. "idle" \in Pcs  BY DEF Pcs
  <1>1. Continue(r, "idle", Idle)  BY DEF Commit
  <1>2. Others(r) /\ req'[r].pc = "idle" /\ req'[r].reserved = FALSE
    BY <1>1, <1>p, Continues, InitialRecords DEF Others
  <1>3. PICK w : w = (IF req[r].reserved THEN "deliver" ELSE "none")  OBVIOUS
  <1>4. w \in MailPcs  BY <1>3 DEF MailPcs
  <1>5. mail' = [mail EXCEPT ![r].pc = w]  BY <1>3 DEF Commit
  <1>6. PICK k : k = [mail[r] EXCEPT !.pc = w]  OBVIOUS
  <1>7. mail' = [mail EXCEPT ![r] = k]  BY <1>5, <1>6, <1>t
  <1>8. k \in MailRecords /\ k.pc = w  BY <1>6, <1>4, <1>t DEF MailRecords
  <1>9. /\ mail' \in [Requests -> MailRecords] /\ mail'[r].pc = w
        /\ \A q \in Requests \ {r} : mail'[q] = mail[q]
    BY <1>7, <1>8, <1>t
  <1>10. Branch(r) \in WorkPcs /\ Branch(r) # "enqueued"  BY DEF Branch, WorkPcs
  <1>11. /\ work' \in [Requests -> WorkPcs] /\ work'[r] # "enqueued"
         /\ \A q \in Requests \ {r} : work'[q] = work[q]
    BY <1>10, <1>t DEF Commit
  <1>12. GwCaptures  BY DEF Commit, GwCaptures
  <1> QED  BY <1>2, <1>3, <1>9, <1>11, <1>12 DEF Commit, UnchangedSales

LEMMA AbortEffect ==
  ASSUME TypeOK, NEW r \in Requests, Abort(r)
  PROVE  /\ req[r].pc # "idle" /\ lock' = None /\ "in_lock" \in Faults
         /\ Others(r) /\ req'[r].pc = "idle" /\ req'[r].reserved = FALSE
         /\ tx' = NoTx
         /\ faults' \in Nat /\ SalesKept /\ AfterKept /\ UNCHANGED <<gw, db, analysisOn>>
  <1>p. "idle" \in Pcs  BY DEF Pcs
  <1>1. Continue(r, "idle", Idle)  BY DEF Abort
  <1>2. Others(r) /\ req'[r].pc = "idle" /\ req'[r].reserved = FALSE
    BY <1>1, <1>p, Continues, InitialRecords DEF Others
  <1>3. faults' \in Nat  BY TypeFacts DEF Abort, Fault
  <1> QED
    BY <1>2, <1>3
    DEF Abort, Fault, UnchangedSales, SalesKept, UnchangedAfter, AfterKept, UnchangedWorld

LockKept == UNCHANGED <<lock, req, tx, made, paid, gw, analysisOn>>

LEMMA DeliverEffect ==
  ASSUME TypeOK, NEW r \in Requests, Deliver(r)
  PROVE  /\ mail[r].pc = "deliver"
         /\ mail' \in [Requests -> MailRecords] /\ \A q \in Requests \ {r} : mail'[q] = mail[q]
         /\ mail'[r].pc = "report" /\ mail'[r].snap = mail[r].snap
         /\ \/ mails' = mails + 1 /\ (mail'[r].outcome = "sent" \/ "mail_answer" \in Faults)
            \/ mails' = mails
         /\ faults' \in Nat /\ LockKept /\ UNCHANGED <<work, binding, db, research, lost>>
  <1>t. mail[r] \in MailRecords  BY TypeFacts
  <1>p. "report" \in MailPcs  BY DEF MailPcs
  <1>f. LockKept /\ UNCHANGED <<work, binding, db, research, lost>> /\ mail[r].pc = "deliver"
    BY DEF Deliver, LockKept, UnchangedByBranch
  <1>1. PICK o \in {"sent", "waiting_configuration", "failed"} :
          /\ Mail(r, "report", [mail[r] EXCEPT !.outcome = o])
          /\ \/ mails' = mails + 1 /\ (o = "sent" \/ "mail_answer" \in Faults)
             \/ mails' = mails
    BY DEF Deliver, Fault
  <1>2. PICK m : m = [mail[r] EXCEPT !.outcome = o]  OBVIOUS
  <1>3. m \in MailRecords /\ m.outcome = o /\ m.snap = mail[r].snap  BY <1>2, <1>t DEF MailRecords
  <1>4. Mail(r, "report", m)  BY <1>1, <1>2
  <1>5. faults' \in Nat  BY TypeFacts DEF Deliver, Fault
  <1> QED  BY <1>1, <1>3, <1>4, <1>5, <1>p, <1>f, MailGoes

LEMMA OutcomeLoadsEffect ==
  ASSUME TypeOK, NEW r \in Requests, OutcomeLoads(r)
  PROVE  /\ mail[r].pc = "report"
         /\ mail' \in [Requests -> MailRecords] /\ \A q \in Requests \ {r} : mail'[q] = mail[q]
         /\ mail'[r].pc = "reporting" /\ mail'[r].snap = binding
         /\ mail'[r].outcome = mail[r].outcome
         /\ LockKept /\ UNCHANGED <<work, binding, db, mails, research, lost, faults>>
  <1>t. mail[r] \in MailRecords /\ binding \in BindingType  BY TypeFacts
  <1>p. "reporting" \in MailPcs  BY DEF MailPcs
  <1>2. PICK m : m = [mail[r] EXCEPT !.snap = binding]  OBVIOUS
  <1>3. m \in MailRecords /\ m.outcome = mail[r].outcome /\ m.snap = binding
    BY <1>2, <1>t DEF MailRecords
  <1>4. Mail(r, "reporting", m)  BY <1>2 DEF OutcomeLoads
  <1>5. /\ mail' \in [Requests -> MailRecords] /\ \A q \in Requests \ {r} : mail'[q] = mail[q]
        /\ mail'[r].pc = "reporting" /\ mail'[r].snap = binding
        /\ mail'[r].outcome = mail[r].outcome
    BY <1>3, <1>4, <1>p, MailGoes
  <1> QED  BY <1>5 DEF OutcomeLoads, LockKept, UnchangedByBranch

MailGone(r) ==
    /\ mail' \in [Requests -> MailRecords] /\ mail'[r].pc = "none"
    /\ \A q \in Requests \ {r} : mail'[q] = mail[q]

LEMMA OutcomeWritesEffect ==
  ASSUME TypeOK, NEW r \in Requests, OutcomeWrites(r)
  PROVE  /\ mail[r].pc = "reporting"
         /\ MailGone(r) /\ binding' = Outcome(r)
         /\ LockKept /\ UNCHANGED <<work, db, mails, research, lost, faults>>
  <1>p. "none" \in MailPcs  BY DEF MailPcs
  <1>1. Mail(r, "none", NoMail)  BY DEF OutcomeWrites
  <1>2. MailGone(r)  BY <1>1, <1>p, MailGoes, InitialRecords DEF MailGone
  <1> QED  BY <1>2 DEF OutcomeWrites, LockKept, UnchangedByBranch

LEMMA OutcomeFailsEffect ==
  ASSUME TypeOK, NEW r \in Requests, OutcomeFails(r)
  PROVE  /\ mail[r].pc \in {"report", "reporting"}
         /\ MailGone(r)
         /\ binding' = binding \/ (mail[r].pc = "reporting" /\ binding' = Outcome(r))
         /\ faults' \in Nat /\ LockKept /\ UNCHANGED <<work, db, mails, research, lost>>
  <1>p. "none" \in MailPcs  BY DEF MailPcs
  <1>1. Mail(r, "none", NoMail)  BY DEF OutcomeFails
  <1>2. MailGone(r)  BY <1>1, <1>p, MailGoes, InitialRecords DEF MailGone
  <1>3. faults' \in Nat  BY TypeFacts DEF OutcomeFails, Fault
  <1>4. binding' = binding \/ (mail[r].pc = "reporting" /\ binding' = Outcome(r))
    BY DEF OutcomeFails, SavedOrNot
  <1> QED  BY <1>2, <1>3, <1>4 DEF OutcomeFails, LockKept, UnchangedByBranch

DbKept == db'.case = db.case /\ db'.link = db.link /\ db'.demo = db.demo

\* The execution of the instance, whatever becomes of it.
Executing(r) ==
    ExecuteAnalysis(r) \/ ExecutionCommits(r) \/ ExecutionFails(r) \/ PersistFailed(r)

LEMMA ExecuteEffect ==
  ASSUME TypeOK, NEW r \in Requests, Executing(r)
  PROVE  /\ work[r] \in {"execute", "enqueued", "report"}
         /\ work' \in [Requests -> WorkPcs] /\ work'[r] \in {"none", "enqueued", "report"}
         /\ \A q \in Requests \ {r} : work'[q] = work[q]
         /\ db' \in Rows /\ DbKept
         /\ db'.analysis = db.analysis \/ db'.analysis \in {"dispatched", "failed"}
         /\ research' \in Nat /\ lost' \in Nat /\ faults' \in Nat
         /\ UNCHANGED <<mail, binding, mails>> /\ LockKept
  <1>t. /\ work \in [Requests -> WorkPcs] /\ db \in Rows
        /\ research \in Nat /\ lost \in Nat /\ faults \in Nat
    BY TypeFacts
  <1>f. /\ UNCHANGED <<mail, binding, mails>> /\ LockKept
        /\ work[r] \in {"execute", "enqueued", "report"}
    BY DEF Executing, ExecuteAnalysis, ExecutionCommits, ExecutionFails, PersistFailed,
           UnchangedByWork, UnchangedByBranch, LockKept
  <1>w. PICK pc \in {"none", "enqueued", "report"} : work' = [work EXCEPT ![r] = pc]
    BY DEF Executing, ExecuteAnalysis, ExecutionCommits, ExecutionFails, PersistFailed, Work
  <1>n. research' \in Nat /\ lost' \in Nat /\ faults' \in Nat
    BY <1>t DEF Executing, ExecuteAnalysis, ExecutionCommits, ExecutionFails, PersistFailed, Fault
  <1>d. PICK a \in {db.analysis, "dispatched", "failed"} : db' = [db EXCEPT !.analysis = a]
    <2>1. db = [db EXCEPT !.analysis = db.analysis]  BY <1>t DEF Rows
    <2> QED
      BY <2>1
      DEF Executing, ExecuteAnalysis, ExecutionCommits, ExecutionFails, PersistFailed
  <1>1. db' \in Rows /\ DbKept /\ db'.analysis = a  BY <1>t, <1>d DEF Rows, DbKept
  <1>2. /\ work' \in [Requests -> WorkPcs] /\ work'[r] = pc
        /\ \A q \in Requests \ {r} : work'[q] = work[q]
    BY <1>t, <1>w DEF WorkPcs
  <1> QED  BY <1>f, <1>n, <1>d, <1>1, <1>w, <1>2

\* Only an instance that exists is executed.
LEMMA ExecutesInstance ==
  ASSUME TypeOK, ResearchInv, NEW r \in Requests, Executing(r),
         db' # db \/ research' # research
  PROVE  db.analysis # "none"
  BY DEF Executing, ExecuteAnalysis, ExecutionCommits, ExecutionFails, PersistFailed, ResearchInv,
         Executable

LEMMA BootstrapEffect ==
  ASSUME TypeOK, NEW r \in Requests, Bootstrap(r)
  PROVE  /\ tx.rows.link = "none" /\ db' \in Rows
         /\ work[r] = "bootstrap" /\ work' \in [Requests -> WorkPcs] /\ work'[r] # "enqueued"
         /\ \A q \in Requests \ {r} : work'[q] = work[q]
         /\ \/ db' = db
            \/ /\ PurchaseStands /\ db.case = "demo"
               /\ db'.case = "upgraded" /\ db'.link = "analysis" /\ db'.demo = db.demo
               /\ db'.analysis = "start"
         /\ UNCHANGED <<mail, binding, mails, research, lost, faults>> /\ LockKept
  <1>t. work \in [Requests -> WorkPcs] /\ db \in Rows  BY TypeFacts
  <1>f. /\ UNCHANGED <<mail, binding, mails, research, lost, faults>> /\ LockKept
        /\ tx.rows.link = "none" /\ work[r] = "bootstrap"
    BY DEF Bootstrap, UnchangedByWork, UnchangedByBranch, LockKept
  <1>w. /\ work' \in [Requests -> WorkPcs] /\ work'[r] # "enqueued"
        /\ \A q \in Requests \ {r} : work'[q] = work[q]
    BY <1>t DEF Bootstrap, Work, WorkPcs
  <1>1. CASE db' = db  BY <1>1, <1>t, <1>f, <1>w
  <1>2. CASE /\ PurchaseStands /\ db.case = "demo"
             /\ db' = [db EXCEPT !.case = "upgraded", !.link = "analysis", !.analysis = "start"]
    <2>1. /\ db' \in Rows /\ db'.case = "upgraded" /\ db'.link = "analysis" /\ db'.demo = db.demo
          /\ db'.analysis = "start"
      BY <1>2, <1>t DEF Rows
    <2> QED  BY <2>1, <1>2, <1>f, <1>w
  <1> QED  BY <1>1, <1>2 DEF Bootstrap

LEMMA ExceptionEffect ==
  ASSUME TypeOK, NEW r \in Requests, ExecuteException(r)
  PROVE  /\ work[r] = "exception" /\ work' \in [Requests -> WorkPcs] /\ work'[r] = "none"
         /\ \A q \in Requests \ {r} : work'[q] = work[q]
         /\ db' \in Rows /\ DbKept /\ db'.analysis = db.analysis
         /\ UNCHANGED <<mail, binding, mails, research, lost, faults>> /\ LockKept
  <1>t. work \in [Requests -> WorkPcs] /\ db \in Rows  BY TypeFacts
  <1>1. /\ work' \in [Requests -> WorkPcs] /\ work'[r] = "none"
        /\ \A q \in Requests \ {r} : work'[q] = work[q]
    BY <1>t DEF ExecuteException, Work, WorkPcs
  <1>2. db' \in Rows /\ DbKept /\ db'.analysis = db.analysis
    BY <1>t DEF ExecuteException, Rows, DbKept
  <1> QED  BY <1>1, <1>2 DEF ExecuteException, UnchangedByWork, UnchangedByBranch, LockKept

LEMMA DiesEffect ==
  ASSUME TypeOK, NEW r \in Requests, DiesAfterCommit(r)
  PROVE  /\ MailGone(r) /\ work' \in [Requests -> WorkPcs]
         /\ work'[r] = "none" /\ \A q \in Requests \ {r} : work'[q] = work[q]
         /\ lost' = (IF work[r] = "enqueued" THEN lost + 1 ELSE lost)
         /\ lost' \in Nat /\ faults' = faults + 1 /\ faults' \in Nat
         /\ LockKept /\ UNCHANGED <<binding, db, mails, research>>
  <1>p. "none" \in MailPcs  BY DEF MailPcs
  <1>1. Mail(r, "none", NoMail)  BY DEF DiesAfterCommit
  <1>2. MailGone(r)  BY <1>1, <1>p, MailGoes, InitialRecords DEF MailGone
  <1>3. /\ work' \in [Requests -> WorkPcs]
        /\ work'[r] = "none" /\ \A q \in Requests \ {r} : work'[q] = work[q]
    BY TypeFacts DEF DiesAfterCommit, Work, WorkPcs
  <1>4. faults' = faults + 1 /\ faults' \in Nat  BY TypeFacts DEF DiesAfterCommit, Fault
  <1>5. lost' = (IF work[r] = "enqueued" THEN lost + 1 ELSE lost)  BY DEF DiesAfterCommit
  <1>6. lost' \in Nat  BY <1>5, TypeFacts
  <1> QED  BY <1>2, <1>3, <1>4, <1>5, <1>6 DEF DiesAfterCommit, LockKept, UnchangedByBranch

LEMMA ProviderEffect ==
  ASSUME TypeOK, ProviderMoves
  PROVE  /\ gw # <<>> /\ Newest = "authorized" /\ ~tx.captured
         /\ gw' \in Seq(GwStatus) /\ Len(gw') = Len(gw) /\ gw' # <<>>
         /\ \A i \in 1..Len(gw) : i < Len(gw) => gw'[i] = gw[i]
         /\ UNCHANGED <<lock, req, mail, work, tx, made, paid, binding, db, analysisOn, mails,
                        research, lost, faults>>
  <1>t. gw \in Seq(GwStatus)  BY TypeFacts
  <1>g. gw # <<>>  BY DEF ProviderMoves
  <1>l. Len(gw) \in 1..Len(gw)  BY <1>g, NewestType
  <1>1. PICK s \in {"captured", "failed"} \cup Discrepant : gw' = [gw EXCEPT ![Len(gw)] = s]
    BY DEF ProviderMoves
  <1>2. s \in GwStatus  BY DEF GwStatus
  <1>3. gw' \in Seq(GwStatus) /\ Len(gw') = Len(gw)
    BY <1>t, <1>l, <1>1, <1>2, ExceptSeq
  <1>4. \A i \in 1..Len(gw) : i < Len(gw) => gw'[i] = gw[i]
    BY <1>t, <1>1
  <1>5. gw' # <<>>  BY <1>3, <1>l, <1>t, EmptySeq, LenProperties
  <1> QED  BY <1>g, <1>3, <1>4, <1>5 DEF ProviderMoves

-----------------------------------------------------------------------------
(* Types, step by step *)

LEMMA TypeFoldNext ==
  ASSUME lock' \in Requests \cup {None},
         req' \in [Requests -> ReqRecords], mail' \in [Requests -> MailRecords],
         work' \in [Requests -> WorkPcs], tx' \in TxType, gw' \in Seq(GwStatus),
         db' \in Rows, binding' \in BindingType, analysisOn' \in BOOLEAN, paid' \in BOOLEAN,
         made' \in [{"quote", "order", "payment"} -> Nat],
         mails' \in Nat, research' \in Nat, lost' \in Nat, faults' \in Nat,
         \A q \in Requests : req'[q].pc # "idle" <=> lock' = q,
         lock' = None => tx' = NoTx
  PROVE  TypeOK'
  BY DEF TypeOK, ReqRecords, MailRecords, Pcs, MailPcs, WorkPcs, GwStatus, TxType, Layouts

\* The list of gateway transactions only grows.
LEMMA GwAppended ==
  ASSUME TypeOK, gw' = Append(gw, "authorized")
  PROVE  /\ gw' \in Seq(GwStatus) /\ gw' # <<>> /\ Len(gw') = Len(gw) + 1
         /\ \A i \in 1..Len(gw) : gw'[i] = gw[i]
         /\ gw'[Len(gw) + 1] = "authorized"
  <1>1. gw \in Seq(GwStatus) /\ "authorized" \in GwStatus  BY TypeFacts DEF GwStatus
  <1>2. Len(gw) \in Nat  BY <1>1, LenProperties
  <1> QED  BY <1>1, <1>2, AppendProperties

LEMMA GwCommitted ==
  ASSUME TypeInv, GwCaptures
  PROVE  /\ gw' \in Seq(GwStatus) /\ Len(gw') = Len(gw) /\ (gw # <<>> => gw' # <<>>)
         /\ \A i \in 1..Len(gw) : i < Len(gw) => gw'[i] = gw[i]
         /\ tx.captured => Len(gw) \in 1..Len(gw) /\ gw'[Len(gw)] = "captured"
         /\ ~tx.captured => gw' = gw
  <1>t. TypeOK /\ gw \in Seq(GwStatus) /\ "captured" \in GwStatus
    BY TypeFacts DEF TypeInv, GwStatus
  <1>1. CASE ~tx.captured  BY <1>1, <1>t DEF GwCaptures
  <1>2. CASE tx.captured
    <2>1. gw # <<>>  BY <1>2 DEF TypeInv, HasSession
    <2>2. Len(gw) \in 1..Len(gw)  BY <2>1, <1>t, NewestType
    <2>3. gw' = [gw EXCEPT ![Len(gw)] = "captured"]  BY <1>2 DEF GwCaptures
    <2>4. gw' \in Seq(GwStatus) /\ Len(gw') = Len(gw)  BY <2>2, <2>3, <1>t, ExceptSeq
    <2>5. \A i \in 1..Len(gw) : i < Len(gw) => gw'[i] = gw[i]  BY <2>3, <1>t
    <2>6. gw'[Len(gw)] = "captured"  BY <2>2, <2>3, <1>t
    <2>7. gw' # <<>>  BY <2>2, <2>4, EmptySeq, LenProperties
    <2> QED  BY <2>2, <2>4, <2>5, <2>6, <2>7, <1>2
  <1> QED  BY <1>1, <1>2

\* A step of the lock holder that goes on.
LEMMA UnderTypes ==
  ASSUME TypeInv, NEW r \in Requests, req[r].pc # "idle", Others(r),
         req'[r].pc # "idle", lock' = lock, tx' \in TxType, gw' \in Seq(GwStatus),
         binding' \in BindingType, made' \in [{"quote", "order", "payment"} -> Nat],
         db' = db, analysisOn' = analysisOn, paid' \in BOOLEAN, AfterKept, faults' \in Nat,
         tx'.captured => gw' # <<>>, req'[r].pc = "capture" => gw' # <<>>
  PROVE  TypeInv'
  <1>t. TypeOK  BY DEF TypeInv
  <1>1. lock = r /\ \A q \in Requests \ {r} : req[q].pc = "idle"  BY <1>t, Holder
  <1>2. \A q \in Requests : req'[q].pc # "idle" <=> lock' = q  BY <1>1 DEF Others
  <1>3. lock' # None  BY <1>1, <1>t, TypeFacts
  <1>4. TypeOK'
    BY <1>1, <1>2, <1>3, <1>t, TypeFacts, TypeFoldNext DEF AfterKept, Others
  <1>5. HasSession'  BY <1>1 DEF HasSession, Others
  <1> QED  BY <1>4, <1>5 DEF TypeInv

\* A step of a branch that follows a commit.
LEMMA BranchTypes ==
  ASSUME TypeInv, mail' \in [Requests -> MailRecords], work' \in [Requests -> WorkPcs],
         LockKept, binding' \in BindingType, db' \in Rows, mails' \in Nat, research' \in Nat,
         lost' \in Nat, faults' \in Nat
  PROVE  TypeInv'
  <1>t. TypeOK  BY DEF TypeInv
  <1>1. \A q \in Requests : req'[q].pc # "idle" <=> lock' = q  BY <1>t DEF TypeOK, LockKept
  <1>2. lock' = None => tx' = NoTx  BY <1>t DEF TypeOK, LockKept
  <1>3. lock' \in Requests \cup {None}  BY <1>t DEF TypeOK, LockKept
  <1>4. TypeOK'  BY <1>1, <1>2, <1>3, <1>t, TypeFacts, TypeFoldNext DEF LockKept
  <1>5. HasSession'  BY DEF HasSession, LockKept, TypeInv
  <1> QED  BY <1>4, <1>5 DEF TypeInv

LEMMA TypeInit ==
  Init => TypeInv
  <1> SUFFICES ASSUME Init PROVE TypeInv  OBVIOUS
  <1>r. \A q \in Requests : req[q] = Idle  BY DEF Init
  <1>1. lock = None /\ None \notin Requests /\ tx = NoTx  BY PurchaseAssumption DEF Init
  <1>2. req \in [Requests -> ReqRecords] /\ mail \in [Requests -> MailRecords]
    BY InitialRecords DEF Init
  <1>3. work \in [Requests -> WorkPcs]  BY DEF Init, WorkPcs
  <1>4. gw \in Seq(GwStatus)
    <2>1. "authorized" \in GwStatus  BY DEF GwStatus
    <2> QED  BY <2>1, EmptySeq DEF Init
  <1>5. made \in [{"quote", "order", "payment"} -> Nat]  BY DEF Init
  <1>6. binding \in BindingType
    <2>1. PICK kept \in BOOLEAN : binding = [NoBinding EXCEPT !.offer = kept]  BY DEF Init
    <2> QED  BY <2>1, InitialRecords DEF BindingType
  <1>7. \A q \in Requests : req[q].pc # "idle" <=> lock = q  BY <1>1, <1>r, InitialRecords
  <1>8. TypeOK
    BY <1>1, <1>2, <1>3, <1>4, <1>5, <1>6, <1>7, InitialRecords, TypeFold DEF Init
  <1>9. HasSession  BY <1>r, <1>1, InitialRecords DEF HasSession
  <1> QED  BY <1>8, <1>9 DEF TypeInv

\* Requests at these places have been let in.
LEMMA NotIdle ==
  ASSUME TypeOK, NEW r \in Requests,
         req[r].pc \in {"start", "create", "retry", "confirm", "capture", "reconcile", "reserve",
                        "reserving", "activate", "save", "saving", "commit"}
  PROVE  req[r].pc # "idle"
  OBVIOUS

LEMMA TypeStep ==
  TypeInv /\ [Next]_vars => TypeInv'
  <1> SUFFICES ASSUME TypeInv, [Next]_vars PROVE TypeInv'  OBVIOUS
  <1>t. TypeOK  BY DEF TypeInv
  <1>h. HasSession  BY DEF TypeInv
  <1> USE <1>t
  <1>1. ASSUME NEW r \in Requests, NEW op \in {"start", "retry", "confirm"}, Acquire(r, op)
        PROVE  TypeInv'
    <2> USE <1>1, AcquireEffect
    <2>1. \A q \in Requests : req[q].pc = "idle"
      <3>1. lock = None /\ None \notin Requests  BY TypeFacts
      <3>2. \A q \in Requests : req[q].pc # "idle" => lock = q  BY DEF TypeOK
      <3> QED  BY <3>1, <3>2
    <2>2. \A q \in Requests : req'[q].pc # "idle" <=> lock' = q
      <3>1. lock' = r /\ req'[r].pc = op /\ op # "idle" /\ \A q \in Requests \ {r} : req'[q] = req[q]
        BY DEF Others
      <3> QED  BY <3>1, <2>1
    <2>3. lock' # None  BY TypeFacts
    <2>4. tx' \in TxType  BY InitialRecords
    <2>5. TypeOK'  BY <2>2, <2>3, <2>4, TypeFacts, TypeFoldNext DEF AfterKept, Others
    <2>6. HasSession'  BY <1>h, <2>1, InitialRecords DEF HasSession, Others
    <2> QED  BY <2>5, <2>6 DEF TypeInv
  <1>2. ASSUME NEW r \in Requests, StartFinds(r) PROVE TypeInv'
    BY <1>2, <1>h, StartFindsEffect, UnderTypes, NotIdle, TypeFacts
    DEF TxKept, UnderLockFrame, HasSession
  <1>3. ASSUME NEW r \in Requests, StartCreates(r) PROVE TypeInv'
    <2> USE <1>3, StartCreatesEffect
    <2>1. CASE gw' = Append(gw, "authorized") /\ made' = made
      BY <2>1, <1>h, GwAppended, UnderTypes, NotIdle, TypeFacts DEF TxKept, UnderLockFrame
    <2>2. CASE /\ req[r].stage \in {"quote", "order", "payment"} /\ gw' = gw
               /\ made' = [made EXCEPT ![req[r].stage] = @ + 1]
      <3>1. made' \in [{"quote", "order", "payment"} -> Nat]  BY <2>2, TypeFacts
      <3> QED  BY <3>1, <2>2, <1>h, UnderTypes, NotIdle, TypeFacts
               DEF TxKept, UnderLockFrame, HasSession
    <2> QED  BY <2>1, <2>2
  <1>4. ASSUME NEW r \in Requests, RetryPayment(r) PROVE TypeInv'
    <2> USE <1>4, RetryEffect
    <2>1. CASE gw' = Append(gw, "authorized")
      BY <2>1, <1>h, GwAppended, UnderTypes, NotIdle, TypeFacts DEF TxKept, UnderLockFrame
    <2>2. CASE gw' = gw
      BY <2>2, <1>h, UnderTypes, NotIdle, TypeFacts DEF TxKept, UnderLockFrame, HasSession
    <2> QED  BY <2>1, <2>2
  <1>5. ASSUME NEW r \in Requests, ConfirmLoads(r) PROVE TypeInv'
    BY <1>5, <1>h, ConfirmEffect, UnderTypes, NotIdle, TypeFacts
    DEF TxKept, UnderLockFrame, HasSession
  <1>6. ASSUME NEW r \in Requests, Capture(r) PROVE TypeInv'
    BY <1>6, <1>h, CaptureEffect, UnderTypes, NotIdle, TypeFacts DEF UnderLockFrame
  <1>7. ASSUME NEW r \in Requests, Reconcile(r) PROVE TypeInv'
    BY <1>7, <1>h, ReconcileEffect, UnderTypes, NotIdle, TypeFacts
    DEF TxKept, UnderLockFrame, HasSession
  <1>8. ASSUME NEW r \in Requests, ReserveLoads(r) PROVE TypeInv'
    BY <1>8, <1>h, ReserveLoadsEffect, UnderTypes, NotIdle, TypeFacts
    DEF TxKept, UnderLockFrame, HasSession
  <1>9. ASSUME NEW r \in Requests, ReserveWrites(r) PROVE TypeInv'
    BY <1>9, <1>h, ReserveWritesEffect, UnderTypes, NotIdle, TypeFacts
    DEF TxKept, UnderLockFrame, HasSession
  <1>10. ASSUME NEW r \in Requests, ReserveFails(r) PROVE TypeInv'
    BY <1>10, <1>h, ReserveFailsEffect, ReservationFields, UnderTypes, NotIdle, TypeFacts
    DEF TxKept, UnderLockFrame, HasSession
  <1>11. ASSUME NEW r \in Requests, Activate(r) PROVE TypeInv'
    BY <1>11, <1>h, ActivateEffect, UnderTypes, NotIdle, TypeFacts
    DEF TxKept, UnderLockFrame, HasSession, ActivateSkips, ActivateWrites
  <1>12. ASSUME NEW r \in Requests, ActivationFails(r) PROVE TypeInv'
    BY <1>12, <1>h, ActivationFailsEffect, UnderTypes, NotIdle, TypeFacts
    DEF TxKept, UnderLockFrame, HasSession, CaseStays
  <1>13. ASSUME NEW r \in Requests, SaveLoads(r) PROVE TypeInv'
    BY <1>13, <1>h, SaveLoadsEffect, UnderTypes, NotIdle, TypeFacts
    DEF TxKept, UnderLockFrame, HasSession
  <1>14. ASSUME NEW r \in Requests, SaveWrites(r) PROVE TypeInv'
    BY <1>14, <1>h, SaveWritesEffect, ActivationFields, UnderTypes, NotIdle, TypeFacts
    DEF TxKept, UnderLockFrame, HasSession
  <1>15. ASSUME NEW r \in Requests, SaveFails(r) PROVE TypeInv'
    BY <1>15, <1>h, SaveFailsEffect, ActivationFields, UnderTypes, NotIdle, TypeFacts
    DEF TxKept, UnderLockFrame, HasSession
  <1>16. ASSUME NEW r \in Requests, Commit(r) PROVE TypeInv'
    <2> USE <1>16, CommitEffect
    <2>1. \A q \in Requests \ {r} : req[q].pc = "idle"  BY Holder
    <2>2. \A q \in Requests : req'[q].pc # "idle" <=> lock' = q
      <3>1. /\ lock' = None /\ None \notin Requests /\ req'[r].pc = "idle"
            /\ \A q \in Requests \ {r} : req'[q] = req[q]
        BY TypeFacts DEF Others
      <3> QED  BY <3>1, <2>1
    <2>3. TypeOK'
      BY <2>2, TypeFacts, TypeFoldNext, InitialRecords, MergedFields, GwCommitted DEF Others
    <2>4. HasSession'  BY <2>1, InitialRecords DEF HasSession, Others
    <2> QED  BY <2>3, <2>4 DEF TypeInv
  <1>17. ASSUME NEW r \in Requests, Abort(r) PROVE TypeInv'
    <2> USE <1>17, AbortEffect
    <2>1. \A q \in Requests \ {r} : req[q].pc = "idle"  BY Holder
    <2>2. \A q \in Requests : req'[q].pc # "idle" <=> lock' = q
      <3>1. /\ lock' = None /\ None \notin Requests /\ req'[r].pc = "idle"
            /\ \A q \in Requests \ {r} : req'[q] = req[q]
        BY TypeFacts DEF Others
      <3> QED  BY <3>1, <2>1
    <2>3. TypeOK'
      BY <2>2, TypeFacts, TypeFoldNext, InitialRecords DEF Others, SalesKept, AfterKept
    <2>4. HasSession'  BY <2>1, InitialRecords DEF HasSession, Others
    <2> QED  BY <2>3, <2>4 DEF TypeInv
  <1>18. ASSUME NEW r \in Requests, Deliver(r) PROVE TypeInv'
    <2> USE <1>18, DeliverEffect
    <2>1. mails' \in Nat  BY TypeFacts
    <2>2. /\ mail' \in [Requests -> MailRecords] /\ LockKept /\ faults' \in Nat
          /\ UNCHANGED <<work, binding, db, research, lost>>
      OBVIOUS
    <2>3. /\ work' \in [Requests -> WorkPcs] /\ binding' \in BindingType /\ db' \in Rows
          /\ research' \in Nat /\ lost' \in Nat
      BY <2>2, TypeFacts
    <2> QED  BY <2>1, <2>2, <2>3, BranchTypes
  <1>19. ASSUME NEW r \in Requests, OutcomeLoads(r) PROVE TypeInv'
    BY <1>19, OutcomeLoadsEffect, BranchTypes, TypeFacts
  <1>20. ASSUME NEW r \in Requests, OutcomeWrites(r) PROVE TypeInv'
    BY <1>20, OutcomeWritesEffect, OutcomeFields, BranchTypes, TypeFacts DEF MailGone
  <1>21. ASSUME NEW r \in Requests, OutcomeFails(r) PROVE TypeInv'
    BY <1>21, OutcomeFailsEffect, OutcomeFields, BranchTypes, TypeFacts DEF MailGone
  <1>22. ASSUME NEW r \in Requests, Executing(r) PROVE TypeInv'
    BY <1>22, ExecuteEffect, BranchTypes, TypeFacts
  <1>23. ASSUME NEW r \in Requests, Bootstrap(r) PROVE TypeInv'
    BY <1>23, BootstrapEffect, BranchTypes, TypeFacts
  <1>24. ASSUME NEW r \in Requests, ExecuteException(r) PROVE TypeInv'
    BY <1>24, ExceptionEffect, BranchTypes, TypeFacts
  <1>25. ASSUME NEW r \in Requests, DiesAfterCommit(r) PROVE TypeInv'
    BY <1>25, DiesEffect, BranchTypes, TypeFacts DEF MailGone
  <1>26. CASE ProviderMoves
    <2> USE <1>26, ProviderEffect
    <2>1. lock' \in Requests \cup {None}  BY DEF TypeOK
    <2>2. \A q \in Requests : req'[q].pc # "idle" <=> lock' = q  BY DEF TypeOK
    <2>3. lock' = None => tx' = NoTx  BY DEF TypeOK
    <2>4. TypeOK'  BY <2>1, <2>2, <2>3, TypeFacts, TypeFoldNext
    <2>5. HasSession'  BY DEF HasSession
    <2> QED  BY <2>4, <2>5 DEF TypeInv
  <1>27. CASE SwitchAnalysis
    <2>1. /\ UNCHANGED <<lock, req, mail, work, tx, made, paid, gw, binding, db, mails, research, lost, faults>>
          /\ analysisOn' \in BOOLEAN
      BY <1>27, TypeFacts DEF SwitchAnalysis
    <2>2. lock' \in Requests \cup {None}  BY <2>1 DEF TypeOK
    <2>3. \A q \in Requests : req'[q].pc # "idle" <=> lock' = q  BY <2>1 DEF TypeOK
    <2>4. lock' = None => tx' = NoTx  BY <2>1 DEF TypeOK
    <2>5. TypeOK'  BY <2>1, <2>2, <2>3, <2>4, TypeFacts, TypeFoldNext
    <2>6. HasSession'  BY <2>1, <1>h DEF HasSession
    <2> QED  BY <2>5, <2>6 DEF TypeInv
  <1>28. CASE UNCHANGED vars
    BY <1>28 DEF vars, TypeInv, TypeOK, HasSession
  <1> QED
    BY <1>1, <1>2, <1>3, <1>4, <1>5, <1>6, <1>7, <1>8, <1>9, <1>10, <1>11, <1>12, <1>13, <1>14,
       <1>15, <1>16, <1>17, <1>18, <1>19, <1>20, <1>21, <1>22, <1>23, <1>24, <1>25, <1>26, <1>27,
       <1>28
    DEF Next, UnderLock, Mailing, Working, Failing, Executing

\* TypeOK: every variable stays in its type; one request holds the lock, and only what it
\* wrote is uncommitted.
THEOREM TypeCorrect == Spec => []TypeOK
  <1>1. Init => TypeInv  BY TypeInit
  <1>2. TypeInv /\ [Next]_vars => TypeInv'  BY TypeStep
  <1>3. TypeInv => TypeOK  BY DEF TypeInv
  <1> QED  BY <1>1, <1>2, <1>3, PTL DEF Spec

-----------------------------------------------------------------------------
(* The sales records *)

\* Nobody is under way when a request is let in.
LEMMA AcquireAlone ==
  ASSUME TypeOK, NEW r \in Requests, NEW op \in {"start", "retry", "confirm"}, Acquire(r, op)
  PROVE  \A q \in Requests : req[q].pc = "idle"
  <1>1. lock = None /\ None \notin Requests  BY TypeFacts, AcquireEffect
  <1>2. \A q \in Requests : req[q].pc # "idle" => lock = q  BY DEF TypeOK
  <1> QED  BY <1>1, <1>2

\* A step that makes no record and does not decide to make one.
LEMMA SalesUnder ==
  ASSUME SalesInv, NEW r \in Requests, \A q \in Requests \ {r} : req[q].pc = "idle",
         Others(r), req'[r].pc # "create", made' = made, gw' = gw
  PROVE  SalesInv'
  BY DEF SalesInv, Others

LEMMA SalesBranch ==
  ASSUME SalesInv, LockKept
  PROVE  SalesInv'
  BY DEF SalesInv, LockKept, Count

LEMMA SalesStep ==
  TypeInv /\ SalesInv /\ [Next]_vars => SalesInv'
  <1> SUFFICES ASSUME TypeInv, SalesInv, [Next]_vars PROVE SalesInv'  OBVIOUS
  <1>t. TypeOK  BY DEF TypeInv
  <1>l. Len(gw) \in Nat  BY <1>t, TypeFacts, LenProperties
  <1> USE <1>t
  <1>1. ASSUME NEW r \in Requests, NEW op \in {"start", "retry", "confirm"}, Acquire(r, op)
        PROVE  SalesInv'
    BY <1>1, AcquireEffect, AcquireAlone, SalesUnder
  <1>2. ASSUME NEW r \in Requests, StartFinds(r) PROVE SalesInv'
    <2> USE <1>2, StartFindsEffect
    <2>1. \A q \in Requests \ {r} : req[q].pc = "idle"  BY Holder, NotIdle
    <2>2. CASE req'[r].pc = "create"
      <3>1. (IF req'[r].stage = "session" THEN Len(gw') ELSE made'[req'[r].stage]) = 0
        BY <2>2 DEF Count
      <3>2. \A q \in Requests : req'[q].pc = "create" => q = r  BY <2>1 DEF Others
      <3> QED  BY <3>1, <3>2 DEF SalesInv, Count
    <2> QED  BY <2>1, <2>2, SalesUnder
  <1>3. ASSUME NEW r \in Requests, StartCreates(r) PROVE SalesInv'
    <2> USE <1>3, StartCreatesEffect
    <2>1. \A q \in Requests \ {r} : req[q].pc = "idle"  BY Holder, NotIdle
    <2>2. \A q \in Requests : req'[q].pc # "create"  BY <2>1 DEF Others
    <2>3. Count(req[r].stage) = 0  BY DEF SalesInv
    <2>4. CASE gw' = Append(gw, "authorized") /\ req[r].stage = "session" /\ made' = made
      <3>1. Len(gw) = 0  BY <2>3, <2>4 DEF Count
      <3>2. Len(gw') = 1  BY <3>1, <2>4, GwAppended
      <3>3. \A i \in 1..Len(gw') : ~(i < Len(gw'))  BY <3>2
      <3> QED  BY <2>2, <2>4, <3>3 DEF SalesInv
    <2>5. CASE /\ req[r].stage \in {"quote", "order", "payment"} /\ gw' = gw
               /\ made' = [made EXCEPT ![req[r].stage] = @ + 1]
      <3>1. made[req[r].stage] = 0  BY <2>3, <2>5 DEF Count
      <3>2. \A s \in {"quote", "order", "payment"} : made'[s] <= 1
        BY <2>5, <3>1, TypeFacts DEF SalesInv
      <3> QED  BY <2>2, <2>5, <3>2 DEF SalesInv
    <2> QED  BY <2>4, <2>5
  <1>4. ASSUME NEW r \in Requests, RetryPayment(r) PROVE SalesInv'
    <2> USE <1>4, RetryEffect
    <2>1. \A q \in Requests \ {r} : req[q].pc = "idle"  BY Holder, NotIdle
    <2>2. CASE gw' = gw  BY <2>1, <2>2, SalesUnder
    <2>3. CASE gw' = Append(gw, "authorized") /\ gw # <<>> /\ Newest = "failed"
      <3>1. \A i \in 1..Len(gw) : gw[i] = "failed"
        BY <2>3, <1>l DEF SalesInv, Newest
      <3>2. \A i \in 1..Len(gw') : i < Len(gw') => gw'[i] = "failed"
        BY <3>1, <2>3, <1>l, GwAppended
      <3> QED  BY <2>1, <3>2 DEF SalesInv, Others
    <2> QED  BY <2>2, <2>3
  <1>5. ASSUME NEW r \in Requests, ConfirmLoads(r) PROVE SalesInv'
    BY <1>5, ConfirmEffect, Holder, NotIdle, SalesUnder
  <1>6. ASSUME NEW r \in Requests, Capture(r) PROVE SalesInv'
    BY <1>6, CaptureEffect, Holder, NotIdle, SalesUnder
  <1>7. ASSUME NEW r \in Requests, Reconcile(r) PROVE SalesInv'
    BY <1>7, ReconcileEffect, Holder, NotIdle, SalesUnder
  <1>8. ASSUME NEW r \in Requests, ReserveLoads(r) PROVE SalesInv'
    BY <1>8, ReserveLoadsEffect, Holder, NotIdle, SalesUnder
  <1>9. ASSUME NEW r \in Requests, ReserveWrites(r) PROVE SalesInv'
    BY <1>9, ReserveWritesEffect, Holder, NotIdle, SalesUnder
  <1>10. ASSUME NEW r \in Requests, ReserveFails(r) PROVE SalesInv'
    BY <1>10, ReserveFailsEffect, Holder, NotIdle, SalesUnder
  <1>11. ASSUME NEW r \in Requests, Activate(r) PROVE SalesInv'
    BY <1>11, ActivateEffect, Holder, NotIdle, SalesUnder DEF ActivateSkips, ActivateWrites
  <1>12. ASSUME NEW r \in Requests, ActivationFails(r) PROVE SalesInv'
    BY <1>12, ActivationFailsEffect, Holder, NotIdle, SalesUnder
  <1>13. ASSUME NEW r \in Requests, SaveLoads(r) PROVE SalesInv'
    BY <1>13, SaveLoadsEffect, Holder, NotIdle, SalesUnder
  <1>14. ASSUME NEW r \in Requests, SaveWrites(r) PROVE SalesInv'
    BY <1>14, SaveWritesEffect, Holder, NotIdle, SalesUnder
  <1>15. ASSUME NEW r \in Requests, SaveFails(r) PROVE SalesInv'
    BY <1>15, SaveFailsEffect, Holder, NotIdle, SalesUnder
  <1>16. ASSUME NEW r \in Requests, Commit(r) PROVE SalesInv'
    <2> USE <1>16, CommitEffect
    <2>0. \A q \in Requests \ {r} : req[q].pc = "idle"  BY Holder
    <2>1. \A q \in Requests : req'[q].pc = "idle"
      <3>1. req'[r].pc = "idle" /\ \A q \in Requests \ {r} : req'[q] = req[q]  BY DEF Others
      <3> QED  BY <2>0, <3>1
    <2>2. \A i \in 1..Len(gw') : i < Len(gw') => gw'[i] = "failed"
      BY GwCommitted, <1>l DEF SalesInv
    <2> QED  BY <2>1, <2>2 DEF SalesInv
  <1>17. ASSUME NEW r \in Requests, Abort(r) PROVE SalesInv'
    BY <1>17, AbortEffect, Holder, SalesUnder DEF SalesKept
  <1>18. ASSUME NEW r \in Requests, Deliver(r) PROVE SalesInv'
    BY <1>18, DeliverEffect, SalesBranch
  <1>19. ASSUME NEW r \in Requests, OutcomeLoads(r) PROVE SalesInv'
    BY <1>19, OutcomeLoadsEffect, SalesBranch
  <1>20. ASSUME NEW r \in Requests, OutcomeWrites(r) PROVE SalesInv'
    BY <1>20, OutcomeWritesEffect, SalesBranch
  <1>21. ASSUME NEW r \in Requests, OutcomeFails(r) PROVE SalesInv'
    BY <1>21, OutcomeFailsEffect, SalesBranch
  <1>22. ASSUME NEW r \in Requests, Executing(r) PROVE SalesInv'
    BY <1>22, ExecuteEffect, SalesBranch
  <1>23. ASSUME NEW r \in Requests, Bootstrap(r) PROVE SalesInv'
    BY <1>23, BootstrapEffect, SalesBranch
  <1>24. ASSUME NEW r \in Requests, ExecuteException(r) PROVE SalesInv'
    BY <1>24, ExceptionEffect, SalesBranch
  <1>25. ASSUME NEW r \in Requests, DiesAfterCommit(r) PROVE SalesInv'
    BY <1>25, DiesEffect, SalesBranch
  <1>26. CASE ProviderMoves
    <2> USE <1>26, ProviderEffect
    <2>1. \A i \in 1..Len(gw') : i < Len(gw') => gw'[i] = "failed"  BY DEF SalesInv
    <2>2. \A r \in Requests : req'[r].pc = "create" => Count(req[r].stage)' = 0
      BY DEF SalesInv, Count
    <2> QED  BY <2>1, <2>2 DEF SalesInv
  <1>27. CASE SwitchAnalysis
    BY <1>27 DEF SwitchAnalysis, SalesInv, Count
  <1>28. CASE UNCHANGED vars
    BY <1>28 DEF vars, SalesInv, Count
  <1> QED
    BY <1>1, <1>2, <1>3, <1>4, <1>5, <1>6, <1>7, <1>8, <1>9, <1>10, <1>11, <1>12, <1>13, <1>14,
       <1>15, <1>16, <1>17, <1>18, <1>19, <1>20, <1>21, <1>22, <1>23, <1>24, <1>25, <1>26, <1>27,
       <1>28
    DEF Next, UnderLock, Mailing, Working, Failing, Executing

LEMMA SalesInit ==
  Init => SalesInv
  <1> SUFFICES ASSUME Init PROVE SalesInv  OBVIOUS
  <1>1. \A r \in Requests : req[r].pc # "create"  BY InitialRecords DEF Init
  <1>2. \A s \in {"quote", "order", "payment"} : made[s] <= 1  BY DEF Init
  <1>3. Len(gw) <= 1 /\ Len(gw) \in Nat  BY DEF Init
  <1> QED  BY <1>1, <1>2, <1>3 DEF SalesInv

\* OnePurchase: however requests are repeated and interrupted, a purchase makes one quote,
\* one order and one payment, and every session but the newest one failed.
THEOREM OnePurchaseHolds == Spec => []OnePurchase
  <1> DEFINE IInv == TypeInv /\ SalesInv
  <1>1. Init => IInv  BY TypeInit, SalesInit
  <1>2. IInv /\ [Next]_vars => IInv'  BY TypeStep, SalesStep
  <1>3. IInv => OnePurchase
    <2> SUFFICES ASSUME IInv PROVE OnePurchase  OBVIOUS
    <2>1. gw \in Seq(GwStatus) /\ DOMAIN made = {"quote", "order", "payment"}
      BY TypeFacts DEF TypeInv
    <2>2. DOMAIN gw = 1..Len(gw)  BY <2>1, LenProperties
    <2> QED  BY <2>1, <2>2 DEF SalesInv, OnePurchase
  <1> QED  BY <1>1, <1>2, <1>3, PTL DEF Spec

-----------------------------------------------------------------------------
(* The capture *)

\* A captured transaction stays captured, and a commit leaves its capture behind.
LEMMA AppendKeepsCapture ==
  ASSUME TypeOK, gw' = Append(gw, "authorized"), Captured
  PROVE  Captured'
  <1>1. gw \in Seq(GwStatus) /\ gw' \in Seq(GwStatus)  BY TypeFacts, GwAppended
  <1>2. DOMAIN gw = 1..Len(gw) /\ DOMAIN gw' = 1..Len(gw') /\ Len(gw) \in Nat
    BY <1>1, LenProperties
  <1>3. PICK i \in 1..Len(gw) : gw[i] = "captured"  BY <1>2 DEF Captured
  <1>4. i \in 1..Len(gw') /\ gw'[i] = "captured"  BY <1>2, <1>3, GwAppended
  <1> QED  BY <1>2, <1>4 DEF Captured

LEMMA CommitKeepsCapture ==
  ASSUME TypeInv, GwCaptures, Pay
  PROVE  Captured'
  <1>1. gw \in Seq(GwStatus) /\ gw' \in Seq(GwStatus)  BY TypeFacts, GwCommitted DEF TypeInv
  <1>2. DOMAIN gw = 1..Len(gw) /\ DOMAIN gw' = 1..Len(gw') /\ Len(gw) \in Nat
    BY <1>1, LenProperties
  <1>3. CASE tx.captured
    <2>1. Len(gw) \in DOMAIN gw' /\ gw'[Len(gw)] = "captured"  BY <1>2, <1>3, GwCommitted
    <2> QED  BY <2>1 DEF Captured
  <1>4. CASE ~tx.captured
    BY <1>4, GwCommitted DEF Pay, Captured
  <1> QED  BY <1>3, <1>4

LEMMA ProviderKeepsCapture ==
  ASSUME TypeOK, ProviderMoves, Captured
  PROVE  Captured'
  <1>1. gw \in Seq(GwStatus) /\ gw' \in Seq(GwStatus)  BY TypeFacts, ProviderEffect
  <1>2. DOMAIN gw = 1..Len(gw) /\ DOMAIN gw' = 1..Len(gw') /\ Len(gw) \in Nat
    BY <1>1, LenProperties
  <1>3. PICK i \in 1..Len(gw) : gw[i] = "captured"  BY <1>2 DEF Captured
  <1>4. i # Len(gw)  BY <1>3, ProviderEffect DEF Newest
  <1>5. i < Len(gw)
    <2>1. Len(gw) \in Nat  BY <1>1, LenProperties
    <2>2. i \in Nat /\ i <= Len(gw)  BY <2>1, <1>3
    <2> QED  BY <2>1, <2>2, <1>4
  <1>6. i \in 1..Len(gw') /\ gw'[i] = "captured"  BY <1>3, <1>5, ProviderEffect
  <1> QED  BY <1>2, <1>6 DEF Captured

LEMMA SamePay ==
  ASSUME gw' = gw, tx.captured => tx'.captured
  PROVE  (Captured => Captured') /\ (Captured' => Captured) /\ (Pay => Pay')
  BY DEF Captured, Pay

\* A step of the lock holder that goes on and writes no case.
LEMMA CaptureUnder ==
  ASSUME CaptureInv, NEW r \in Requests, \A q \in Requests \ {r} : req[q].pc = "idle",
         Others(r), req'[r].pc # "idle", req'[r].reserved => req[r].reserved \/ Pay',
         req'[r].pc \in Confirmed => req[r].pc \in Confirmed \/ Pay',
         Captured => Captured', Pay => Pay', TxRows, db' = db, AfterKept
  PROVE  CaptureInv'
  <1>1. \A q \in Requests : req'[q].pc \in Confirmed \/ req'[q].reserved => Pay'
    BY DEF CaptureInv, Others
  <1>2. \A q \in Requests : req'[q].pc = "idle" => ~req'[q].reserved  BY DEF CaptureInv, Others
  <1>3. \A q \in Requests : Mailed(q)' => Captured'  BY DEF CaptureInv, AfterKept, Mailed
  <1>4. tx'.rows.case # "none" \/ tx'.rows.analysis # "none" => Pay'  BY DEF CaptureInv, TxRows
  <1>5. db'.case # "none" \/ db'.analysis # "none" \/ mails' > 0 \/ research' > 0 => Captured'
    BY DEF CaptureInv, AfterKept
  <1> QED  BY <1>1, <1>2, <1>3, <1>4, <1>5 DEF CaptureInv

\* A step of a branch that follows a commit.
LEMMA CaptureBranch ==
  ASSUME CaptureInv, LockKept, \A q \in Requests : Mailed(q)' => Mailed(q),
         db'.case # "none" => db.case # "none",
         db'.analysis # "none" => db.analysis # "none" \/ db.case # "none",
         mails' > 0 => mails > 0 \/ Captured, research' > 0 => research > 0 \/ db.analysis # "none"
  PROVE  CaptureInv'
  <1>1. (Captured => Captured') /\ (Pay => Pay')  BY SamePay DEF LockKept
  <1>2. \A q \in Requests : req'[q].pc \in Confirmed \/ req'[q].reserved => Pay'
    BY <1>1 DEF CaptureInv, LockKept
  <1>3. \A q \in Requests : req'[q].pc = "idle" => ~req'[q].reserved  BY DEF CaptureInv, LockKept
  <1>4. \A q \in Requests : Mailed(q)' => Captured'  BY <1>1 DEF CaptureInv
  <1>5. tx'.rows.case # "none" \/ tx'.rows.analysis # "none" => Pay'
    BY <1>1 DEF CaptureInv, LockKept
  <1>6. db'.case # "none" \/ db'.analysis # "none" \/ mails' > 0 \/ research' > 0 => Captured'
    BY <1>1 DEF CaptureInv
  <1> QED  BY <1>2, <1>3, <1>4, <1>5, <1>6 DEF CaptureInv

LEMMA CaptureStep ==
  TypeInv /\ ResearchInv /\ CaptureInv /\ [Next]_vars => CaptureInv'
  <1> SUFFICES ASSUME TypeInv, ResearchInv, CaptureInv, [Next]_vars PROVE CaptureInv'  OBVIOUS
  <1>t. TypeOK  BY DEF TypeInv
  <1> USE <1>t
  <1>1. ASSUME NEW r \in Requests, NEW op \in {"start", "retry", "confirm"}, Acquire(r, op)
        PROVE  CaptureInv'
    <2> USE <1>1, AcquireEffect
    <2>1. \A q \in Requests \ {r} : req[q].pc = "idle"  BY AcquireAlone
    <2>2. TxRows /\ (tx.captured => tx'.captured)  BY DEF TxRows
    <2>3. (Captured => Captured') /\ (Pay => Pay')  BY <2>2, SamePay
    <2>4. req'[r].pc # "idle" /\ req'[r].pc \notin Confirmed  BY DEF Confirmed
    <2> QED  BY <2>1, <2>2, <2>3, <2>4, CaptureUnder
  <1>2. ASSUME NEW r \in Requests, StartFinds(r) PROVE CaptureInv'
    BY <1>2, StartFindsEffect, Holder, NotIdle, SamePay, CaptureUnder
    DEF TxKept, UnderLockFrame, Confirmed
  <1>3. ASSUME NEW r \in Requests, StartCreates(r) PROVE CaptureInv'
    <2> USE <1>3, StartCreatesEffect
    <2>1. Captured => Captured'
      BY AppendKeepsCapture, SamePay DEF TxKept
    <2>2. Pay => Pay'  BY <2>1 DEF Pay, TxKept
    <2> QED  BY <2>1, <2>2, Holder, NotIdle, CaptureUnder DEF TxKept, UnderLockFrame, Confirmed
  <1>4. ASSUME NEW r \in Requests, RetryPayment(r) PROVE CaptureInv'
    <2> USE <1>4, RetryEffect
    <2>1. Captured => Captured'
      BY AppendKeepsCapture, SamePay DEF TxKept
    <2>2. Pay => Pay'  BY <2>1 DEF Pay, TxKept
    <2> QED  BY <2>1, <2>2, Holder, NotIdle, CaptureUnder DEF TxKept, UnderLockFrame, Confirmed
  <1>5. ASSUME NEW r \in Requests, ConfirmLoads(r) PROVE CaptureInv'
    <2> USE <1>5, ConfirmEffect
    <2>1. (Captured => Captured') /\ (Pay => Pay')  BY SamePay DEF TxKept
    <2>2. req'[r].pc \in Confirmed => Pay'
      <3> SUFFICES ASSUME req'[r].pc \in Confirmed PROVE Pay'  OBVIOUS
      <3>1. gw # <<>> /\ Newest = "captured"  BY DEF Confirmed
      <3>2. Len(gw) \in DOMAIN gw  BY <3>1, NewestType, TypeFacts, LenProperties
      <3> QED  BY <2>1, <3>1, <3>2 DEF Newest, Captured, Pay
    <2>3. req'[r].pc # "idle"  OBVIOUS
    <2> QED  BY <2>1, <2>2, <2>3, Holder, NotIdle, CaptureUnder DEF TxKept, UnderLockFrame
  <1>6. ASSUME NEW r \in Requests, Capture(r) PROVE CaptureInv'
    <2> USE <1>6, CaptureEffect
    <2>1. (Captured => Captured') /\ (Pay => Pay')  BY SamePay
    <2>2. req'[r].pc \in Confirmed => Pay'  BY DEF Confirmed, Pay
    <2>3. req'[r].pc # "idle"  OBVIOUS
    <2> QED  BY <2>1, <2>2, <2>3, Holder, NotIdle, CaptureUnder DEF UnderLockFrame
  <1>7. ASSUME NEW r \in Requests, Reconcile(r) PROVE CaptureInv'
    BY <1>7, ReconcileEffect, Holder, NotIdle, SamePay, CaptureUnder
    DEF TxKept, UnderLockFrame, Confirmed
  <1>8. ASSUME NEW r \in Requests, ReserveLoads(r) PROVE CaptureInv'
    BY <1>8, ReserveLoadsEffect, Holder, NotIdle, SamePay, CaptureUnder
    DEF TxKept, UnderLockFrame, Confirmed
  <1>9. ASSUME NEW r \in Requests, ReserveWrites(r) PROVE CaptureInv'
    <2> USE <1>9, ReserveWritesEffect
    <2>1. (Captured => Captured') /\ (Pay => Pay')  BY SamePay DEF TxKept
    <2>2. Pay  BY DEF CaptureInv, Confirmed
    <2>3. req'[r].pc # "idle"  OBVIOUS
    <2> QED  BY <2>1, <2>2, <2>3, Holder, NotIdle, CaptureUnder DEF TxKept, UnderLockFrame
  <1>10. ASSUME NEW r \in Requests, ReserveFails(r) PROVE CaptureInv'
    BY <1>10, ReserveFailsEffect, Holder, NotIdle, SamePay, CaptureUnder DEF TxKept, Confirmed
  <1>11. ASSUME NEW r \in Requests, Activate(r) PROVE CaptureInv'
    <2> USE <1>11, ActivateEffect
    <2>1. Pay  BY DEF CaptureInv, Confirmed
    <2>a. \A q \in Requests \ {r} : req[q].pc = "idle"  BY Holder, NotIdle
    <2>2. CASE ActivateSkips(r)
      BY <2>2, <2>a, SamePay, CaptureUnder DEF TxKept, UnderLockFrame, Confirmed, ActivateSkips
    <2>3. CASE ActivateWrites(r)
      <3>1. (Captured => Captured') /\ Pay'  BY <2>1, <2>3, SamePay DEF ActivateWrites
      <3>2. \A q \in Requests : req'[q].pc = "idle" => ~req'[q].reserved
        BY <2>3 DEF CaptureInv, Others, ActivateWrites
      <3>3. \A q \in Requests : Mailed(q)' => Captured'
        BY <3>1 DEF CaptureInv, UnderLockFrame, AfterKept, Mailed
      <3>4. db'.case # "none" \/ db'.analysis # "none" \/ mails' > 0 \/ research' > 0 => Captured'
        BY <3>1 DEF CaptureInv, UnderLockFrame, AfterKept
      <3> QED  BY <3>1, <3>2, <3>3, <3>4 DEF CaptureInv
    <2> QED  BY <2>2, <2>3
  <1>12. ASSUME NEW r \in Requests, ActivationFails(r) PROVE CaptureInv'
    <2> USE <1>12, ActivationFailsEffect
    <2>1. Pay  BY DEF CaptureInv, Confirmed
    <2>a. \A q \in Requests \ {r} : req[q].pc = "idle"  BY Holder, NotIdle
    <2>2. CASE TxKept
      BY <2>2, <2>a, SamePay, CaptureUnder DEF TxKept, Confirmed
    <2>3. CASE CaseStays
      <3>1. (Captured => Captured') /\ Pay'  BY <2>1, <2>3, SamePay DEF CaseStays
      <3>2. \A q \in Requests : req'[q].pc = "idle" => ~req'[q].reserved
        BY DEF CaptureInv, Others
      <3>3. \A q \in Requests : Mailed(q)' => Captured'
        BY <3>1 DEF CaptureInv, AfterKept, Mailed
      <3>4. db'.case # "none" \/ db'.analysis # "none" \/ mails' > 0 \/ research' > 0 => Captured'
        BY <3>1 DEF CaptureInv, AfterKept
      <3> QED  BY <3>1, <3>2, <3>3, <3>4 DEF CaptureInv
    <2> QED  BY <2>2, <2>3
  <1>13. ASSUME NEW r \in Requests, SaveLoads(r) PROVE CaptureInv'
    BY <1>13, SaveLoadsEffect, Holder, NotIdle, SamePay, CaptureUnder
    DEF TxKept, UnderLockFrame, Confirmed
  <1>14. ASSUME NEW r \in Requests, SaveWrites(r) PROVE CaptureInv'
    BY <1>14, SaveWritesEffect, Holder, NotIdle, SamePay, CaptureUnder
    DEF TxKept, UnderLockFrame, Confirmed
  <1>15. ASSUME NEW r \in Requests, SaveFails(r) PROVE CaptureInv'
    BY <1>15, SaveFailsEffect, Holder, NotIdle, SamePay, CaptureUnder DEF TxKept, Confirmed
  <1>16. ASSUME NEW r \in Requests, Commit(r) PROVE CaptureInv'
    <2> USE <1>16, CommitEffect
    <2>0. \A q \in Requests \ {r} : req[q].pc = "idle"  BY Holder
    <2>1. \A q \in Requests : req'[q].pc = "idle" /\ ~req'[q].reserved
      <3>1. /\ req'[r].pc = "idle" /\ req'[r].reserved = FALSE
            /\ \A q \in Requests \ {r} : req'[q] = req[q]
        BY DEF Others
      <3> QED  BY <2>0, <3>1 DEF CaptureInv
    <2>2. Pay => Captured'  BY CommitKeepsCapture
    <2>3. Captured => Captured'  BY <2>2 DEF Pay
    <2>4. \A q \in Requests : Mailed(q)' => Captured'
      <3>1. \A q \in Requests \ {r} : Mailed(q)' => Captured'  BY <2>3 DEF CaptureInv, Mailed
      <3>2. Mailed(r)' => Captured'  BY <2>2 DEF CaptureInv, Mailed
      <3> QED  BY <3>1, <3>2
    <2>5. db'.case # "none" \/ db'.analysis # "none" => Captured'
      BY <2>2, <2>3, MergedFields DEF CaptureInv, Seen
    <2>6. mails' > 0 \/ research' > 0 => Captured'  BY <2>3 DEF CaptureInv
    <2>7. tx'.rows.case = "none" /\ tx'.rows.analysis = "none"  BY InitialRecords
    <2>8. \A q \in Requests : req'[q].pc \notin Confirmed  BY <2>1 DEF Confirmed
    <2> QED  BY <2>1, <2>4, <2>5, <2>6, <2>7, <2>8 DEF CaptureInv
  <1>17. ASSUME NEW r \in Requests, Abort(r) PROVE CaptureInv'
    <2> USE <1>17, AbortEffect
    <2>0. \A q \in Requests \ {r} : req[q].pc = "idle"  BY Holder
    <2>1. \A q \in Requests : req'[q].pc = "idle" /\ ~req'[q].reserved
      <3>1. /\ req'[r].pc = "idle" /\ req'[r].reserved = FALSE
            /\ \A q \in Requests \ {r} : req'[q] = req[q]
        BY DEF Others
      <3> QED  BY <2>0, <3>1 DEF CaptureInv
    <2>3. Captured => Captured'  BY DEF Captured
    <2>4. \A q \in Requests : Mailed(q)' => Captured'  BY <2>3 DEF CaptureInv, Mailed, AfterKept
    <2>6. db'.case # "none" \/ db'.analysis # "none" \/ mails' > 0 \/ research' > 0 => Captured'
      BY <2>3 DEF CaptureInv, AfterKept
    <2>7. tx'.rows.case = "none" /\ tx'.rows.analysis = "none"  BY InitialRecords
    <2>8. \A q \in Requests : req'[q].pc \notin Confirmed  BY <2>1 DEF Confirmed
    <2> QED  BY <2>1, <2>4, <2>6, <2>7, <2>8 DEF CaptureInv
  <1>18. ASSUME NEW r \in Requests, Deliver(r) PROVE CaptureInv'
    <2> USE <1>18, DeliverEffect
    <2>1. Captured  BY DEF CaptureInv, Mailed
    <2>2. \A q \in Requests : Mailed(q)' => Mailed(q)  BY DEF Mailed
    <2> QED  BY <2>1, <2>2, CaptureBranch
  <1>19. ASSUME NEW r \in Requests, OutcomeLoads(r) PROVE CaptureInv'
    BY <1>19, OutcomeLoadsEffect, CaptureBranch DEF Mailed
  <1>20. ASSUME NEW r \in Requests, OutcomeWrites(r) PROVE CaptureInv'
    BY <1>20, OutcomeWritesEffect, CaptureBranch DEF Mailed, MailGone
  <1>21. ASSUME NEW r \in Requests, OutcomeFails(r) PROVE CaptureInv'
    BY <1>21, OutcomeFailsEffect, CaptureBranch DEF Mailed, MailGone
  <1>22. ASSUME NEW r \in Requests, Executing(r) PROVE CaptureInv'
    <2> USE <1>22, ExecuteEffect
    <2>1. db'.analysis # "none" \/ research' > 0 => db.analysis # "none" \/ research > 0
      BY ExecutesInstance
    <2> QED  BY <2>1, CaptureBranch DEF Mailed, DbKept, ResearchInv
  <1>23. ASSUME NEW r \in Requests, Bootstrap(r) PROVE CaptureInv'
    BY <1>23, BootstrapEffect, CaptureBranch DEF Mailed
  <1>24. ASSUME NEW r \in Requests, ExecuteException(r) PROVE CaptureInv'
    BY <1>24, ExceptionEffect, CaptureBranch DEF Mailed, DbKept
  <1>25. ASSUME NEW r \in Requests, DiesAfterCommit(r) PROVE CaptureInv'
    BY <1>25, DiesEffect, CaptureBranch DEF Mailed, MailGone
  <1>26. CASE ProviderMoves
    <2> USE <1>26, ProviderEffect
    <2>1. Captured => Captured'  BY ProviderKeepsCapture
    <2>2. Pay => Pay'  BY <2>1 DEF Pay
    <2>3. \A q \in Requests : Mailed(q)' => Captured'  BY <2>1 DEF CaptureInv, Mailed
    <2> QED  BY <2>1, <2>2, <2>3 DEF CaptureInv
  <1>27. CASE SwitchAnalysis
    BY <1>27 DEF SwitchAnalysis, CaptureInv, Pay, Captured, Mailed
  <1>28. CASE UNCHANGED vars
    BY <1>28 DEF vars, CaptureInv, Pay, Captured, Mailed
  <1> QED
    BY <1>1, <1>2, <1>3, <1>4, <1>5, <1>6, <1>7, <1>8, <1>9, <1>10, <1>11, <1>12, <1>13, <1>14,
       <1>15, <1>16, <1>17, <1>18, <1>19, <1>20, <1>21, <1>22, <1>23, <1>24, <1>25, <1>26, <1>27,
       <1>28
    DEF Next, UnderLock, Mailing, Working, Failing, Executing

LEMMA CaptureInit ==
  Init => CaptureInv
  <1> SUFFICES ASSUME Init PROVE CaptureInv  OBVIOUS
  <1>1. /\ \A r \in Requests : req[r].pc = "idle" /\ req[r].reserved = FALSE
        /\ \A r \in Requests : mail[r].pc = "none"
    BY InitialRecords DEF Init
  <1>2. /\ tx.rows.case = "none" /\ tx.rows.analysis = "none" /\ db.case = "none"
        /\ db.analysis = "none" /\ mails = 0 /\ research = 0
    BY InitialRecords DEF Init
  <1> QED  BY <1>1, <1>2 DEF CaptureInv, Confirmed, Mailed

-----------------------------------------------------------------------------
(* The binding and its two writers *)

\* A request that is not let in claims nothing of the binding.
LEMMA IdleBinding ==
  ASSUME BindingInv, NEW r \in Requests, \A q \in Requests \ {r} : req[q].pc = "idle", Others(r)
  PROVE  \A q \in Requests \ {r} : RequestBinding(q)'
  <1> SUFFICES ASSUME NEW q \in Requests \ {r} PROVE RequestBinding(q)'  OBVIOUS
  <1>1. req'[q].pc = "idle" /\ ~req'[q].reserved  BY DEF Others, BindingInv, RequestBinding
  <1> QED  BY <1>1 DEF RequestBinding, Reserving, Confirmed

\* A step of the lock holder that leaves the binding and the e-mails alone.
LEMMA BindingUnder ==
  ASSUME BindingInv, NEW r \in Requests, \A q \in Requests \ {r} : req[q].pc = "idle", Others(r),
         mail' = mail, binding' = binding, RequestBinding(r)'
  PROVE  BindingInv'
  <1>1. \A q \in Requests : MailedBinding(q)'  BY DEF BindingInv, MailedBinding, Mailed
  <1> QED  BY <1>1, IdleBinding DEF BindingInv

\* A request at one of these places claims nothing, unless it reserved a delivery.
LEMMA Elsewhere ==
  ASSUME NEW r \in Requests, ~req'[r].reserved,
         req'[r].pc \in {"idle", "start", "create", "retry", "confirm", "commit"}
  PROVE  RequestBinding(r)'
  BY DEF RequestBinding, Reserving, Confirmed

\* A request without a reservation, at a place before one.
LEMMA NotReserved ==
  ASSUME BindingInv, NEW r \in Requests,
         req[r].pc \in {"idle", "start", "create", "retry", "confirm", "capture", "reconcile",
                        "reserve", "reserving"}
  PROVE  ~req[r].reserved
  BY DEF BindingInv, RequestBinding

\* A step that touches neither the requests, nor the e-mails, nor the binding.
LEMMA BindingAside ==
  ASSUME BindingInv, UNCHANGED <<req, mail, binding>>
  PROVE  BindingInv'
  BY DEF BindingInv, MailedBinding, RequestBinding, NoMailing, Mailed, Reserving

\* The confirmation branch that ends is the only one there is.
LEMMA LastMail ==
  ASSUME BindingInv, NEW r \in Requests, Mailed(r)
  PROVE  /\ \A q \in Requests : Mailed(q) => q = r
         /\ \A q \in Requests : ~req[q].reserved /\ ~Reserving(q)
  BY DEF BindingInv, MailedBinding, RequestBinding, NoMailing

LEMMA BindingStep ==
  TypeInv /\ BindingInv /\ [Next]_vars => BindingInv'
  <1> SUFFICES ASSUME TypeInv, BindingInv, [Next]_vars PROVE BindingInv'  OBVIOUS
  <1>t. TypeOK  BY DEF TypeInv
  <1> USE <1>t
  <1>1. ASSUME NEW r \in Requests, NEW op \in {"start", "retry", "confirm"}, Acquire(r, op)
        PROVE  BindingInv'
    BY <1>1, AcquireEffect, AcquireAlone, Elsewhere, BindingUnder DEF AfterKept
  <1>2. ASSUME NEW r \in Requests, StartFinds(r) PROVE BindingInv'
    BY <1>2, StartFindsEffect, Holder, NotIdle, NotReserved, Elsewhere, BindingUnder
    DEF UnderLockFrame, AfterKept
  <1>3. ASSUME NEW r \in Requests, StartCreates(r) PROVE BindingInv'
    BY <1>3, StartCreatesEffect, Holder, NotIdle, NotReserved, Elsewhere, BindingUnder
    DEF UnderLockFrame, AfterKept
  <1>4. ASSUME NEW r \in Requests, RetryPayment(r) PROVE BindingInv'
    BY <1>4, RetryEffect, Holder, NotIdle, NotReserved, Elsewhere, BindingUnder
    DEF UnderLockFrame, AfterKept
  <1>5. ASSUME NEW r \in Requests, ConfirmLoads(r) PROVE BindingInv'
    <2> USE <1>5, ConfirmEffect
    <2>1. \A q \in Requests \ {r} : req[q].pc = "idle"  BY Holder, NotIdle
    <2>2. ~req'[r].reserved  BY NotReserved
    <2>3. mail' = mail /\ binding' = binding  BY DEF UnderLockFrame, AfterKept
    <2>4. RequestBinding(r)'
      <3>1. CASE req'[r].pc = "commit"  BY <3>1, <2>2, Elsewhere
      <3>2. CASE req'[r].pc # "commit"
        <4>1. req'[r].view = binding /\ req'[r].pc \in {"capture", "reconcile"}  BY <3>2
        <4>2. Reserving(r)' => NoMailing'
          BY <4>1, <2>3 DEF Reserving, RetriedConfirmation, NoMailing, Mailed, BindingInv, MailedBinding
        <4> QED  BY <4>1, <4>2, <2>2, <2>3 DEF RequestBinding
      <3> QED  BY <3>1, <3>2
    <2> QED  BY <2>1, <2>3, <2>4, BindingUnder
  <1>6. ASSUME NEW r \in Requests, Capture(r) PROVE BindingInv'
    <2> USE <1>6, CaptureEffect
    <2>1. \A q \in Requests \ {r} : req[q].pc = "idle"  BY Holder, NotIdle
    <2>2. ~req'[r].reserved  BY NotReserved
    <2>3. mail' = mail /\ binding' = binding  BY DEF UnderLockFrame, AfterKept
    <2>4. RequestBinding(r)'
      <3>1. CASE req'[r].pc = "commit"  BY <3>1, <2>2, Elsewhere
      <3>2. CASE req'[r].pc = "reconcile"
        <4>1. req'[r].view = req[r].view  BY <3>2
        <4>2. Reserving(r)' => NoMailing'
          BY <4>1, <3>2, <2>3 DEF Reserving, NoMailing, Mailed, BindingInv, RequestBinding
        <4>3. req[r].view.bound = "none" => binding.bound = "none"
          BY DEF BindingInv, RequestBinding
        <4> QED  BY <4>1, <4>2, <4>3, <3>2, <2>2, <2>3 DEF RequestBinding
      <3> QED  BY <3>1, <3>2
    <2> QED  BY <2>1, <2>3, <2>4, BindingUnder
  <1>7. ASSUME NEW r \in Requests, Reconcile(r) PROVE BindingInv'
    <2> USE <1>7, ReconcileEffect
    <2>1. \A q \in Requests \ {r} : req[q].pc = "idle"  BY Holder, NotIdle
    <2>2. ~req'[r].reserved  BY NotReserved
    <2>3. mail' = mail /\ binding' = binding  BY DEF UnderLockFrame, AfterKept
    <2>4. Reserving(r)' => NoMailing'
      BY <2>3 DEF Reserving, NoMailing, Mailed, BindingInv, RequestBinding
    <2>5. req[r].view.bound = "none" => binding.bound = "none"
      BY DEF BindingInv, RequestBinding, Confirmed
    <2>6. RequestBinding(r)'  BY <2>2, <2>3, <2>4, <2>5 DEF RequestBinding
    <2> QED  BY <2>1, <2>3, <2>6, BindingUnder
  <1>8. ASSUME NEW r \in Requests, ReserveLoads(r) PROVE BindingInv'
    <2> USE <1>8, ReserveLoadsEffect
    <2>1. \A q \in Requests \ {r} : req[q].pc = "idle"  BY Holder, NotIdle
    <2>2. ~req'[r].reserved  BY NotReserved
    <2>3. mail' = mail /\ binding' = binding  BY DEF UnderLockFrame, AfterKept
    <2>4. NoMailing'
      BY <2>3 DEF Reserving, NoMailing, Mailed, BindingInv, RequestBinding
    <2>5. req[r].view.bound = "none" => binding.bound = "none"
      BY DEF BindingInv, RequestBinding, Confirmed
    <2>6. RequestBinding(r)'  BY <2>2, <2>3, <2>4, <2>5 DEF RequestBinding
    <2> QED  BY <2>1, <2>3, <2>6, BindingUnder
  <1>9. ASSUME NEW r \in Requests, ReserveWrites(r) PROVE BindingInv'
    <2> USE <1>9, ReserveWritesEffect
    <2>1. \A q \in Requests \ {r} : req[q].pc = "idle"  BY Holder, NotIdle
    <2>2. mail' = mail  BY DEF UnderLockFrame, AfterKept
    <2>3. NoMailing /\ NoMailing'
      BY <2>2 DEF Reserving, NoMailing, Mailed, BindingInv, RequestBinding
    <2>4. req'[r].reserved => binding'.conf = "sending" /\ binding'.by = r  BY ReservationFields
    <2>5. RequestBinding(r)'
      BY <2>3, <2>4 DEF RequestBinding, Reserving
    <2>6. \A q \in Requests : MailedBinding(q)'
      BY <2>3 DEF NoMailing, MailedBinding
    <2> QED  BY <2>1, <2>5, <2>6, IdleBinding DEF BindingInv
  <1>10. ASSUME NEW r \in Requests, ReserveFails(r) PROVE BindingInv'
    <2> USE <1>10, ReserveFailsEffect
    <2>1. \A q \in Requests \ {r} : req[q].pc = "idle"  BY Holder, NotIdle
    <2>2. ~req'[r].reserved  BY NotReserved
    <2>3. NoMailing /\ NoMailing'
      BY DEF AfterKept, Reserving, NoMailing, Mailed, BindingInv, RequestBinding
    <2>4. binding'.bound = binding.bound
      <3>1. CASE binding' = binding  BY <3>1
      <3>2. CASE req[r].pc = "reserving" /\ binding' = Reservation(r)
        BY <3>2, ReservationFields DEF BindingInv, RequestBinding
      <3> QED  BY <3>1, <3>2
    <2>5. req[r].view.bound = "none" => binding.bound = "none"
      BY DEF BindingInv, RequestBinding, Confirmed
    <2>6. RequestBinding(r)'  BY <2>2, <2>3, <2>4, <2>5 DEF RequestBinding
    <2>7. \A q \in Requests : MailedBinding(q)'
      BY <2>3 DEF NoMailing, MailedBinding
    <2> QED  BY <2>1, <2>6, <2>7, IdleBinding DEF BindingInv
  <1>11. ASSUME NEW r \in Requests, Activate(r) PROVE BindingInv'
    <2> USE <1>11, ActivateEffect
    <2>1. \A q \in Requests \ {r} : req[q].pc = "idle"  BY Holder, NotIdle
    <2>3. mail' = mail /\ binding' = binding  BY DEF UnderLockFrame, AfterKept
    <2>4. req[r].reserved => binding.conf = "sending" /\ binding.by = r /\ NoMailing
      BY DEF BindingInv, RequestBinding
    <2>5. NoMailing => NoMailing'  BY <2>3 DEF NoMailing, Mailed
    <2>6. req[r].view.bound = "none" => binding.bound = "none"
      BY DEF BindingInv, RequestBinding, Confirmed
    <2>7. RequestBinding(r)'
      BY <2>3, <2>4, <2>5, <2>6
      DEF RequestBinding, Reserving, Confirmed, ActivateSkips, ActivateWrites
    <2> QED  BY <2>1, <2>3, <2>7, BindingUnder
  <1>12. ASSUME NEW r \in Requests, ActivationFails(r) PROVE BindingInv'
    <2> USE <1>12, ActivationFailsEffect
    <2>1. \A q \in Requests \ {r} : req[q].pc = "idle"  BY Holder, NotIdle
    <2>3. mail' = mail /\ binding' = binding  BY DEF AfterKept
    <2>4. req[r].reserved => binding.conf = "sending" /\ binding.by = r /\ NoMailing
      BY DEF BindingInv, RequestBinding
    <2>5. NoMailing => NoMailing'  BY <2>3 DEF NoMailing, Mailed
    <2>7. RequestBinding(r)'
      BY <2>3, <2>4, <2>5 DEF RequestBinding, Reserving, Confirmed
    <2> QED  BY <2>1, <2>3, <2>7, BindingUnder
  <1>13. ASSUME NEW r \in Requests, SaveLoads(r) PROVE BindingInv'
    <2> USE <1>13, SaveLoadsEffect
    <2>1. \A q \in Requests \ {r} : req[q].pc = "idle"  BY Holder, NotIdle
    <2>3. mail' = mail /\ binding' = binding  BY DEF UnderLockFrame, AfterKept
    <2>4. req[r].reserved => binding.conf = "sending" /\ binding.by = r /\ NoMailing
      BY DEF BindingInv, RequestBinding
    <2>5. NoMailing => NoMailing'  BY <2>3 DEF NoMailing, Mailed
    <2>6. req[r].view.bound = "none" /\ binding.bound = "none"
      BY DEF BindingInv, RequestBinding, Confirmed
    <2>7. \A q \in Requests : Mailed(q)' => binding.conf = "sending" /\ binding.by = q
      BY <2>3 DEF BindingInv, MailedBinding, Mailed
    <2>8. RequestBinding(r)'
      BY <2>3, <2>4, <2>5, <2>6, <2>7 DEF RequestBinding, Reserving
    <2> QED  BY <2>1, <2>3, <2>8, BindingUnder
  <1>14. ASSUME NEW r \in Requests, req[r].pc = "saving", Others(r), req'[r].pc = "commit",
                req'[r].reserved = req[r].reserved, mail' = mail, binding' = Activation(r)
         PROVE  BindingInv'
    <2>1. \A q \in Requests \ {r} : req[q].pc = "idle"  BY <1>14, Holder, NotIdle
    <2>2. binding'.conf = req[r].snap.conf /\ binding'.by = req[r].snap.by
      BY <1>14, ActivationFields
    <2>3. binding.bound = "none"  BY <1>14 DEF BindingInv, RequestBinding, Confirmed
    <2>4. \A q \in Requests : Mailed(q) \/ (q = r /\ req[r].reserved) =>
            req[r].snap.conf = "sending" /\ req[r].snap.by = q
      BY <1>14 DEF BindingInv, RequestBinding
    <2>5. \A q \in Requests : MailedBinding(q)'
      BY <1>14, <2>2, <2>3, <2>4 DEF BindingInv, MailedBinding, Mailed
    <2>6. req[r].reserved => NoMailing'
      BY <1>14 DEF BindingInv, RequestBinding, NoMailing, Mailed
    <2>7. RequestBinding(r)'
      BY <1>14, <2>2, <2>4, <2>6 DEF RequestBinding, Reserving, Confirmed
    <2> QED  BY <1>14, <2>1, <2>5, <2>7, IdleBinding DEF BindingInv
  <1>15. ASSUME NEW r \in Requests, SaveWrites(r) PROVE BindingInv'
    BY <1>14, <1>15, SaveWritesEffect DEF UnderLockFrame, AfterKept
  <1>16. ASSUME NEW r \in Requests, SaveFails(r) PROVE BindingInv'
    <2> USE <1>16, SaveFailsEffect
    <2>1. CASE req[r].pc = "saving" /\ binding' = Activation(r)
      BY <1>14, <2>1 DEF AfterKept
    <2>2. CASE binding' = binding
      <3>1. \A q \in Requests \ {r} : req[q].pc = "idle"  BY Holder, NotIdle
      <3>3. mail' = mail  BY DEF AfterKept
      <3>4. req[r].reserved => binding.conf = "sending" /\ binding.by = r /\ NoMailing
        BY DEF BindingInv, RequestBinding
      <3>5. NoMailing => NoMailing'  BY <3>3 DEF NoMailing, Mailed
      <3>7. RequestBinding(r)'
        BY <2>2, <3>3, <3>4, <3>5 DEF RequestBinding, Reserving, Confirmed
      <3> QED  BY <2>2, <3>1, <3>3, <3>7, BindingUnder
    <2> QED  BY <2>1, <2>2
  <1>17. ASSUME NEW r \in Requests, Commit(r) PROVE BindingInv'
    <2> USE <1>17, CommitEffect
    <2>1. \A q \in Requests \ {r} : req[q].pc = "idle"  BY Holder
    <2>2. RequestBinding(r)'  BY Elsewhere
    <2>3. \A q \in Requests \ {r} : MailedBinding(q)'
      <3> SUFFICES ASSUME NEW q \in Requests \ {r} PROVE MailedBinding(q)'  OBVIOUS
      <3>1. mail'[q] = mail[q] /\ binding' = binding  OBVIOUS
      <3>2. MailedBinding(q)  BY DEF BindingInv
      <3> QED  BY ONLY <3>1, <3>2 DEF MailedBinding, Mailed
    <2>4. req[r].reserved => binding.conf = "sending" /\ binding.by = r
      BY DEF BindingInv, RequestBinding
    <2>5. MailedBinding(r)'  BY <2>4 DEF MailedBinding, Mailed
    <2> QED  BY <2>1, <2>2, <2>3, <2>5, IdleBinding DEF BindingInv
  <1>18. ASSUME NEW r \in Requests, Abort(r) PROVE BindingInv'
    BY <1>18, AbortEffect, Holder, Elsewhere, BindingUnder DEF SalesKept, AfterKept
  <1>19. ASSUME NEW r \in Requests, Deliver(r) PROVE BindingInv'
    <2> USE <1>19, DeliverEffect
    <2>1. \A q \in Requests : Mailed(q)' <=> Mailed(q)  BY DEF Mailed
    <2>2. \A q \in Requests : MailedBinding(q)'  BY <2>1 DEF BindingInv, MailedBinding
    <2>3. NoMailing' <=> NoMailing  BY <2>1 DEF NoMailing
    <2>4. \A q \in Requests : RequestBinding(q)'
      BY <2>1, <2>3 DEF BindingInv, RequestBinding, LockKept, Reserving
    <2> QED  BY <2>2, <2>4 DEF BindingInv
  <1>20. ASSUME NEW r \in Requests, OutcomeLoads(r) PROVE BindingInv'
    <2> USE <1>20, OutcomeLoadsEffect
    <2>1. \A q \in Requests : Mailed(q)' <=> Mailed(q)  BY DEF Mailed
    <2>2. \A q \in Requests : MailedBinding(q)'  BY <2>1 DEF BindingInv, MailedBinding
    <2>3. NoMailing' <=> NoMailing  BY <2>1 DEF NoMailing
    <2>4. \A q \in Requests : RequestBinding(q)'
      BY <2>1, <2>3 DEF BindingInv, RequestBinding, LockKept, Reserving
    <2> QED  BY <2>2, <2>4 DEF BindingInv
  <1>21. ASSUME NEW r \in Requests, Mailed(r), MailGone(r), LockKept,
                binding' = binding \/ (mail[r].pc = "reporting" /\ binding' = Outcome(r))
         PROVE  BindingInv'
    <2>1. \A q \in Requests : ~Mailed(q)'
      <3>1. mail'[r].pc = "none" /\ \A q \in Requests \ {r} : mail'[q] = mail[q]
        BY <1>21 DEF MailGone
      <3> QED  BY <1>21, <3>1, LastMail DEF Mailed
    <2>2. \A q \in Requests : ~req'[q].reserved /\ ~Reserving(q)'
      BY <1>21, LastMail DEF LockKept, Reserving
    <2>3. binding.bound = "none" => binding'.bound = "none"
      BY <1>21, OutcomeFields DEF BindingInv, MailedBinding
    <2>4. \A q \in Requests : RequestBinding(q)'
      BY <1>21, <2>1, <2>2, <2>3 DEF BindingInv, RequestBinding, LockKept, Reserving
    <2> QED  BY <2>1, <2>4 DEF BindingInv, MailedBinding
  <1>22. ASSUME NEW r \in Requests, OutcomeWrites(r) PROVE BindingInv'
    BY <1>21, <1>22, OutcomeWritesEffect DEF Mailed
  <1>23. ASSUME NEW r \in Requests, OutcomeFails(r) PROVE BindingInv'
    BY <1>21, <1>23, OutcomeFailsEffect DEF Mailed
  <1>24. ASSUME NEW r \in Requests, DiesAfterCommit(r) PROVE BindingInv'
    <2> USE <1>24, DiesEffect
    <2>1. CASE Mailed(r)  BY <2>1, <1>21
    <2>2. CASE ~Mailed(r)
      <3>1. \A q \in Requests : Mailed(q)' <=> Mailed(q)  BY <2>2 DEF Mailed, MailGone
      <3>2. \A q \in Requests : MailedBinding(q)'
        BY <3>1, <2>2 DEF BindingInv, MailedBinding, MailGone
      <3>3. NoMailing' <=> NoMailing  BY <3>1 DEF NoMailing
      <3>4. \A q \in Requests : RequestBinding(q)'
        BY <3>1, <3>3 DEF BindingInv, RequestBinding, LockKept, Reserving
      <3> QED  BY <3>2, <3>4 DEF BindingInv
    <2> QED  BY <2>1, <2>2
  <1>25. ASSUME NEW r \in Requests, Working(r) \/ ExecutionFails(r) PROVE BindingInv'
    BY <1>25, ExecuteEffect, BootstrapEffect, ExceptionEffect, BindingAside DEF Working, Executing, LockKept
  <1>26. CASE ProviderMoves
    BY <1>26, ProviderEffect, BindingAside
  <1>27. CASE SwitchAnalysis
    BY <1>27, BindingAside DEF SwitchAnalysis
  <1>28. CASE UNCHANGED vars
    BY <1>28, BindingAside DEF vars
  <1> QED
    BY <1>1, <1>2, <1>3, <1>4, <1>5, <1>6, <1>7, <1>8, <1>9, <1>10, <1>11, <1>12, <1>13, <1>15,
       <1>16, <1>17, <1>18, <1>19, <1>20, <1>22, <1>23, <1>24, <1>25, <1>26, <1>27, <1>28
    DEF Next, UnderLock, Mailing, Failing

LEMMA BindingInit ==
  Init => BindingInv
  <1> SUFFICES ASSUME Init PROVE BindingInv  OBVIOUS
  <1>1. /\ \A r \in Requests : req[r].pc = "idle" /\ req[r].reserved = FALSE
        /\ \A r \in Requests : mail[r].pc = "none"
    BY InitialRecords DEF Init
  <1> QED  BY <1>1 DEF BindingInv, MailedBinding, RequestBinding, Reserving, Confirmed, Mailed

-----------------------------------------------------------------------------
(* The case and its workflow instances *)

\* Before activation nothing is uncommitted.
LEMMA NothingYet ==
  ASSUME RowsInv, NEW r \in Requests, req[r].pc \notin {"idle", "save", "saving", "commit"}
  PROVE  tx.rows.case = "none" /\ tx.rows.link = "none" /\ tx.rows.analysis = "none"
  BY DEF RowsInv

LEMMA RowsEarly ==
  ASSUME RowsInv, NEW r \in Requests, \A q \in Requests \ {r} : req[q].pc = "idle", Others(r),
         req[r].pc \notin {"idle", "save", "saving", "commit"},
         req'[r].pc \notin {"save", "saving"}, TxRows, db' = db
  PROVE  RowsInv'
  <1>1. tx'.rows.case = "none" /\ tx'.rows.link = "none" /\ tx'.rows.analysis = "none"
    BY NothingYet DEF TxRows
  <1>2. \A q \in Requests : req'[q].pc \notin {"save", "saving"}  BY DEF Others
  <1> QED  BY <1>1, <1>2 DEF RowsInv

\* Nothing is uncommitted after the lock was given back, or before anything was written.
LEMMA RowsFresh ==
  ASSUME RowsInv, tx' = NoTx, \A q \in Requests : req'[q].pc \notin {"save", "saving"},
         db' = db
  PROVE  RowsInv'
  BY InitialRecords DEF RowsInv

\* The rows stand, and the request goes on from its activation or leaves.
LEMMA RowsLate ==
  ASSUME RowsInv, NEW r \in Requests, \A q \in Requests \ {r} : req[q].pc = "idle", Others(r),
         req[r].pc \in {"save", "saving"}, req'[r].pc \in {"save", "saving", "commit"},
         TxRows, db' = db
  PROVE  RowsInv'
  <1>1. tx'.rows.link # "none"  BY DEF RowsInv, TxRows
  <1>2. \A q \in Requests : req'[q].pc \in {"idle", "save", "saving", "commit"}  BY DEF Others
  <1> QED  BY <1>1, <1>2 DEF RowsInv, TxRows

\* A branch that writes the order, if anything, keeps an unbound order unbound.
LEMMA RowsAside ==
  ASSUME RowsInv, UNCHANGED <<req, tx, db>>,
         binding.bound = "none" => binding'.bound = "none"
  PROVE  RowsInv'
  BY DEF RowsInv

LEMMA OutcomeKeepsUnbound ==
  ASSUME TypeOK, BindingInv, NEW r \in Requests, Mailed(r),
         binding' = binding \/ (mail[r].pc = "reporting" /\ binding' = Outcome(r)),
         binding.bound = "none"
  PROVE  binding'.bound = "none"
  BY OutcomeFields DEF BindingInv, MailedBinding

LEMMA RowsStep ==
  TypeInv /\ BindingInv /\ ResearchInv /\ RowsInv /\ [Next]_vars => RowsInv'
  <1> SUFFICES ASSUME TypeInv, BindingInv, ResearchInv, RowsInv, [Next]_vars PROVE RowsInv'
    OBVIOUS
  <1>t. TypeOK  BY DEF TypeInv
  <1> USE <1>t
  <1>1. ASSUME NEW r \in Requests, NEW op \in {"start", "retry", "confirm"}, Acquire(r, op)
        PROVE  RowsInv'
    <2> USE <1>1, AcquireEffect
    <2>1. \A q \in Requests : req'[q].pc \notin {"save", "saving"}
      <3>1. /\ req'[r].pc \in {"start", "retry", "confirm"}
            /\ \A q \in Requests \ {r} : req'[q] = req[q] /\ req[q].pc = "idle"
        BY AcquireAlone DEF Others
      <3> QED  BY <3>1
    <2> QED  BY <2>1, RowsFresh DEF AfterKept
  <1>2. ASSUME NEW r \in Requests, StartFinds(r) PROVE RowsInv'
    BY <1>2, StartFindsEffect, Holder, NotIdle, RowsEarly DEF TxKept, UnderLockFrame, AfterKept
  <1>3. ASSUME NEW r \in Requests, StartCreates(r) PROVE RowsInv'
    BY <1>3, StartCreatesEffect, Holder, NotIdle, RowsEarly DEF TxKept, UnderLockFrame, AfterKept
  <1>4. ASSUME NEW r \in Requests, RetryPayment(r) PROVE RowsInv'
    BY <1>4, RetryEffect, Holder, NotIdle, RowsEarly DEF TxKept, UnderLockFrame, AfterKept
  <1>5. ASSUME NEW r \in Requests, ConfirmLoads(r) PROVE RowsInv'
    BY <1>5, ConfirmEffect, Holder, NotIdle, RowsEarly DEF TxKept, UnderLockFrame, AfterKept
  <1>6. ASSUME NEW r \in Requests, Capture(r) PROVE RowsInv'
    BY <1>6, CaptureEffect, Holder, NotIdle, RowsEarly DEF UnderLockFrame, AfterKept
  <1>7. ASSUME NEW r \in Requests, Reconcile(r) PROVE RowsInv'
    BY <1>7, ReconcileEffect, Holder, NotIdle, RowsEarly DEF TxKept, UnderLockFrame, AfterKept
  <1>8. ASSUME NEW r \in Requests, ReserveLoads(r) PROVE RowsInv'
    BY <1>8, ReserveLoadsEffect, Holder, NotIdle, RowsEarly DEF TxKept, UnderLockFrame, AfterKept
  <1>9. ASSUME NEW r \in Requests, ReserveWrites(r) PROVE RowsInv'
    BY <1>9, ReserveWritesEffect, Holder, NotIdle, RowsEarly DEF TxKept, UnderLockFrame, AfterKept
  <1>10. ASSUME NEW r \in Requests, ReserveFails(r) PROVE RowsInv'
    BY <1>10, ReserveFailsEffect, Holder, NotIdle, RowsEarly DEF TxKept, AfterKept
  <1>11. ASSUME NEW r \in Requests, Activate(r) PROVE RowsInv'
    <2> USE <1>11, ActivateEffect
    <2>1. \A q \in Requests \ {r} : req[q].pc = "idle"  BY Holder, NotIdle
    <2>2. CASE ActivateSkips(r)
      BY <2>1, <2>2, RowsEarly DEF ActivateSkips, TxKept, UnderLockFrame, AfterKept
    <2>3. CASE ActivateWrites(r)
      <3>1. tx.rows.case = "none" /\ tx.rows.link = "none" /\ tx.rows.analysis = "none"
        BY NothingYet
      <3>2. db' = db  BY DEF UnderLockFrame
      <3>3. /\ tx'.rows.case = Layout /\ tx'.rows.link = Layout /\ Layout \in {"demo", "analysis"}
            /\ tx'.rows.analysis = IF Layout = "analysis" /\ Seen("analysis") = "none" THEN "start"
                                   ELSE tx.rows.analysis
        BY <2>3, ActivatedFields DEF ActivateWrites
      <3>4. db.case \in {"none", Layout}  BY <2>3, <3>1 DEF ActivateWrites, Conflicts, Seen
      <3>5. tx'.rows.analysis # "none" =>
              tx'.rows.analysis = "start" /\ Layout = "analysis" /\ db.analysis = "none"
        BY <3>1, <3>3 DEF Seen
      <3>6. \A q \in Requests : req'[q].pc \in {"idle", "save", "saving", "commit"}
        BY <2>1, <2>3 DEF ActivateWrites, Others
      <3> HIDE <1>11
      <3> QED  BY <3>2, <3>3, <3>4, <3>5, <3>6 DEF RowsInv
    <2> QED  BY <2>2, <2>3
  <1>12. ASSUME NEW r \in Requests, ActivationFails(r) PROVE RowsInv'
    <2> USE <1>12, ActivationFailsEffect
    <2>1. \A q \in Requests \ {r} : req[q].pc = "idle"  BY Holder, NotIdle
    <2>2. CASE TxKept
      BY <2>1, <2>2, RowsEarly DEF TxKept, AfterKept
    <2>3. CASE CaseStays
      <3>1. tx.rows.case = "none" /\ tx.rows.link = "none" /\ tx.rows.analysis = "none"
        BY NothingYet
      <3>2. db' = db /\ binding' = binding  OBVIOUS
      <3>3. /\ tx'.rows.case = Layout /\ tx'.rows.link = "none" /\ Layout \in {"demo", "analysis"}
            /\ tx'.rows.analysis = "none"
        BY <2>3, <3>1 DEF CaseStays, Layout
      <3>4. db.case \in {"none", Layout}  BY <2>3, <3>1 DEF CaseStays, Conflicts, Seen
      <3>5. binding.bound = "none"  BY DEF BindingInv, RequestBinding, Confirmed
      <3>6. \A q \in Requests : req'[q].pc \in {"idle", "commit"}  BY <2>1 DEF Others
      <3> QED  BY <3>2, <3>3, <3>4, <3>5, <3>6 DEF RowsInv
    <2> QED  BY <2>2, <2>3
  <1>13. ASSUME NEW r \in Requests, SaveLoads(r) PROVE RowsInv'
    BY <1>13, SaveLoadsEffect, Holder, NotIdle, RowsLate DEF TxKept, UnderLockFrame, AfterKept
  <1>14. ASSUME NEW r \in Requests, SaveWrites(r) PROVE RowsInv'
    BY <1>14, SaveWritesEffect, Holder, NotIdle, RowsLate DEF TxKept, UnderLockFrame, AfterKept
  <1>15. ASSUME NEW r \in Requests, SaveFails(r) PROVE RowsInv'
    BY <1>15, SaveFailsEffect, Holder, NotIdle, RowsLate DEF TxKept, AfterKept
  <1>16. ASSUME NEW r \in Requests, Commit(r) PROVE RowsInv'
    <2> USE <1>16, CommitEffect
    <2>1. \A q \in Requests : req'[q].pc = "idle"
      <3>1. req'[r].pc = "idle" /\ \A q \in Requests \ {r} : req'[q] = req[q] /\ req[q].pc = "idle"
        BY Holder DEF Others
      <3> QED  BY <3>1
    <2>2. /\ db'.case = Seen("case") /\ db'.link = Seen("link") /\ db'.analysis = Seen("analysis")
      BY MergedFields
    <2>3. tx'.rows.case = "none" /\ tx'.rows.link = "none" /\ tx'.rows.analysis = "none"
      BY InitialRecords
    <2>4. db'.analysis # "none" => db'.case \in {"analysis", "upgraded"} /\ db'.link = "analysis"
      BY <2>2 DEF RowsInv, Seen
    <2> QED  BY <2>1, <2>3, <2>4 DEF RowsInv
  <1>17. ASSUME NEW r \in Requests, Abort(r) PROVE RowsInv'
    <2> USE <1>17, AbortEffect
    <2>1. \A q \in Requests : req'[q].pc = "idle"
      <3>1. req'[r].pc = "idle" /\ \A q \in Requests \ {r} : req'[q] = req[q] /\ req[q].pc = "idle"
        BY Holder DEF Others
      <3> QED  BY <3>1
    <2> QED  BY <2>1, RowsFresh DEF AfterKept
  <1>18. ASSUME NEW r \in Requests, Deliver(r) PROVE RowsInv'
    BY <1>18, DeliverEffect, RowsAside DEF LockKept
  <1>19. ASSUME NEW r \in Requests, OutcomeLoads(r) PROVE RowsInv'
    BY <1>19, OutcomeLoadsEffect, RowsAside DEF LockKept
  <1>20. ASSUME NEW r \in Requests, OutcomeWrites(r) PROVE RowsInv'
    BY <1>20, OutcomeWritesEffect, OutcomeKeepsUnbound, RowsAside DEF LockKept, Mailed
  <1>21. ASSUME NEW r \in Requests, OutcomeFails(r) PROVE RowsInv'
    BY <1>21, OutcomeFailsEffect, OutcomeKeepsUnbound, RowsAside DEF LockKept, Mailed
  <1>22. ASSUME NEW r \in Requests, Executing(r) PROVE RowsInv'
    <2> USE <1>22, ExecuteEffect
    <2>1. UNCHANGED <<req, tx, binding>> /\ db'.case = db.case /\ db'.link = db.link
      BY DEF LockKept, DbKept
    <2>2. CASE db'.analysis = db.analysis
      BY ONLY <2>1, <2>2, RowsInv DEF RowsInv
    <2>3. CASE db'.analysis # db.analysis
      <3>1. db.analysis # "none"  BY <2>3, ExecutesInstance
      <3> QED  BY ONLY <2>1, <3>1, RowsInv DEF RowsInv
    <2> QED  BY <2>2, <2>3
  <1>23. ASSUME NEW r \in Requests, Bootstrap(r) PROVE RowsInv'
    <2> USE <1>23, BootstrapEffect
    <2>1. UNCHANGED <<req, tx, binding>>  BY DEF LockKept
    <2>2. CASE db' = db  BY <2>1, <2>2, RowsAside
    <2>3. CASE /\ PurchaseStands /\ db.case = "demo" /\ db'.case = "upgraded"
               /\ db'.link = "analysis" /\ db'.analysis = "start"
      <3>1. binding.bound # "none"  BY <2>3 DEF PurchaseStands
      <3>2. tx.rows.case = "none" /\ tx.rows.link = "none" /\ tx.rows.analysis = "none"
        BY <3>1 DEF RowsInv
      <3> QED  BY ONLY <2>1, <2>3, <3>2, RowsInv DEF RowsInv
    <2> QED  BY <2>2, <2>3
  <1>24. ASSUME NEW r \in Requests, ExecuteException(r) PROVE RowsInv'
    BY <1>24, ExceptionEffect DEF LockKept, DbKept, RowsInv
  <1>25. ASSUME NEW r \in Requests, DiesAfterCommit(r) PROVE RowsInv'
    BY <1>25, DiesEffect, RowsAside DEF LockKept
  <1>26. CASE ProviderMoves
    BY <1>26, ProviderEffect, RowsAside
  <1>27. CASE SwitchAnalysis
    BY <1>27, RowsAside DEF SwitchAnalysis
  <1>28. CASE UNCHANGED vars
    BY <1>28, RowsAside DEF vars
  <1> QED
    BY <1>1, <1>2, <1>3, <1>4, <1>5, <1>6, <1>7, <1>8, <1>9, <1>10, <1>11, <1>12, <1>13, <1>14,
       <1>15, <1>16, <1>17, <1>18, <1>19, <1>20, <1>21, <1>22, <1>23, <1>24, <1>25, <1>26, <1>27,
       <1>28
    DEF Next, UnderLock, Mailing, Working, Failing, Executing

LEMMA RowsInit ==
  Init => RowsInv
  <1> SUFFICES ASSUME Init PROVE RowsInv  OBVIOUS
  <1>1. \A r \in Requests : req[r].pc = "idle"  BY InitialRecords DEF Init
  <1>2. /\ tx.rows.case = "none" /\ tx.rows.link = "none" /\ tx.rows.analysis = "none"
        /\ db.analysis = "none"
    BY InitialRecords DEF Init
  <1> QED  BY <1>1, <1>2 DEF RowsInv

-----------------------------------------------------------------------------
(* The research orders *)

\* A step that neither executes the instance nor loses an execution.
LEMMA ResearchAside ==
  ASSUME TypeOK, ResearchInv, UNCHANGED <<research, lost>>, db'.analysis = db.analysis,
         \A q \in Requests : work'[q] = "enqueued" <=> work[q] = "enqueued",
         \A q \in Requests : work'[q] # "none" => req'[q].pc = "idle",
         faults' = faults \/ faults' = faults + 1
  PROVE  ResearchInv'
  <1>1. RowFree' <=> RowFree  BY DEF RowFree
  <1>2. Executable' <=> Executable  BY DEF Executable
  <1>3. lost' <= faults'  BY TypeFacts DEF ResearchInv
  <1> QED  BY <1>1, <1>2, <1>3 DEF ResearchInv

\* A request that works under the lock, or is let in, has no branch left.
LEMMA ResearchUnder ==
  ASSUME TypeOK, ResearchInv, NEW r \in Requests, req[r].pc # "idle" \/ work[r] = "none", Others(r),
         UNCHANGED <<research, lost, work>>, db'.analysis = db.analysis,
         faults' = faults \/ faults' = faults + 1
  PROVE  ResearchInv'
  <1>1. work[r] = "none"  BY DEF ResearchInv
  <1>2. \A q \in Requests : work'[q] # "none" => req'[q].pc = "idle"
    BY <1>1 DEF ResearchInv, Others
  <1> QED  BY <1>2, ResearchAside

\* A branch that leaves the research alone.
LEMMA ResearchBranch ==
  ASSUME TypeOK, ResearchInv, NEW r \in Requests, UNCHANGED <<req, research, lost>>,
         db'.analysis = db.analysis, work[r] # "enqueued", work'[r] # "enqueued",
         work[r] # "none" \/ work'[r] = "none",
         \A q \in Requests \ {r} : work'[q] = work[q],
         faults' = faults \/ faults' = faults + 1
  PROVE  ResearchInv'
  <1>1. \A q \in Requests : work'[q] = "enqueued" <=> work[q] = "enqueued"  OBVIOUS
  <1>2. \A q \in Requests : work'[q] # "none" => req'[q].pc = "idle"  BY DEF ResearchInv
  <1> QED  BY <1>1, <1>2, ResearchAside

\* An execution that ends leaves the row to nobody.
LEMMA RowIsLeft ==
  ASSUME ResearchInv, NEW r \in Requests, work[r] = "enqueued", work'[r] # "enqueued",
         \A q \in Requests \ {r} : work'[q] = work[q]
  PROVE  ~RowFree /\ RowFree' /\ \A q \in Requests : work'[q] # "enqueued"
  BY DEF ResearchInv, RowFree

\* The steps of an execution: it enqueues, it commits, it fails, its failure is recorded.
LEMMA ResearchExecutes ==
  ASSUME TypeOK, ResearchInv, NEW r \in Requests, Executing(r)
  PROVE  ResearchInv'
  <1>t. /\ research \in Nat /\ lost \in Nat /\ faults \in Nat
        /\ db \in Rows /\ work \in [Requests -> WorkPcs]
    BY TypeFacts
  <1>e. /\ \A q \in Requests \ {r} : work'[q] = work[q]
        /\ req' = req /\ req[r].pc = "idle" /\ work[r] # "none"
    BY ExecuteEffect DEF LockKept, ResearchInv
  <1>i. \A q \in Requests : work'[q] # "none" => req'[q].pc = "idle"
    BY <1>e DEF ResearchInv
  <1>f. ASSUME Executable, RowFree, work[r] # "enqueued", work'[r] # "enqueued",
               UNCHANGED <<research, lost>>, db' = db \/ db' = [db EXCEPT !.analysis = "failed"],
               faults' = faults \/ faults' = faults + 1
        PROVE  ResearchInv'
    <2>1. \A q \in Requests : work'[q] # "enqueued"  BY <1>f, <1>e DEF RowFree
    <2>2. RowFree' /\ db'.analysis \in {"start", "failed"}
      BY <1>f, <1>t, <2>1 DEF RowFree, Executable, Rows
    <2>3. research = lost /\ lost <= faults  BY <1>f, <1>t DEF ResearchInv, Executable
    <2>4. lost' <= faults' /\ research' = lost' + 0  BY <1>f, <1>t, <2>3
    <2> QED  BY ONLY <1>f, <1>i, <2>1, <2>2, <2>3, <2>4 DEF ResearchInv
  <1>1. CASE ExecuteAnalysis(r) /\ ~Executable
    <2>1. /\ UNCHANGED <<req, research, db, lost, faults>> /\ work[r] = "execute"
          /\ work' = [work EXCEPT ![r] = "none"]
      BY <1>1, <1>e DEF ExecuteAnalysis, Work
    <2>2. work'[r] = "none"  BY <2>1, <1>t
    <2> QED  BY <1>e, <2>1, <2>2, ResearchBranch
  <1>2. CASE ExecuteAnalysis(r) /\ Executable
    <2>1. /\ UNCHANGED <<db, lost, faults>> /\ research' = research + 1 /\ RowFree
          /\ work' = [work EXCEPT ![r] = "enqueued"] /\ work[r] = "execute"
      BY <1>2 DEF ExecuteAnalysis, Work
    <2>2. work'[r] = "enqueued" /\ \A q \in Requests \ {r} : work'[q] # "enqueued"
      BY <2>1, <1>t, <1>e DEF RowFree
    <2>3. /\ Executable' /\ ~RowFree' /\ db.analysis # "dispatched" /\ db.analysis # "none"
      BY <2>1, <2>2, <1>2 DEF Executable, RowFree
    <2>4. research' = lost' + 1 /\ lost' <= faults'  BY <2>1, <2>3, <1>t DEF ResearchInv
    <2> QED  BY ONLY <1>e, <1>i, <2>1, <2>2, <2>3, <2>4 DEF ResearchInv
  <1>3. CASE ExecutionCommits(r)
    <2>1. /\ UNCHANGED <<research, lost, faults>> /\ work[r] = "enqueued"
          /\ work' = [work EXCEPT ![r] = "none"] /\ db' = [db EXCEPT !.analysis = "dispatched"]
      BY <1>3 DEF ExecutionCommits, Work
    <2>2. work'[r] = "none" /\ db'.analysis = "dispatched"  BY <2>1, <1>t DEF Rows
    <2>3. ~RowFree /\ RowFree' /\ \A q \in Requests : work'[q] # "enqueued"
      BY <1>e, <2>1, <2>2, RowIsLeft
    <2>4. research = lost + 1 /\ lost <= faults  BY <2>3 DEF ResearchInv
    <2> QED  BY ONLY <1>i, <2>1, <2>2, <2>3, <2>4 DEF ResearchInv
  <1>4. CASE ExecutionFails(r) /\ work[r] = "execute"
    <2>1. /\ Executable /\ RowFree /\ UNCHANGED <<research, lost>> /\ faults' = faults + 1
          /\ db' = db \/ db' = [db EXCEPT !.analysis = "failed"]
      BY <1>4 DEF ExecutionFails, Fault
    <2>2. work'[r] # "enqueued"  BY <1>4, <1>t DEF ExecutionFails, Work
    <2> QED  BY <1>4, <2>1, <2>2, <1>f
  <1>5. CASE ExecutionFails(r) /\ work[r] = "enqueued"
    <2>1. /\ lost' = lost + 1 /\ research' = research /\ faults' = faults + 1
          /\ db' = db \/ db' = [db EXCEPT !.analysis = "failed"]
      BY <1>5 DEF ExecutionFails, Fault
    <2>2. work'[r] # "enqueued"  BY <1>5, <1>t DEF ExecutionFails, Work
    <2>3. ~RowFree /\ RowFree' /\ \A q \in Requests : work'[q] # "enqueued"
      BY <1>e, <1>5, <2>2, RowIsLeft
    <2>4. Executable /\ db'.analysis \in {"start", "failed"}
      BY <1>5, <2>1, <1>t DEF ResearchInv, Executable, Rows
    <2>5. research = lost + 1 /\ lost <= faults  BY <2>3 DEF ResearchInv
    <2>6. lost' <= faults' /\ research' = lost' + 0  BY <2>1, <2>5, <1>t
    <2> QED  BY ONLY <1>i, <2>1, <2>3, <2>4, <2>6 DEF ResearchInv
  <1>6. CASE PersistFailed(r)
    <2>1. /\ UNCHANGED <<req, research, lost, faults>> /\ RowFree /\ work[r] = "report"
          /\ work' = [work EXCEPT ![r] = "none"]
          /\ db' = IF db.analysis = "start" THEN [db EXCEPT !.analysis = "failed"] ELSE db
      BY <1>6, <1>e DEF PersistFailed, Work
    <2>2. work'[r] = "none"  BY <2>1, <1>t
    <2>3. CASE db.analysis = "start"
      BY <2>1, <2>2, <2>3, <1>f DEF Executable
    <2>4. CASE db.analysis # "start"
      BY <1>e, <2>1, <2>2, <2>4, ResearchBranch
    <2> QED  BY <2>3, <2>4
  <1> QED
    BY <1>1, <1>2, <1>3, <1>4, <1>5, <1>6 DEF Executing, ExecutionFails

\* A step under the lock, other than the commit.
Locked(r) ==
    \/ StartFinds(r) \/ StartCreates(r) \/ RetryPayment(r)
    \/ ConfirmLoads(r) \/ Capture(r) \/ Reconcile(r)
    \/ ReserveLoads(r) \/ ReserveWrites(r) \/ Activate(r) \/ SaveLoads(r) \/ SaveWrites(r)
    \/ Abort(r) \/ ReserveFails(r) \/ ActivationFails(r) \/ SaveFails(r)

LEMMA LockedEffect ==
  ASSUME TypeInv, NEW r \in Requests, Locked(r)
  PROVE  /\ req[r].pc # "idle" /\ Others(r) /\ AfterKept /\ db' = db
         /\ faults' = faults \/ faults' = faults + 1
  <1>t. TypeOK  BY DEF TypeInv
  <1>1. CASE StartFinds(r) \/ StartCreates(r) \/ RetryPayment(r) \/ ConfirmLoads(r)
    BY <1>1, <1>t, StartFindsEffect, StartCreatesEffect, RetryEffect, ConfirmEffect
    DEF UnderLockFrame
  <1>2. CASE Capture(r) \/ Reconcile(r) \/ ReserveLoads(r) \/ ReserveWrites(r)
    BY <1>2, <1>t, CaptureEffect, ReconcileEffect, ReserveLoadsEffect, ReserveWritesEffect
    DEF UnderLockFrame
  <1>3. CASE Activate(r)
    BY <1>3, <1>t, ActivateEffect DEF UnderLockFrame, ActivateSkips, ActivateWrites
  <1>4. CASE SaveLoads(r) \/ SaveWrites(r)
    BY <1>4, <1>t, SaveLoadsEffect, SaveWritesEffect DEF UnderLockFrame
  <1>5. CASE Abort(r)
    BY <1>5, <1>t, AbortEffect DEF Abort, Fault
  <1>6. CASE ReserveFails(r)
    BY <1>6, <1>t, ReserveFailsEffect DEF ReserveFails, Fault
  <1>7. CASE ActivationFails(r)
    BY <1>7, <1>t, ActivationFailsEffect DEF ActivationFails, Fault
  <1>8. CASE SaveFails(r)
    BY <1>8, <1>t, SaveFailsEffect DEF SaveFails, Fault
  <1> QED  BY <1>1, <1>2, <1>3, <1>4, <1>5, <1>6, <1>7, <1>8 DEF Locked

LEMMA ResearchStep ==
  TypeInv /\ RowsInv /\ ResearchInv /\ [Next]_vars => ResearchInv'
  <1> SUFFICES ASSUME TypeInv, RowsInv, ResearchInv, [Next]_vars PROVE ResearchInv'  OBVIOUS
  <1>t. TypeOK  BY DEF TypeInv
  <1> USE <1>t
  <1>1. ASSUME NEW r \in Requests, NEW op \in {"start", "retry", "confirm"}, Acquire(r, op)
        PROVE  ResearchInv'
    <2>1. work[r] = "none"  BY <1>1 DEF Acquire
    <2> QED  BY <1>1, <2>1, AcquireEffect, ResearchUnder DEF AfterKept
  <1>2. ASSUME NEW r \in Requests, Locked(r) PROVE ResearchInv'
    BY <1>2, LockedEffect, ResearchUnder DEF AfterKept
  <1>3. ASSUME NEW r \in Requests, Commit(r) PROVE ResearchInv'
    <2> USE <1>3, CommitEffect
    <2>1. work[r] = "none" /\ UNCHANGED <<research, lost, faults>>  BY DEF ResearchInv
    <2>2. \A q \in Requests : work'[q] = "enqueued" <=> work[q] = "enqueued"  BY <2>1
    <2>3. \A q \in Requests : work'[q] # "none" => req'[q].pc = "idle"
      <3>1. /\ req'[r].pc = "idle"
            /\ \A q \in Requests \ {r} : req'[q] = req[q] /\ work'[q] = work[q]
        BY DEF Others
      <3> QED  BY <3>1 DEF ResearchInv
    <2>4. db'.analysis = Seen("analysis")  BY MergedFields
    <2>5. CASE tx.rows.analysis = "none"
      BY <2>1, <2>2, <2>3, <2>4, <2>5, ResearchAside DEF Seen
    <2>6. CASE tx.rows.analysis # "none"
      <3>1. db.analysis = "none" /\ db'.analysis = "start"  BY <2>4, <2>6 DEF RowsInv, Seen
      <3>2. \A q \in Requests : work[q] # "enqueued"  BY <3>1 DEF ResearchInv, Executable
      <3>3. RowFree /\ RowFree'  BY <2>2, <3>2 DEF RowFree
      <3> QED  BY ONLY <2>1, <2>2, <2>3, <3>1, <3>2, <3>3, ResearchInv DEF ResearchInv
    <2> QED  BY <2>5, <2>6
  <1>4. ASSUME NEW r \in Requests, Mailing(r) \/ OutcomeFails(r) PROVE ResearchInv'
    <2>1. UNCHANGED <<req, work, db, research, lost>>
      BY <1>4, DeliverEffect, OutcomeLoadsEffect, OutcomeWritesEffect, OutcomeFailsEffect
      DEF Mailing, LockKept
    <2>2. faults' = faults \/ faults' = faults + 1
      BY <1>4 DEF Mailing, Deliver, OutcomeLoads, OutcomeWrites, OutcomeFails, Fault
    <2>3. \A q \in Requests : work'[q] # "none" => req'[q].pc = "idle"  BY <2>1 DEF ResearchInv
    <2> QED  BY <2>1, <2>2, <2>3, ResearchAside
  <1>5. ASSUME NEW r \in Requests, Executing(r) PROVE ResearchInv'
    BY <1>5, ResearchExecutes
  <1>6. ASSUME NEW r \in Requests, Bootstrap(r) PROVE ResearchInv'
    <2> USE <1>6, BootstrapEffect
    <2>1. UNCHANGED <<req, research, lost, faults>>  BY DEF LockKept
    <2>2. CASE db' = db  BY <2>1, <2>2, ResearchBranch
    <2>3. CASE db.case = "demo" /\ db'.analysis = "start"
      <3>1. db.analysis = "none"  BY <2>3 DEF RowsInv
      <3>2. \A q \in Requests : work[q] # "enqueued" /\ work'[q] # "enqueued"
        BY <3>1 DEF ResearchInv, Executable
      <3>3. \A q \in Requests : work'[q] # "none" => req'[q].pc = "idle"
        BY <2>1 DEF ResearchInv
      <3>4. RowFree /\ RowFree'  BY <3>2 DEF RowFree
      <3> QED  BY ONLY <2>1, <2>3, <3>1, <3>2, <3>3, <3>4, ResearchInv DEF ResearchInv
    <2> QED  BY <2>2, <2>3
  <1>7. ASSUME NEW r \in Requests, ExecuteException(r) PROVE ResearchInv'
    BY <1>7, ExceptionEffect, ResearchBranch DEF LockKept
  <1>8. ASSUME NEW r \in Requests, DiesAfterCommit(r) PROVE ResearchInv'
    <2> USE <1>8, DiesEffect
    <2>1. UNCHANGED <<req, db, research>>  BY DEF LockKept
    <2>2. CASE work[r] # "enqueued"
      BY <2>1, <2>2, ResearchBranch
    <2>3. CASE work[r] = "enqueued"
      <3>1. ~RowFree /\ RowFree' /\ \A q \in Requests : work'[q] # "enqueued"
        BY <2>3, RowIsLeft
      <3>2. Executable /\ research = lost + 1 /\ lost <= faults
        BY <2>3, <3>1 DEF ResearchInv
      <3>3. lost' = lost + 1 /\ lost' <= faults'  BY <2>3, <3>2, TypeFacts
      <3>4. \A q \in Requests : work'[q] # "none" => req'[q].pc = "idle"
        BY <2>1 DEF ResearchInv
      <3> QED
        BY ONLY <2>1, <3>1, <3>2, <3>3, <3>4, ResearchInv, TypeOK, TypeFacts
        DEF ResearchInv, Executable
    <2> QED  BY <2>2, <2>3
  <1>9. ASSUME UNCHANGED <<req, work, db, research, lost, faults>> PROVE ResearchInv'
    <2>1. \A q \in Requests : work'[q] # "none" => req'[q].pc = "idle"  BY <1>9 DEF ResearchInv
    <2> QED  BY <1>9, <2>1, ResearchAside
  <1>10. CASE ProviderMoves  BY <1>9, <1>10, ProviderEffect
  <1>11. CASE SwitchAnalysis  BY <1>9, <1>11 DEF SwitchAnalysis
  <1>12. CASE UNCHANGED vars  BY <1>9, <1>12 DEF vars
  <1> QED
    BY <1>1, <1>2, <1>3, <1>4, <1>5, <1>6, <1>7, <1>8, <1>10, <1>11, <1>12
    DEF Next, UnderLock, Working, Failing, Locked, Executing

LEMMA ResearchInit ==
  Init => ResearchInv
  <1> SUFFICES ASSUME Init PROVE ResearchInv  OBVIOUS
  <1>1. /\ \A r \in Requests : work[r] = "none"
        /\ db.analysis = "none" /\ research = 0 /\ lost = 0 /\ faults = 0
    BY InitialRecords DEF Init
  <1> QED  BY <1>1 DEF ResearchInv, RowFree

\* Every order is accounted for, and the instance is only there for a case linked to it.
ResearchIsSafe == ResearchOnceUnlessLost /\ ResearchHasItsCase

LEMMA ResearchSafe == Spec => []ResearchIsSafe
  <1> DEFINE IInv == TypeInv /\ BindingInv /\ RowsInv /\ ResearchInv
  <1>1. Init => IInv  BY TypeInit, BindingInit, RowsInit, ResearchInit
  <1>2. IInv /\ [Next]_vars => IInv'  BY TypeStep, BindingStep, RowsStep, ResearchStep
  <1>3. IInv => ResearchIsSafe
    <2> SUFFICES ASSUME TypeInv, RowsInv, ResearchInv PROVE ResearchIsSafe  OBVIOUS
    <2>1. research \in Nat /\ lost \in Nat /\ faults \in Nat  BY TypeFacts DEF TypeInv
    <2>2. ResearchOnceUnlessLost  BY <2>1 DEF ResearchInv, ResearchOnceUnlessLost
    <2>3. ResearchHasItsCase  BY DEF ResearchInv, RowsInv, ResearchHasItsCase
    <2> QED  BY <2>2, <2>3 DEF ResearchIsSafe
  <1> QED  BY <1>1, <1>2, <1>3, PTL DEF Spec

\* ResearchOnceUnlessLost: the paid research step is enqueued once for a purchase, and once
\* more only for each execution that enqueued it and failed or died before its commit, however
\* requests launch, hand over, replay, crash and run a failed instance again.
THEOREM ResearchOnceHolds == Spec => []ResearchOnceUnlessLost
  <1>1. ResearchIsSafe => ResearchOnceUnlessLost  BY DEF ResearchIsSafe
  <1> QED  BY <1>1, ResearchSafe, PTL

\* ResearchHasItsCase: research runs for a case that is linked to the analysis instance.
THEOREM ResearchHasItsCaseHolds == Spec => []ResearchHasItsCase
  <1>1. ResearchIsSafe => ResearchHasItsCase  BY DEF ResearchIsSafe
  <1> QED  BY <1>1, ResearchSafe, PTL

\* FulfilmentNeedsCapture: no case, e-mail or paid research exists without a committed
\* capture of the exact amount, whatever fails and in whatever order.
THEOREM FulfilmentNeedsCaptureHolds == Spec => []FulfilmentNeedsCapture
  <1> DEFINE IInv == TypeInv /\ BindingInv /\ RowsInv /\ ResearchInv /\ CaptureInv
  <1>1. Init => IInv  BY TypeInit, BindingInit, RowsInit, ResearchInit, CaptureInit
  <1>2. IInv /\ [Next]_vars => IInv'  BY TypeStep, BindingStep, RowsStep, ResearchStep, CaptureStep
  <1>3. IInv => FulfilmentNeedsCapture  BY DEF CaptureInv, FulfilmentNeedsCapture
  <1> QED  BY <1>1, <1>2, <1>3, PTL DEF Spec

-----------------------------------------------------------------------------
(* The confirmation e-mail, when the transport does not lose its answer *)

\* A step of the lock holder; only an order that still asks for an e-mail can reserve one.
LEMMA MailUnder ==
  ASSUME MailInv, NEW r \in Requests, \A q \in Requests \ {r} : req[q].pc = "idle", Others(r),
         mail' = mail, mails' = mails,
         mails = 1 => /\ binding'.conf \in Sent
                      /\ ~Reserving(r)' /\ ~req'[r].reserved
                      /\ req'[r].pc = "saving" => req'[r].snap.conf \in Sent
  PROVE  MailInv'
  <1>1. CASE mails = 1
    <2>1. \A q \in Requests \ {r} :
            req'[q].pc = "idle" /\ ~req'[q].reserved /\ ~Reserving(q)'
      BY <1>1 DEF MailInv, Others, Reserving
    <2>2. \A q \in Requests : mail'[q].pc # "deliver" /\ (Mailed(q)' => mail'[q].outcome = "sent")
      BY <1>1 DEF MailInv, Mailed
    <2> QED  BY <1>1, <2>1, <2>2 DEF MailInv
  <1>2. CASE mails = 0  BY <1>2 DEF MailInv
  <1> QED  BY <1>1, <1>2 DEF MailInv

\* At these places a request reserves nothing and writes nothing back.
LEMMA Harmless ==
  ASSUME NEW r \in Requests,
         req'[r].pc \in {"idle", "start", "create", "retry", "confirm", "activate", "save", "commit"}
  PROVE  ~Reserving(r)' /\ req'[r].pc # "saving"
  BY DEF Reserving

\* What a delivered e-mail rules out.
LEMMA AfterDelivery ==
  ASSUME MailInv, mails = 1
  PROVE  /\ binding.conf \in Sent
         /\ \A q \in Requests : mail[q].pc # "deliver" /\ (Mailed(q) => mail[q].outcome = "sent")
         /\ \A r \in Requests : ~Reserving(r) /\ ~req[r].reserved
               /\ (req[r].pc = "saving" => req[r].snap.conf \in Sent)
  BY DEF MailInv

\* A branch that ends or dies, or a step aside.
LEMMA MailAside ==
  ASSUME MailInv, UNCHANGED <<req, mails>>, mails = 1 => binding'.conf \in Sent,
         \A q \in Requests : mail'[q].pc = "none" \/ mail'[q] = mail[q]
  PROVE  MailInv'
  <1>1. CASE mails = 1
    <2>1. \A q \in Requests : mail'[q].pc # "deliver" /\ (Mailed(q)' => mail'[q].outcome = "sent")
      BY <1>1 DEF MailInv, Mailed
    <2>2. \A q \in Requests : ~Reserving(q)' /\ ~req'[q].reserved
                 /\ (req'[q].pc = "saving" => req'[q].snap.conf \in Sent)
      BY <1>1 DEF MailInv, Reserving
    <2> QED  BY <1>1, <2>1, <2>2 DEF MailInv
  <1>2. CASE mails = 0  BY <1>2 DEF MailInv
  <1> QED  BY <1>1, <1>2 DEF MailInv

LEMMA MailStep ==
  ASSUME "mail_answer" \notin Faults
  PROVE  TypeInv /\ BindingInv /\ MailInv /\ [Next]_vars => MailInv'
  <1> SUFFICES ASSUME TypeInv, BindingInv, MailInv, [Next]_vars PROVE MailInv'  OBVIOUS
  <1>t. TypeOK  BY DEF TypeInv
  <1> USE <1>t
  <1>1. ASSUME NEW r \in Requests, NEW op \in {"start", "retry", "confirm"}, Acquire(r, op)
        PROVE  MailInv'
    <2> USE <1>1, AcquireEffect
    <2>1. ~Reserving(r)' /\ req'[r].pc # "saving"  BY Harmless
    <2> QED  BY <2>1, AcquireAlone, AfterDelivery, MailUnder DEF AfterKept
  <1>2. ASSUME NEW r \in Requests, StartFinds(r) PROVE MailInv'
    BY <1>2, StartFindsEffect, Holder, NotIdle, Harmless, AfterDelivery, MailUnder
    DEF UnderLockFrame, AfterKept
  <1>3. ASSUME NEW r \in Requests, StartCreates(r) PROVE MailInv'
    BY <1>3, StartCreatesEffect, Holder, NotIdle, Harmless, AfterDelivery, MailUnder
    DEF UnderLockFrame, AfterKept
  <1>4. ASSUME NEW r \in Requests, RetryPayment(r) PROVE MailInv'
    BY <1>4, RetryEffect, Holder, NotIdle, Harmless, AfterDelivery, MailUnder
    DEF UnderLockFrame, AfterKept
  <1>5. ASSUME NEW r \in Requests, ConfirmLoads(r) PROVE MailInv'
    <2> USE <1>5, ConfirmEffect
    <2>1. mails = 1 => ~Reserving(r)'
      BY AfterDelivery DEF Reserving, Sent, RetriedConfirmation
    <2>2. req'[r].pc # "saving"  OBVIOUS
    <2> QED  BY <2>1, <2>2, Holder, NotIdle, AfterDelivery, MailUnder DEF UnderLockFrame, AfterKept
  <1>6. ASSUME NEW r \in Requests, Capture(r) PROVE MailInv'
    <2> USE <1>6, CaptureEffect
    <2>1. mails = 1 => ~Reserving(r)'  BY AfterDelivery DEF Reserving
    <2>2. req'[r].pc # "saving"  OBVIOUS
    <2> QED  BY <2>1, <2>2, Holder, NotIdle, AfterDelivery, MailUnder DEF UnderLockFrame, AfterKept
  <1>7. ASSUME NEW r \in Requests, Reconcile(r) PROVE MailInv'
    <2> USE <1>7, ReconcileEffect
    <2>1. mails = 1 => ~Reserving(r)'  BY AfterDelivery DEF Reserving
    <2>2. req'[r].pc # "saving"  OBVIOUS
    <2> QED  BY <2>1, <2>2, Holder, NotIdle, AfterDelivery, MailUnder DEF UnderLockFrame, AfterKept
  <1>8. ASSUME NEW r \in Requests, ReserveLoads(r) PROVE MailInv'
    <2> USE <1>8, ReserveLoadsEffect
    <2>1. mails # 1  BY AfterDelivery DEF Reserving
    <2> QED  BY <2>1, Holder, NotIdle, MailUnder DEF UnderLockFrame, AfterKept
  <1>9. ASSUME NEW r \in Requests, ReserveWrites(r) PROVE MailInv'
    <2> USE <1>9, ReserveWritesEffect
    <2>1. mails # 1  BY AfterDelivery DEF Reserving
    <2> QED  BY <2>1, Holder, NotIdle, MailUnder DEF UnderLockFrame, AfterKept
  <1>10. ASSUME NEW r \in Requests, ReserveFails(r) PROVE MailInv'
    <2> USE <1>10, ReserveFailsEffect
    <2>1. mails # 1  BY AfterDelivery DEF Reserving
    <2> QED  BY <2>1, Holder, NotIdle, MailUnder DEF AfterKept
  <1>11. ASSUME NEW r \in Requests, Activate(r) PROVE MailInv'
    BY <1>11, ActivateEffect, Holder, NotIdle, Harmless, AfterDelivery, MailUnder
    DEF UnderLockFrame, AfterKept, ActivateSkips, ActivateWrites
  <1>12. ASSUME NEW r \in Requests, ActivationFails(r) PROVE MailInv'
    BY <1>12, ActivationFailsEffect, Holder, NotIdle, Harmless, AfterDelivery, MailUnder
    DEF AfterKept
  <1>13. ASSUME NEW r \in Requests, SaveLoads(r) PROVE MailInv'
    <2> USE <1>13, SaveLoadsEffect
    <2>1. ~Reserving(r)'  BY DEF Reserving
    <2> QED  BY <2>1, Holder, NotIdle, AfterDelivery, MailUnder DEF UnderLockFrame, AfterKept
  <1>14. ASSUME NEW r \in Requests, SaveWrites(r) PROVE MailInv'
    BY <1>14, SaveWritesEffect, ActivationFields, Holder, NotIdle, Harmless, AfterDelivery, MailUnder
    DEF UnderLockFrame, AfterKept
  <1>15. ASSUME NEW r \in Requests, SaveFails(r) PROVE MailInv'
    BY <1>15, SaveFailsEffect, ActivationFields, Holder, NotIdle, Harmless, AfterDelivery, MailUnder
    DEF AfterKept
  <1>16. ASSUME NEW r \in Requests, Commit(r) PROVE MailInv'
    <2> USE <1>16, CommitEffect
    <2>1. CASE mails = 1
      <3>1. mail'[r].pc = "none"  BY <2>1, AfterDelivery
      <3>2. \A q \in Requests : mail'[q].pc # "deliver" /\ (Mailed(q)' => mail'[q].outcome = "sent")
        BY <2>1, <3>1, AfterDelivery DEF Mailed
      <3>3. \A q \in Requests \ {r} :
              req'[q] = req[q] /\ req[q].pc = "idle" /\ ~req[q].reserved
        BY <2>1, Holder, AfterDelivery DEF Others
      <3>4. req'[r].pc = "idle" /\ ~req'[r].reserved  OBVIOUS
      <3>5. \A q \in Requests : req'[q].pc = "idle" /\ ~req'[q].reserved
        BY ONLY <3>3, <3>4
      <3>6. \A q \in Requests : ~Reserving(q)'  BY <3>5 DEF Reserving
      <3> QED  BY <2>1, <3>2, <3>5, <3>6, AfterDelivery DEF MailInv
    <2>2. CASE mails = 0
      <3>1. mails' = mails  OBVIOUS
      <3> QED  BY ONLY <2>2, <3>1 DEF MailInv
    <2> QED  BY <2>1, <2>2 DEF MailInv
  <1>17. ASSUME NEW r \in Requests, Abort(r) PROVE MailInv'
    BY <1>17, AbortEffect, Holder, Harmless, AfterDelivery, MailUnder DEF SalesKept, AfterKept
  <1>18. ASSUME NEW r \in Requests, Deliver(r) PROVE MailInv'
    <2> USE <1>18, DeliverEffect
    <2>1. mails = 0  BY AfterDelivery DEF MailInv
    <2>2. CASE mails' = mails  BY <2>1, <2>2 DEF MailInv
    <2>3. CASE mails' = mails + 1 /\ (mail'[r].outcome = "sent" \/ "mail_answer" \in Faults)
      <3>1. mails' = 1 /\ mail'[r].outcome = "sent"  BY <2>1, <2>3
      <3>2. Mailed(r)  BY DEF Mailed
      <3>3. binding'.conf \in Sent  BY <3>2 DEF BindingInv, MailedBinding, Sent
      <3>4. \A q \in Requests \ {r} : ~Mailed(q) /\ mail'[q] = mail[q]  BY <3>2, LastMail
      <3>5. \A q \in Requests : mail'[q].pc # "deliver" /\ (Mailed(q)' => mail'[q].outcome = "sent")
        BY <3>1, <3>4 DEF Mailed
      <3>6. \A q \in Requests : ~req'[q].reserved /\ ~Reserving(q)'
        BY <3>2, LastMail DEF LockKept, Reserving
      <3>7. \A q \in Requests : req'[q].pc = "saving" => req'[q].snap.conf \in Sent
        BY <3>2 DEF LockKept, BindingInv, RequestBinding, Sent
      <3> QED  BY <3>1, <3>3, <3>5, <3>6, <3>7 DEF MailInv
    <2> QED  BY <2>2, <2>3
  <1>19. ASSUME NEW r \in Requests, OutcomeLoads(r) PROVE MailInv'
    <2> USE <1>19, OutcomeLoadsEffect
    <2>1. CASE mails = 1
      <3>1. \A q \in Requests : mail'[q].pc # "deliver" /\ (Mailed(q)' => mail'[q].outcome = "sent")
        BY <2>1, AfterDelivery DEF Mailed
      <3>2. \A q \in Requests : ~Reserving(q)' /\ ~req'[q].reserved
                   /\ (req'[q].pc = "saving" => req'[q].snap.conf \in Sent)
        BY <2>1, AfterDelivery DEF LockKept, Reserving
      <3> QED  BY <2>1, <3>1, <3>2, AfterDelivery DEF MailInv
    <2>2. CASE mails = 0  BY <2>2 DEF MailInv
    <2> QED  BY <2>1, <2>2 DEF MailInv
  <1>20. ASSUME NEW r \in Requests, mail[r].pc = "reporting", MailGone(r), LockKept,
                mails' = mails, binding' = Outcome(r)
         PROVE  MailInv'
    <2>1. mails = 1 => binding'.conf \in Sent
      BY <1>20, OutcomeFields, AfterDelivery DEF Mailed, Sent
    <2>2. \A q \in Requests : mail'[q].pc = "none" \/ mail'[q] = mail[q]  BY <1>20 DEF MailGone
    <2> QED  BY <1>20, <2>1, <2>2, MailAside DEF LockKept
  <1>21. ASSUME NEW r \in Requests, OutcomeWrites(r) PROVE MailInv'
    BY <1>20, <1>21, OutcomeWritesEffect
  <1>22. ASSUME NEW r \in Requests, MailGone(r), LockKept, mails' = mails, binding' = binding
         PROVE  MailInv'
    <2>2. \A q \in Requests : mail'[q].pc = "none" \/ mail'[q] = mail[q]  BY <1>22 DEF MailGone
    <2> QED  BY <1>22, <2>2, AfterDelivery, MailAside DEF LockKept
  <1>23. ASSUME NEW r \in Requests, OutcomeFails(r) PROVE MailInv'
    BY <1>20, <1>22, <1>23, OutcomeFailsEffect
  <1>24. ASSUME NEW r \in Requests, DiesAfterCommit(r) PROVE MailInv'
    BY <1>22, <1>24, DiesEffect
  <1>25. ASSUME UNCHANGED <<req, mail, mails, binding>> PROVE MailInv'
    BY <1>25, AfterDelivery, MailAside
  <1>26. ASSUME NEW r \in Requests, Working(r) \/ ExecutionFails(r) PROVE MailInv'
    BY <1>25, <1>26, ExecuteEffect, BootstrapEffect, ExceptionEffect DEF Working, Executing, LockKept
  <1>27. CASE ProviderMoves
    BY <1>25, <1>27, ProviderEffect
  <1>28. CASE SwitchAnalysis
    BY <1>25, <1>28 DEF SwitchAnalysis
  <1>29. CASE UNCHANGED vars
    BY <1>25, <1>29 DEF vars
  <1> QED
    BY <1>1, <1>2, <1>3, <1>4, <1>5, <1>6, <1>7, <1>8, <1>9, <1>10, <1>11, <1>12, <1>13, <1>14,
       <1>15, <1>16, <1>17, <1>18, <1>19, <1>21, <1>23, <1>24, <1>26, <1>27, <1>28, <1>29
    DEF Next, UnderLock, Mailing, Failing

\* OneConfirmation: at most one confirmation e-mail is delivered for a purchase as long as
\* the transport does not lose its answer.
THEOREM OneConfirmationHolds ==
  ASSUME "mail_answer" \notin Faults
  PROVE  Spec => []OneConfirmation
  <1> DEFINE IInv == TypeInv /\ BindingInv /\ MailInv
  <1>1. Init => IInv
    <2>1. Init => MailInv  BY DEF Init, MailInv
    <2> QED  BY <2>1, TypeInit, BindingInit
  <1>2. IInv /\ [Next]_vars => IInv'  BY TypeStep, BindingStep, MailStep
  <1>3. IInv => OneConfirmation  BY DEF MailInv, OneConfirmation
  <1> QED  BY <1>1, <1>2, <1>3, PTL DEF Spec

-----------------------------------------------------------------------------
(* What the sales records claim, when no transaction is rolled back after it wrote them *)

\* Nothing the lock holder sees goes away.
SeenStays ==
    /\ Seen("case") # "none" => Seen("case")' # "none"
    /\ Seen("demo") # "none" => Seen("demo")' # "none"
    /\ Seen("analysis") # "none" => Seen("analysis")' # "none"

LEMMA SeenKept ==
  ASSUME TxRows, db'.case = db.case, db'.demo = db.demo,
         db'.analysis = db.analysis \/ db'.analysis # "none"
  PROVE  SeenStays
  BY DEF TxRows, SeenStays, Seen

\* A step that neither binds the order nor lets go of anything it claims.
LEMMA RecordsKept ==
  ASSUME TypeOK, RecordsInv, SeenStays, Pay => Pay',
         binding'.bound # "none" => binding'.bound = binding.bound,
         \A q \in Requests : req'[q].pc \in {"save", "saving"} =>
            req[q].pc \in {"save", "saving"} /\ req'[q].layout = req[q].layout,
         paid' => paid \/ Pay'
  PROVE  RecordsInv'
  <1>t. binding.bound \in Layouts /\ \A q \in Requests : req[q].layout \in Layouts
    BY TypeFacts DEF BindingType, ReqRecords, Layouts
  <1>1. \A l \in Layouts \ {"none"} : Seen(l) # "none" => Seen(l)' # "none"
    BY DEF SeenStays, Layouts
  <1>2. binding'.bound # "none" => Seen(binding.bound)' # "none" /\ Seen("case")' # "none"
    BY <1>t, <1>1 DEF RecordsInv, SeenStays
  <1>3. \A q \in Requests : req'[q].pc \in {"save", "saving"} =>
          /\ req'[q].layout # "none" /\ Seen(req[q].layout)' # "none" /\ Seen("case")' # "none"
    <2> SUFFICES ASSUME NEW q \in Requests, req'[q].pc \in {"save", "saving"}
                 PROVE  /\ req'[q].layout # "none" /\ Seen(req[q].layout)' # "none"
                        /\ Seen("case")' # "none"
      OBVIOUS
    <2>1. req'[q].layout = req[q].layout /\ req[q].layout # "none"  BY DEF RecordsInv
    <2>2. Seen(req[q].layout) # "none" /\ Seen("case") # "none"  BY DEF RecordsInv
    <2>3. PICK l \in Layouts \ {"none"} : l = req[q].layout  BY <1>t, <2>1
    <2>4. Seen(l)' # "none"  BY <1>1, <2>2, <2>3
    <2>5. Seen(req[q].layout)' # "none"  BY <2>1, <2>3, <2>4
    <2> QED  BY <2>1, <2>2, <2>5 DEF SeenStays
  <1>4. paid' => Pay'  BY DEF RecordsInv
  <1> QED  BY <1>2, <1>3, <1>4 DEF RecordsInv

\* A step of the lock holder that leaves rows, capture and binding alone.
LEMMA RecordsUnder ==
  ASSUME TypeOK, RecordsInv, NEW r \in Requests, \A q \in Requests \ {r} : req[q].pc = "idle",
         Others(r), req'[r].pc \notin {"save", "saving"}, TxRows, db' = db,
         Captured => Captured', tx.captured => tx'.captured,
         binding'.bound = binding.bound, paid' = paid
  PROVE  RecordsInv'
  <1>1. SeenStays  BY SeenKept
  <1>2. Pay => Pay'  BY DEF Pay
  <1>3. \A q \in Requests : req'[q].pc \notin {"save", "saving"}  BY DEF Others
  <1> QED  BY <1>1, <1>2, <1>3, RecordsKept

\* A step of a branch that follows a commit, or aside.
LEMMA RecordsAside ==
  ASSUME TypeOK, RecordsInv, UNCHANGED <<req, tx, paid>>, Captured => Captured',
         db'.case = db.case \/ db'.case # "none", db'.demo = db.demo,
         db'.analysis = db.analysis \/ db'.analysis # "none",
         binding'.bound # "none" => binding'.bound = binding.bound
  PROVE  RecordsInv'
  <1>1. SeenStays  BY DEF SeenStays, Seen
  <1>2. Pay => Pay'  BY DEF Pay
  <1> QED  BY <1>1, <1>2, RecordsKept

LEMMA RecordsStep ==
  ASSUME "in_lock" \notin Faults
  PROVE  TypeInv /\ CaptureInv /\ BindingInv /\ RecordsInv /\ [Next]_vars => RecordsInv'
  <1> SUFFICES ASSUME TypeInv, CaptureInv, BindingInv, RecordsInv, [Next]_vars PROVE RecordsInv'
    OBVIOUS
  <1>t. TypeOK  BY DEF TypeInv
  <1> USE <1>t
  <1>1. ASSUME NEW r \in Requests, NEW op \in {"start", "retry", "confirm"}, Acquire(r, op)
        PROVE  RecordsInv'
    <2> USE <1>1, AcquireEffect
    <2>1. TxRows /\ (tx.captured => tx'.captured)  BY DEF TxRows
    <2>2. Captured => Captured'  BY <2>1, SamePay
    <2> QED  BY <2>1, <2>2, AcquireAlone, RecordsUnder
  <1>2. ASSUME NEW r \in Requests, StartFinds(r) PROVE RecordsInv'
    BY <1>2, StartFindsEffect, Holder, NotIdle, SamePay, RecordsUnder DEF TxKept, UnderLockFrame
  <1>3. ASSUME NEW r \in Requests, StartCreates(r) PROVE RecordsInv'
    <2> USE <1>3, StartCreatesEffect
    <2>1. Captured => Captured'  BY AppendKeepsCapture, SamePay DEF TxKept
    <2> QED  BY <2>1, Holder, NotIdle, RecordsUnder DEF TxKept, UnderLockFrame
  <1>4. ASSUME NEW r \in Requests, RetryPayment(r) PROVE RecordsInv'
    <2> USE <1>4, RetryEffect
    <2>1. Captured => Captured'  BY AppendKeepsCapture, SamePay DEF TxKept
    <2> QED  BY <2>1, Holder, NotIdle, RecordsUnder DEF TxKept, UnderLockFrame
  <1>5. ASSUME NEW r \in Requests, ConfirmLoads(r) PROVE RecordsInv'
    BY <1>5, ConfirmEffect, Holder, NotIdle, SamePay, RecordsUnder DEF TxKept, UnderLockFrame
  <1>6. ASSUME NEW r \in Requests, Capture(r) PROVE RecordsInv'
    BY <1>6, CaptureEffect, Holder, NotIdle, SamePay, RecordsUnder DEF UnderLockFrame
  <1>7. ASSUME NEW r \in Requests, Reconcile(r) PROVE RecordsInv'
    <2> USE <1>7, ReconcileEffect
    <2>1. SeenStays  BY SeenKept DEF TxKept, UnderLockFrame
    <2>2. Pay /\ Pay'  BY SamePay DEF TxKept, CaptureInv, Confirmed
    <2>3. \A q \in Requests : req'[q].pc \notin {"save", "saving"}
      <3>1. \A q \in Requests \ {r} : req[q].pc = "idle" /\ req'[q] = req[q]
        BY Holder, NotIdle DEF Others
      <3>2. req'[r].pc \in {"reserve", "activate"}  OBVIOUS
      <3> QED  BY ONLY <3>1, <3>2
    <2>4. binding' = binding  OBVIOUS
    <2> QED  BY <2>1, <2>2, <2>3, <2>4, RecordsKept
  <1>8. ASSUME NEW r \in Requests, ReserveLoads(r) PROVE RecordsInv'
    BY <1>8, ReserveLoadsEffect, Holder, NotIdle, SamePay, RecordsUnder DEF TxKept, UnderLockFrame
  <1>9. ASSUME NEW r \in Requests, ReserveWrites(r) PROVE RecordsInv'
    <2> USE <1>9, ReserveWritesEffect
    <2>1. binding'.bound = binding.bound  BY ReservationFields DEF BindingInv, RequestBinding
    <2> QED  BY <2>1, Holder, NotIdle, SamePay, RecordsUnder DEF TxKept, UnderLockFrame
  <1>10. ASSUME NEW r \in Requests, ReserveFails(r) PROVE RecordsInv'
    <2> USE <1>10, ReserveFailsEffect
    <2>1. binding'.bound = binding.bound  BY ReservationFields DEF BindingInv, RequestBinding
    <2> QED  BY <2>1, Holder, NotIdle, SamePay, RecordsUnder DEF TxKept
  <1>11. ASSUME NEW r \in Requests, Activate(r) PROVE RecordsInv'
    <2> USE <1>11, ActivateEffect
    <2>1. CASE ActivateSkips(r)
      BY <2>1, Holder, NotIdle, SamePay, RecordsUnder DEF TxKept, UnderLockFrame, ActivateSkips
    <2>2. CASE ActivateWrites(r)
      <3>1. db' = db /\ binding' = binding /\ paid' = paid  BY DEF UnderLockFrame
      <3>2. /\ tx'.rows.case = Layout /\ Layout \in {"demo", "analysis"}
            /\ tx'.rows.demo = IF Layout = "demo" /\ Seen("demo") = "none" THEN "waiting"
                               ELSE tx.rows.demo
            /\ tx'.rows.analysis = IF Layout = "analysis" /\ Seen("analysis") = "none" THEN "start"
                                   ELSE tx.rows.analysis
        BY <2>2, ActivatedFields DEF ActivateWrites
      <3>3. SeenStays  BY <3>1, <3>2 DEF SeenStays, Seen
      <3>4. Seen(Layout) # "none" => Seen("case")' # "none"  BY <3>2 DEF Seen
      <3>5. (tx'.rows.demo # "none" \/ db'.demo # "none") \/ Layout = "analysis"
        BY <3>1, <3>2 DEF Seen
      <3>6. (tx'.rows.analysis # "none" \/ db'.analysis # "none") \/ Layout = "demo"
        BY <3>1, <3>2 DEF Seen
      <3>7. Pay => Pay'  BY <2>2, SamePay DEF ActivateWrites
      <3>8. binding'.bound # "none" => Seen(binding.bound)' # "none" /\ Seen("case")' # "none"
        <4>1. binding.bound \in Layouts  BY TypeFacts DEF BindingType, Layouts
        <4>2. CASE binding.bound = "demo"
          BY <4>2, <3>1, <3>3 DEF RecordsInv, SeenStays
        <4>3. CASE binding.bound = "analysis"
          BY <4>3, <3>1, <3>3 DEF RecordsInv, SeenStays
        <4> QED  BY <4>1, <4>2, <4>3, <3>1 DEF Layouts
      <3>9. \A q \in Requests : req'[q].pc \in {"save", "saving"} =>
              /\ req'[q].layout = Layout
              /\ Seen(req[q].layout)' # "none" /\ Seen("case")' # "none"
        <4>1. \A q \in Requests \ {r} : req'[q].pc = "idle"  BY Holder, NotIdle DEF Others
        <4>2. req'[r].layout = Layout  BY <2>2 DEF ActivateWrites
        <4>3. Seen("case")' # "none"  BY <3>2 DEF Seen
        <4>4. Seen(req[r].layout)' # "none"
          BY ONLY <4>2, <3>2, <3>5, <3>6 DEF Seen
        <4> QED  BY ONLY <4>1, <4>2, <4>3, <4>4
      <3>10. paid' => Pay'  BY <3>1, <3>7 DEF RecordsInv
      <3> QED  BY ONLY <3>2, <3>8, <3>9, <3>10 DEF RecordsInv
    <2> QED  BY <2>1, <2>2
  <1>12. ASSUME NEW r \in Requests, ActivationFails(r) PROVE RecordsInv'
    <2> USE <1>12, ActivationFailsEffect
    <2>1. CASE TxKept
      BY <2>1, Holder, NotIdle, SamePay, RecordsUnder DEF TxKept
    <2>2. CASE CaseStays
      <3>1. SeenStays  BY <2>2 DEF CaseStays, SeenStays, Seen, Layout
      <3>2. Pay => Pay'  BY <2>2, SamePay DEF CaseStays
      <3>3. \A q \in Requests : req'[q].pc \notin {"save", "saving"}
        <4>1. \A q \in Requests \ {r} : req[q].pc = "idle" /\ req'[q] = req[q]
          BY Holder, NotIdle DEF Others
        <4>2. req'[r].pc = "commit"  OBVIOUS
        <4> QED  BY ONLY <4>1, <4>2
      <3> QED  BY <3>1, <3>2, <3>3, RecordsKept
    <2> QED  BY <2>1, <2>2
  <1>13. ASSUME NEW r \in Requests, SaveLoads(r) PROVE RecordsInv'
    <2> USE <1>13, SaveLoadsEffect
    <2>1. SeenStays  BY SeenKept DEF TxKept, UnderLockFrame
    <2>2. Pay => Pay'  BY SamePay DEF TxKept
    <2>3. \A q \in Requests : req'[q].pc \in {"save", "saving"} =>
            req[q].pc \in {"save", "saving"} /\ req'[q].layout = req[q].layout
      BY Holder, NotIdle DEF Others
    <2> QED  BY <2>1, <2>2, <2>3, RecordsKept
  <1>14. ASSUME NEW r \in Requests, req[r].pc = "saving", Others(r), TxKept, req'[r].pc = "commit",
                binding' = Activation(r), UNCHANGED <<db, paid, gw>>
         PROVE  RecordsInv'
    <2>1. binding'.bound = req[r].layout  BY <1>14, ActivationFields
    <2>2. /\ Seen(req[r].layout) # "none" /\ Seen("case") # "none"
      BY <1>14 DEF RecordsInv
    <2>3. req[r].layout \in Layouts /\ req[r].layout # "none"
      BY <1>14, TypeFacts DEF ReqRecords, RecordsInv
    <2>4. SeenStays  BY <1>14, SeenKept DEF TxKept
    <2>5. Seen(binding.bound)' # "none" /\ Seen("case")' # "none"
      <3>1. CASE req[r].layout = "demo"  BY <3>1, <2>1, <2>2, <2>4 DEF SeenStays
      <3>2. CASE req[r].layout = "analysis"  BY <3>2, <2>1, <2>2, <2>4 DEF SeenStays
      <3> QED  BY <3>1, <3>2, <2>3 DEF Layouts
    <2>6. \A q \in Requests : req'[q].pc \notin {"save", "saving"}
      <3>1. \A q \in Requests \ {r} : req[q].pc = "idle" /\ req'[q] = req[q]
        BY <1>14, Holder, NotIdle DEF Others
      <3> QED  BY ONLY <3>1, <1>14
    <2>7. paid' => Pay'  BY <1>14, SamePay DEF TxKept, RecordsInv
    <2> QED  BY ONLY <2>5, <2>6, <2>7 DEF RecordsInv
  <1>15. ASSUME NEW r \in Requests, SaveWrites(r) PROVE RecordsInv'
    BY <1>14, <1>15, SaveWritesEffect DEF UnderLockFrame
  <1>16. ASSUME NEW r \in Requests, SaveFails(r) PROVE RecordsInv'
    <2> USE <1>16, SaveFailsEffect
    <2>1. CASE req[r].pc = "saving" /\ binding' = Activation(r)  BY <2>1, <1>14
    <2>2. CASE binding' = binding
      BY <2>2, Holder, NotIdle, SamePay, RecordsUnder DEF TxKept
    <2> QED  BY <2>1, <2>2
  <1>17. ASSUME NEW r \in Requests, Commit(r) PROVE RecordsInv'
    <2> USE <1>17, CommitEffect
    <2>1. SeenStays
      <3>1. /\ tx'.rows.case = "none" /\ tx'.rows.demo = "none" /\ tx'.rows.analysis = "none"
            /\ db'.case = Seen("case") /\ db'.demo = Seen("demo")
            /\ db'.analysis = Seen("analysis")
        BY MergedFields, InitialRecords
      <3>2. Seen("case")' = db'.case /\ Seen("demo")' = db'.demo /\ Seen("analysis")' = db'.analysis
        BY ONLY <3>1 DEF Seen
      <3> QED  BY ONLY <3>1, <3>2 DEF SeenStays
    <2>2. Pay => Pay'  BY CommitKeepsCapture DEF Pay
    <2>3. \A q \in Requests : req'[q].pc \notin {"save", "saving"}
      <3>1. \A q \in Requests \ {r} : req[q].pc = "idle" /\ req'[q] = req[q]  BY Holder DEF Others
      <3>2. req'[r].pc = "idle"  OBVIOUS
      <3> QED  BY ONLY <3>1, <3>2
    <2>4. UNCHANGED <<binding, paid>>  OBVIOUS
    <2> QED  BY ONLY <1>t, RecordsInv, <2>1, <2>2, <2>3, <2>4, RecordsKept
  <1>18. ASSUME NEW r \in Requests, Abort(r) PROVE RecordsInv'
    BY <1>18, AbortEffect
  <1>19. ASSUME NEW r \in Requests, Mailing(r) \/ OutcomeFails(r) \/ DiesAfterCommit(r)
         PROVE  RecordsInv'
    <2>1. UNCHANGED <<req, tx, paid, gw, db>>
      BY <1>19, DeliverEffect, OutcomeLoadsEffect, OutcomeWritesEffect, OutcomeFailsEffect, DiesEffect
      DEF Mailing, LockKept
    <2>2. binding' = binding \/ (mail[r].pc = "reporting" /\ binding' = Outcome(r))
      BY <1>19, DeliverEffect, OutcomeLoadsEffect, OutcomeWritesEffect, OutcomeFailsEffect, DiesEffect
      DEF Mailing
    <2>3. binding'.bound # "none" => binding'.bound = binding.bound
      BY <2>2, OutcomeFields DEF BindingInv, MailedBinding, Mailed
    <2> QED  BY <2>1, <2>3, SamePay, RecordsAside
  <1>20. ASSUME NEW r \in Requests, Executing(r) PROVE RecordsInv'
    BY <1>20, ExecuteEffect, SamePay, RecordsAside DEF LockKept, DbKept
  <1>21. ASSUME NEW r \in Requests, Bootstrap(r) PROVE RecordsInv'
    BY <1>21, BootstrapEffect, SamePay, RecordsAside DEF LockKept
  <1>22. ASSUME NEW r \in Requests, ExecuteException(r) PROVE RecordsInv'
    BY <1>22, ExceptionEffect, SamePay, RecordsAside DEF LockKept, DbKept
  <1>23. CASE ProviderMoves
    BY <1>23, ProviderEffect, ProviderKeepsCapture, RecordsAside
  <1>24. CASE SwitchAnalysis \/ UNCHANGED vars
    <2>1. UNCHANGED <<req, tx, paid, gw, db, binding>>  BY <1>24 DEF SwitchAnalysis, vars
    <2> QED  BY <2>1, SamePay, RecordsAside
  <1> QED
    BY <1>1, <1>2, <1>3, <1>4, <1>5, <1>6, <1>7, <1>8, <1>9, <1>10, <1>11, <1>12, <1>13, <1>15,
       <1>16, <1>17, <1>18, <1>19, <1>20, <1>21, <1>22, <1>23, <1>24
    DEF Next, UnderLock, Working, Failing, Executing

LEMMA RecordsInit ==
  Init => RecordsInv
  <1> SUFFICES ASSUME Init PROVE RecordsInv  OBVIOUS
  <1>1. \A r \in Requests : req[r].pc = "idle"  BY InitialRecords DEF Init
  <1>2. binding.bound = "none" /\ ~paid  BY DEF Init, NoBinding
  <1> QED  BY <1>1, <1>2 DEF RecordsInv

\* RecordsAgree: between requests what the sales records claim is committed: the binding names
\* rows that exist, and a payment recorded as captured was captured.  It rests on requests
\* reaching their commit: one that dies after it wrote the order leaves the claim of rows that
\* were rolled back, which the run of the lost commit shows.
THEOREM RecordsAgreeHolds ==
  ASSUME "in_lock" \notin Faults
  PROVE  Spec => []RecordsAgree
  <1> DEFINE IInv == TypeInv /\ BindingInv /\ RowsInv /\ ResearchInv /\ CaptureInv /\ RecordsInv
  <1>1. Init => IInv  BY TypeInit, BindingInit, RowsInit, ResearchInit, CaptureInit, RecordsInit
  <1>2. IInv /\ [Next]_vars => IInv'  
    BY TypeStep, BindingStep, RowsStep, ResearchStep, CaptureStep, RecordsStep
  <1>3. IInv => RecordsAgree
    <2> SUFFICES ASSUME TypeOK, RecordsInv, lock = None PROVE RecordsAgree
      BY DEF RecordsAgree, TypeInv
    <2>1. tx = NoTx  BY DEF TypeOK
    <2>2. \A f \in {"case", "demo", "analysis"} : Seen(f) = db[f]  BY <2>1, InitialRecords DEF Seen
    <2>3. binding.bound \in Layouts  BY TypeFacts DEF BindingType, Layouts
    <2>4. paid => Captured  BY <2>1, InitialRecords DEF RecordsInv, Pay
    <2> QED  BY <2>2, <2>3, <2>4 DEF RecordsInv, RecordsAgree, Layouts
  <1> QED  BY <1>1, <1>2, <1>3, PTL DEF Spec
=============================================================================
