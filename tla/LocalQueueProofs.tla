-------------------------- MODULE LocalQueueProofs --------------------------
(***************************************************************************)
(* The invariants of LocalQueue and the promise of JobQueue, for any number *)
(* of processes, jobs, requests and faults.                                 *)
(*                                                                          *)
(* As long as no live holder was robbed, a process in the critical section  *)
(* made the lock that is there, and its token is in it (LockInv); so nobody *)
(* else replaces the file between its read and its write, and its copy is   *)
(* the file (MemInv).  As long as there was no fault, nobody is robbed: no  *)
(* lock is old, and nobody is about to move one aside (QuietInv).  What a   *)
(* batch remembers of its jobs is backed by what happened to them           *)
(* (BatchInv), so that whatever a settlement drops is over; this, and that  *)
(* nothing comes from nowhere, holds after a robbery too.                   *)
(***************************************************************************)
EXTENDS LocalQueue, TLAPS

LockInv == ~robbed => \A p \in Processes : pc[p] \in Holding =>
              lock.by = p /\ (pc[p] \in {"made", "abort"} \/ lock.token = p)

QuietInv == faults = 0 =>
    /\ ~robbed /\ ~lock.stale
    /\ Locked => pc[lock.by] \in Holding
    /\ \A p \in Processes : pc[p] # "reclaim"

\* What a process remembers fits what it is about to do.
Acquiring == {"want", "reclaim", "made", "locked"}
MemInv == \A p \in Processes :
    /\ pc[p] \in Acquiring \cup {"write"} => mem[p].op # "none"
    /\ pc[p] \in Acquiring /\ mem[p].op = "fetch" => mem[p].batch = {} /\ mem[p].good = {}
    /\ mem[p].op \in {"enqueue", "purge"} => mem[p].batch = {}
    /\ pc[p] = "write" => mem[p].op # "fetch" /\ (~robbed => mem[p].copy = file)
    /\ pc[p] = "idle" => mem[p].batch = {}
    /\ mem[p].op = "purge" => p \in Producers
    /\ mem[p].op = "settle" => mem[p].todo = {}
    /\ mem[p].todo \subseteq mem[p].batch
    /\ mem[p].batch # {} \/ mem[p].op = "fetch" => p \in Workers

\* The jobs of enqueues that are not yet done are new, each to one process.
IdsInv ==
    /\ Ids(file) \subseteq known /\ known \subseteq used
    /\ \A p \in Processes : mem[p].op = "enqueue" => \E j \in used \ known : mem[p].ids = {j}
    /\ \A p, q \in Processes : mem[p].op = "enqueue" /\ mem[q].op = "enqueue" /\ p # q
                                 => mem[p].ids \cap mem[q].ids = {}

\* A record has no more attempts than its job has failed; a job that threw in a batch has
\* failed once more than the attempts it came with.
BatchInv ==
    /\ \A r \in file : failures[r.id] >= r.attempts
    /\ \A p \in Processes : \A r \in mem[p].copy : r.id \in known /\ failures[r.id] >= r.attempts
    /\ \A p \in Processes : mem[p].good \subseteq worked
    /\ \A p \in Processes : \A r \in mem[p].batch :
          /\ r.id \in known
          /\ failures[r.id] >= r.attempts
          /\ r \in mem[p].todo \/ r.id \in mem[p].good \/ failures[r.id] > r.attempts

Bounded == \A j \in Jobs : failures[j] <= MaxAttempts + faults

\* With one worker, and nobody robbed: one record per job, in the file and in the batch, and
\* no more failures than the record has attempts, faults and this batch account for.  A
\* process that gives up has had its fault.
Spare(p, r) == IF r \in mem[p].todo \/ r.id \in mem[p].good THEN 0 ELSE 1
BudgetInv ==
    /\ \A j \in Jobs \ known : failures[j] = 0
    /\ Bounded
    /\ \A r, s \in file : r.id = s.id => r = s
    /\ \A p \in Processes : \A r, s \in mem[p].batch : r.id = s.id => r = s
    /\ \A p \in Processes : \A r \in mem[p].todo : r.id \notin mem[p].good
    /\ \A p \in Processes : \A r \in mem[p].batch, s \in file : r.id = s.id => r = s
    /\ \A p \in Processes : \A r \in mem[p].batch : failures[r.id] <= r.attempts + faults + Spare(p, r)
    /\ \A p \in Processes : pc[p] = "abort" =>
          \A r \in mem[p].batch : failures[r.id] <= r.attempts + faults
    /\ \A r \in file : failures[r.id] <= r.attempts + faults
                        \/ \E p \in Processes : r \in mem[p].batch

-----------------------------------------------------------------------------
MemRecords == [op : Ops, ids : SUBSET Jobs, copy : SUBSET Stored,
               batch : SUBSET Stored, todo : SUBSET Stored, good : SUBSET Jobs]

\* What the types say, in the form in which the steps use it.
LEMMA TypeFacts ==
  ASSUME TypeOK
  PROVE  /\ mem \in [Processes -> MemRecords] /\ pc \in [Processes -> Pcs]
         /\ failures \in [Jobs -> Nat] /\ faults \in Nat /\ MaxAttempts \in Nat \ {0}
         /\ \A r \in Stored : r.id \in Jobs /\ r.attempts \in Nat
         /\ None \notin Processes
         /\ \A j \in Jobs : [id |-> j, attempts |-> 0] \in Stored
  BY QueueAssumption DEF TypeOK, MemRecords, Stored, Processes

\* A fresh id was not used before.
LEMMA FreshIds == TypeOK => Fresh \subseteq Jobs \ used
  BY DEF TypeOK, Fresh

\* The memory of a process after one of its operations.
LEMMA MemTypes ==
  /\ Blank \in MemRecords
  /\ \A S \in SUBSET Jobs : \A o \in Ops : [Blank EXCEPT !.op = o, !.ids = S] \in MemRecords
  /\ \A o \in Ops : [Blank EXCEPT !.op = o] \in MemRecords
  /\ \A m \in MemRecords : \A o \in Ops : [m EXCEPT !.op = o] \in MemRecords
  BY DEF Blank, MemRecords, Ops

\* The initial states have the types of TypeOK.
LEMMA TypeInit == Init => TypeOK
  <1>1. Init => mem \in [Processes -> MemRecords]  BY MemTypes DEF Init
  <1>2. Init => lock \in [by : Processes \cup {None}, token : Processes \cup {None}, stale : BOOLEAN]
    BY DEF Init, NoLock
  <1>3. Init => pc \in [Processes -> Pcs] /\ failures \in [Jobs -> Nat]  BY DEF Init, Pcs
  <1>4. Init => /\ file \subseteq Stored /\ due \subseteq Stored /\ used \subseteq Jobs
                /\ known \subseteq Jobs /\ worked \subseteq Jobs /\ robbed \in BOOLEAN
    BY DEF Init
  <1>5. Init => faults \in 0..MaxFaults /\ requests \in 0..MaxRequests  BY QueueAssumption DEF Init
  <1> QED  BY <1>1, <1>2, <1>3, <1>4, <1>5 DEF TypeOK, MemRecords

\* What is written into the file are stored jobs.
LEMMA UpdatedTypes ==
  ASSUME TypeOK, NEW p \in Processes
  PROVE  Updated(p) \subseteq Stored /\ Ids(Updated(p)) \subseteq Jobs
  <1>1. mem[p] \in MemRecords /\ MaxAttempts \in Nat \ {0}  BY TypeFacts
  <1>2. \A j \in mem[p].ids : [id |-> j, attempts |-> 0] \in Stored  BY <1>1, TypeFacts DEF MemRecords
  <1>3. Retries(p) \subseteq Stored
    <2> SUFFICES ASSUME NEW r \in mem[p].batch, ~Exhausted(r) PROVE Counted(r) \in Stored
      BY DEF Retries, Thrown
    <2>1. r \in Stored  BY <1>1 DEF MemRecords
    <2> QED  BY <1>1, <2>1 DEF Stored, Counted, Exhausted
  <1>4. Updated(p) \subseteq Stored
    BY <1>1, <1>2, <1>3 DEF Updated, Settled, Copy, MemRecords
  <1> QED  BY <1>4 DEF Ids, Stored

\* Every step keeps the types.
LEMMA TypeStep == TypeOK /\ [Next]_vars => TypeOK'
  <1> SUFFICES ASSUME TypeOK, [Next]_vars PROVE TypeOK'  OBVIOUS
  <1> USE QueueAssumption
  <1>t. mem \in [Processes -> MemRecords] /\ pc \in [Processes -> Pcs] /\ Producers \cup Workers = Processes
    BY TypeFacts DEF Processes
  <1>m. mem' \in [Processes -> MemRecords] => mem' \in [Processes -> [op : Ops, ids : SUBSET Jobs,
            copy : SUBSET Stored, batch : SUBSET Stored, todo : SUBSET Stored, good : SUBSET Jobs]]
    BY DEF MemRecords
  <1>f. \A k : Fault(k) => faults' \in 0..MaxFaults  BY DEF Fault, TypeOK
  <1>1. ASSUME NEW p \in Processes, Forgets(p)
        PROVE  pc' \in [Processes -> Pcs] /\ mem' \in [Processes -> MemRecords]
    BY <1>1, <1>t, MemTypes DEF Forgets, Pcs
  <1>2. ASSUME NEW p \in Processes, NEW m \in MemRecords, Wants(p, m)
        PROVE  pc' \in [Processes -> Pcs] /\ mem' \in [Processes -> MemRecords]
    BY <1>2, <1>t DEF Wants, Pcs
  <1>3. ASSUME NEW p \in Processes, NEW s \in Pcs, Goto(p, s) PROVE pc' \in [Processes -> Pcs]
    BY <1>3, <1>t DEF Goto
  <1>4. Pcs = {"idle", "want", "reclaim", "made", "abort", "locked", "write", "check", "remove", "run"}
    BY DEF Pcs
  <1>5. ASSUME NEW p \in Processes, Enqueue(p) PROVE TypeOK'
    <2>1. PICK j \in Jobs \ used : /\ used' = used \cup {j}
                                   /\ Wants(p, [Blank EXCEPT !.op = "enqueue", !.ids = {j}])
      BY <1>5, FreshIds DEF Enqueue
    <2>2. [Blank EXCEPT !.op = "enqueue", !.ids = {j}] \in MemRecords  BY MemTypes DEF Ops
    <2>3. requests' \in 0..MaxRequests  BY <1>5 DEF Enqueue, TypeOK
    <2>4. pc' \in [Processes -> Pcs] /\ mem' \in [Processes -> MemRecords]  BY <2>1, <2>2, <1>2
    <2> QED  BY <1>5, <1>m, <2>1, <2>3, <2>4 DEF Enqueue, TypeOK, hist
  <1>6. ASSUME NEW p \in Processes, Purge(p) PROVE TypeOK'
    <2>1. PICK scope \in Scopes : Wants(p, [Blank EXCEPT !.op = "purge", !.ids = scope])
      BY <1>6 DEF Purge
    <2>2. [Blank EXCEPT !.op = "purge", !.ids = scope] \in MemRecords  BY MemTypes DEF Ops
    <2>3. pc' \in [Processes -> Pcs] /\ mem' \in [Processes -> MemRecords]  BY <2>1, <2>2, <1>2
    <2> QED  BY <1>6, <1>m, <2>3 DEF Purge, TypeOK, hist
  <1>7. ASSUME NEW p \in Processes, Fetch(p) \/ Settle(p) PROVE TypeOK'
    <2>1. /\ [Blank EXCEPT !.op = "fetch"] \in MemRecords
          /\ [mem[p] EXCEPT !.op = "settle"] \in MemRecords
      BY <1>t, MemTypes DEF Ops
    <2>2. pc' \in [Processes -> Pcs] /\ mem' \in [Processes -> MemRecords]
      BY <1>7, <2>1, <1>2 DEF Fetch, Settle
    <2> QED  BY <1>7, <1>m, <2>2 DEF Fetch, Settle, TypeOK, hist
  <1>8. ASSUME NEW p \in Processes, Mkdir(p) \/ Judge(p) \/ CheckToken(p) \/ RemoveLock(p) PROVE TypeOK'
    <2>1. lock' \in [by : Processes \cup {None}, token : Processes \cup {None}, stale : BOOLEAN]
      <3>1. CASE Mkdir(p)
        <4>1. lock' = [by |-> p, token |-> None, stale |-> FALSE]  BY <3>1 DEF Mkdir, NoLock
        <4> QED  BY <4>1
      <3>2. CASE RemoveLock(p)  BY <3>2 DEF RemoveLock, NoLock
      <3>3. CASE Judge(p) \/ CheckToken(p)  BY <3>3 DEF Judge, CheckToken, TypeOK
      <3> QED  BY <1>8, <3>1, <3>2, <3>3
    <2>2. pc' \in [Processes -> Pcs]  BY <1>8, <1>3, <1>4 DEF Mkdir, Judge, CheckToken, RemoveLock
    <2> QED  BY <1>8, <2>1, <2>2 DEF Mkdir, Judge, CheckToken, RemoveLock, TypeOK, hist
  <1>9. ASSUME NEW p \in Processes, WriteToken(p) \/ TokenFails(p) PROVE TypeOK'
    <2>1. pc' \in [Processes -> Pcs]  BY <1>9, <1>3, <1>4 DEF WriteToken, TokenFails
    <2>2. lock' \in [by : Processes \cup {None}, token : Processes \cup {None}, stale : BOOLEAN]
      BY <1>9 DEF WriteToken, TokenFails, TypeOK
    <2>3. faults' \in 0..MaxFaults
      BY <1>9, <1>f DEF WriteToken, TokenFails, TypeOK
    <2> QED  BY <1>9, <2>1, <2>2, <2>3 DEF WriteToken, TokenFails, TypeOK, hist
  <1>10. ASSUME NEW p \in Processes, Reclaim(p) PROVE TypeOK'
    <2>1. pc' \in [Processes -> Pcs]  BY <1>10, <1>3, <1>4 DEF Reclaim
    <2> QED  BY <1>10, <2>1 DEF Reclaim, TypeOK, NoLock
  <1>11. ASSUME NEW p \in Processes, TimesOut(p) \/ Crash(p) \/ Returns(p) \/ GivesUp(p) PROVE TypeOK'
    <2>1. pc' \in [Processes -> Pcs] /\ mem' \in [Processes -> MemRecords] /\ faults' \in 0..MaxFaults
      BY <1>11, <1>1, <1>f DEF TimesOut, Crash, Returns, GivesUp, TypeOK
    <2>2. lock' \in [by : Processes \cup {None}, token : Processes \cup {None}, stale : BOOLEAN]
      <3>1. CASE GivesUp(p)  BY <3>1 DEF GivesUp, NoLock
      <3>2. CASE ~GivesUp(p)  BY <1>11, <3>2 DEF TimesOut, Crash, Returns, TypeOK
      <3> QED  BY <3>1, <3>2
    <2>3. UNCHANGED <<file, due, used, requests, hist>>
      BY <1>11 DEF TimesOut, Crash, Returns, GivesUp
    <2> QED  BY <1>m, <2>1, <2>2, <2>3 DEF TypeOK, hist
  <1>12. ASSUME NEW p \in Processes, ReadQueue(p) PROVE TypeOK'
    <2>0. file \subseteq Stored  BY DEF TypeOK
    <2>1. mem' \in [Processes -> MemRecords]
      <3>1. CASE mem[p].op = "fetch"  BY <1>12, <1>t, <2>0, <3>1 DEF ReadQueue, MemRecords
      <3>2. CASE mem[p].op # "fetch"  BY <1>12, <1>t, <2>0, <3>2 DEF ReadQueue, MemRecords
      <3> QED  BY <3>1, <3>2
    <2>2. pc' \in [Processes -> Pcs]  BY <1>12, <1>3, <1>4 DEF ReadQueue
    <2> QED  BY <1>12, <1>m, <2>1, <2>2 DEF ReadQueue, TypeOK, hist
  <1>13. ASSUME NEW p \in Processes, WriteQueue(p) PROVE TypeOK'
    <2>1. mem' \in [Processes -> MemRecords]  BY <1>13, <1>t, MemTypes DEF WriteQueue
    <2>2. pc' \in [Processes -> Pcs]  BY <1>13, <1>3, <1>4 DEF WriteQueue
    <2>3. file' \subseteq Stored /\ known' \subseteq Jobs  BY <1>13, UpdatedTypes DEF WriteQueue, TypeOK
    <2> QED  BY <1>13, <1>m, <2>1, <2>2, <2>3 DEF WriteQueue, TypeOK
  <1>14. ASSUME NEW p \in Processes, RunSucceeds(p) \/ RunThrows(p) PROVE TypeOK'
    <2>0. \A r \in mem[p].todo : r.id \in Jobs  BY <1>t, TypeFacts DEF MemRecords
    <2>1. CASE RunSucceeds(p)
      <3>1. PICK r \in mem[p].todo : mem' = [mem EXCEPT ![p].todo = @ \ {r}, ![p].good = @ \cup {r.id}]
                                     /\ worked' = worked \cup {r.id}
        BY <2>1 DEF RunSucceeds
      <3> DEFINE m == [mem[p] EXCEPT !.todo = @ \ {r}, !.good = @ \cup {r.id}]
      <3>a. mem' = [mem EXCEPT ![p] = m]  BY <3>1
      <3>b. m \in MemRecords
        <4>1. mem[p] \in MemRecords  BY <1>t
        <4>2. mem[p].todo \ {r} \in SUBSET Stored /\ mem[p].good \cup {r.id} \in SUBSET Jobs
          BY <4>1, <2>0 DEF MemRecords
        <4> QED  BY <4>1, <4>2 DEF MemRecords
      <3> HIDE DEF m
      <3>2. mem' \in [Processes -> MemRecords]  BY <3>a, <3>b, <1>t
      <3> QED  BY <1>m, <2>0, <2>1, <3>1, <3>2 DEF RunSucceeds, TypeOK
    <2>2. CASE RunThrows(p)
      <3>1. PICK r \in mem[p].todo : mem' = [mem EXCEPT ![p].todo = @ \ {r}]
                                     /\ failures' = [failures EXCEPT ![r.id] = @ + 1]
        BY <2>2 DEF RunThrows
      <3> DEFINE m == [mem[p] EXCEPT !.todo = @ \ {r}]
      <3>a. mem' = [mem EXCEPT ![p] = m]  BY <3>1
      <3>b. m \in MemRecords  BY <1>t DEF MemRecords
      <3> HIDE DEF m
      <3>2. mem' \in [Processes -> MemRecords]  BY <3>a, <3>b, <1>t
      <3> QED  BY <1>m, <2>0, <2>2, <3>1, <3>2 DEF RunThrows, TypeOK
    <2> QED  BY <1>14, <2>1, <2>2
  <1>15. CASE GetsOld \/ Suspend  BY <1>15, <1>f DEF GetsOld, Suspend, TypeOK, hist
  <1>16. CASE BecomesDue  BY <1>16 DEF BecomesDue, TypeOK, hist
  <1>17. CASE UNCHANGED vars  BY <1>17 DEF vars, hist, TypeOK
  <1> QED
    BY <1>5, <1>6, <1>7, <1>8, <1>9, <1>10, <1>11, <1>12, <1>13, <1>14, <1>15, <1>16, <1>17
    DEF Next, Ask, Proceed

\* TypeOK holds in every state, whatever faults happen.
THEOREM TypeCorrect == Spec => []TypeOK
  BY TypeInit, TypeStep, PTL DEF Spec

-----------------------------------------------------------------------------
(* The lock *)

LEMMA LockInit == Init => LockInv /\ QuietInv
  BY DEF Init, LockInv, QuietInv, Holding, NoLock, Locked

\* Nobody forgets a robbery, and only Reclaim commits one.
LEMMA Robbery ==
  ASSUME TypeOK, [Next]_vars, ~robbed'
  PROVE  ~robbed /\ \A p \in Processes : Reclaim(p) => ~Locked \/ pc[lock.by] \notin Holding
  <1>1. ASSUME NEW p \in Processes, Reclaim(p)
        PROVE  ~robbed /\ (~Locked \/ pc[lock.by] \notin Holding)
    BY <1>1 DEF Reclaim, TypeOK
  <1>2. CASE UNCHANGED robbed  BY <1>1, <1>2
  <1>3. ASSUME NEW p \in Processes, Ask(p) PROVE UNCHANGED robbed
    BY <1>3 DEF Ask, Enqueue, Purge, hist
  <1>4. ASSUME NEW p \in Processes, Proceed(p) PROVE UNCHANGED robbed \/ Reclaim(p)
    BY <1>4
    DEF Proceed, Fetch, Mkdir, WriteToken, TokenFails, GivesUp, Judge, ReadQueue, WriteQueue,
        CheckToken, RemoveLock, Returns, RunSucceeds, RunThrows, Settle, hist
  <1>5. ASSUME NEW p \in Processes, TimesOut(p) \/ Crash(p) PROVE UNCHANGED robbed
    BY <1>5 DEF TimesOut, Crash, hist
  <1>6. CASE GetsOld \/ Suspend \/ BecomesDue \/ UNCHANGED vars
    BY <1>2, <1>6 DEF GetsOld, Suspend, BecomesDue, vars, hist
  <1> QED  BY <1>1, <1>2, <1>3, <1>4, <1>5, <1>6 DEF Next

\* Two processes cannot both hold a lock that names one of them.
LEMMA LockExcludes == LockInv /\ ~robbed => \A p, q \in Processes :
                        pc[p] \in Holding /\ pc[q] \in Holding => p = q
  BY DEF LockInv

\* As long as nobody is robbed, what is moved aside is the lock of a process that died.
LEMMA LockStep == TypeOK /\ LockInv /\ [Next]_vars => LockInv'
  <1> SUFFICES ASSUME TypeOK, LockInv, [Next]_vars, ~robbed' PROVE LockInv'  BY DEF LockInv
  <1>t. pc \in [Processes -> Pcs] /\ None \notin Processes /\ Producers \cup Workers = Processes
    BY TypeFacts DEF Processes
  <1>h. Holding = {"made", "abort", "locked", "write", "check", "remove"}  BY DEF Holding
  <1>r. ~robbed /\ \A p \in Processes : Reclaim(p) => ~Locked \/ pc[lock.by] \notin Holding
    BY Robbery
  <1>l. \A p \in Processes : pc[p] \in Holding =>
          lock.by = p /\ (pc[p] \in {"made", "abort"} \/ lock.token = p)
    BY <1>r DEF LockInv
  <1>1. ASSUME NEW p \in Processes, UNCHANGED lock,
               \E s \in {"idle", "want", "reclaim", "run"} : pc' = [pc EXCEPT ![p] = s]
        PROVE  LockInv'
    BY <1>1, <1>t, <1>l, <1>h DEF LockInv, Holding
  <1>2. ASSUME NEW p \in Processes, UNCHANGED lock, pc[p] \in Holding \ {"made", "abort"},
               \E s : pc' = [pc EXCEPT ![p] = s]
        PROVE  LockInv'
    BY <1>2, <1>t, <1>l DEF LockInv, Holding
  <1>3. ASSUME NEW p \in Processes, Enqueue(p) \/ Purge(p) \/ Fetch(p) \/ Settle(p) \/ Judge(p)
                 \/ TimesOut(p) \/ Crash(p) \/ Returns(p)
        PROVE  LockInv'
    <2>1. UNCHANGED lock
      BY <1>3 DEF Enqueue, Purge, Fetch, Settle, Judge, TimesOut, Crash, Returns
    <2>2. CASE Enqueue(p) \/ Purge(p) \/ Fetch(p) \/ Settle(p)
      <3>1. pc' = [pc EXCEPT ![p] = "want"]  BY <2>2 DEF Enqueue, Purge, Fetch, Settle, Wants
      <3> QED  BY <2>1, <3>1, <1>1
    <2>3. CASE Judge(p)
      <3>1. pc' = [pc EXCEPT ![p] = "reclaim"]  BY <2>3 DEF Judge, Goto
      <3> QED  BY <2>1, <3>1, <1>1
    <2>4. CASE TimesOut(p) \/ Crash(p) \/ Returns(p)
      <3>1. pc' = [pc EXCEPT ![p] = "idle"]  BY <2>4 DEF TimesOut, Crash, Returns, Forgets
      <3> QED  BY <2>1, <3>1, <1>1
    <2> QED  BY <1>3, <2>2, <2>3, <2>4
  <1>4. ASSUME NEW p \in Processes, Mkdir(p) PROVE LockInv'
    <2>1. lock.by = None /\ lock' = [by |-> p, token |-> None, stale |-> FALSE]
          /\ pc' = [pc EXCEPT ![p] = "made"]
      BY <1>4 DEF Mkdir, Makable, Locked, Goto, NoLock
    <2>2. \A q \in Processes : pc[q] \notin Holding  BY <2>1, <1>t, <1>l
    <2> QED  BY <2>1, <2>2, <1>t DEF LockInv
  <1>5. ASSUME NEW p \in Processes, WriteToken(p) PROVE LockInv'
    <2>1. pc[p] = "made" /\ pc[p] \in Holding  BY <1>5 DEF WriteToken, At, Holding
    <2>2. lock.by = p  BY <2>1, <1>l
    <2>3. lock'.by = p /\ lock'.token = p /\ pc' = [pc EXCEPT ![p] = "locked"]
      BY <1>5, <2>2 DEF WriteToken, Goto, TypeOK
    <2>4. \A q \in Processes : pc'[q] \in Holding => q = p
      BY <2>2, <2>3, <1>t, <1>l
    <2> QED  BY <2>3, <2>4 DEF LockInv
  <1>6. ASSUME NEW p \in Processes, TokenFails(p) PROVE LockInv'
    <2>1. pc[p] \in Holding /\ UNCHANGED lock /\ pc' = [pc EXCEPT ![p] = "abort"]
      BY <1>6, <1>h DEF TokenFails, At, Goto
    <2> QED  BY <2>1, <1>t, <1>l DEF LockInv
  <1>7. ASSUME NEW p \in Processes, GivesUp(p) \/ RemoveLock(p) PROVE LockInv'
    <2>1. pc[p] \in Holding /\ \E s \in {"idle", "run"} : pc' = [pc EXCEPT ![p] = s]
      BY <1>7, <1>h DEF GivesUp, RemoveLock, At, Goto, Forgets
    <2>2. \A q \in Processes : pc'[q] \notin Holding  BY <2>1, <1>t, <1>h, <1>l
    <2> QED  BY <2>2 DEF LockInv
  <1>8. ASSUME NEW p \in Processes, Reclaim(p) PROVE LockInv'
    <2>1. \A q \in Processes : pc[q] \notin Holding  BY <1>8, <1>r, <1>t, <1>l DEF Locked
    <2>2. pc' = [pc EXCEPT ![p] = "want"]  BY <1>8 DEF Reclaim, Goto
    <2> QED  BY <2>1, <2>2, <1>t, <1>h DEF LockInv
  <1>9. ASSUME NEW p \in Processes, ReadQueue(p) \/ WriteQueue(p) \/ CheckToken(p) PROVE LockInv'
    BY <1>9, <1>2, <1>h DEF ReadQueue, WriteQueue, CheckToken, Goto, At
  <1>10. ASSUME NEW p \in Processes, RunSucceeds(p) \/ RunThrows(p) PROVE LockInv'
    BY <1>10, <1>l DEF RunSucceeds, RunThrows, LockInv
  <1>11. CASE GetsOld \/ Suspend
    <2>1. lock'.by = lock.by /\ lock'.token = lock.token /\ UNCHANGED pc
      BY <1>11 DEF GetsOld, Suspend, TypeOK
    <2> QED  BY <2>1, <1>l DEF LockInv
  <1>12. CASE BecomesDue \/ UNCHANGED vars  BY <1>12, <1>l DEF BecomesDue, vars, LockInv
  <1> QED
    BY <1>3, <1>4, <1>5, <1>6, <1>7, <1>8, <1>9, <1>10, <1>11, <1>12 DEF Next, Ask, Proceed

\* As long as nothing fails, a lock that is there has a live holder, whose lock is young.
LEMMA QuietKept == TypeOK /\ LockInv /\ QuietInv /\ [Next]_vars => QuietInv'
  <1> SUFFICES ASSUME TypeOK, LockInv, QuietInv, [Next]_vars, faults' = 0 PROVE QuietInv'
    BY DEF QuietInv
  <1>t. pc \in [Processes -> Pcs] /\ None \notin Processes /\ faults \in Nat
    BY TypeFacts
  <1>h. Holding = {"made", "abort", "locked", "write", "check", "remove"}  BY DEF Holding
  <1>f. \A k : ~Fault(k)  BY <1>t DEF Fault
  <1>1. ASSUME NEW p \in Processes, faults = 0 PROVE ~Judge(p) /\ ~Reclaim(p) /\ ~GetsOld
    BY <1>1 DEF QuietInv, Judge, Abandoned, Reclaim, At, GetsOld
  <1>2. ASSUME faults = 0, UNCHANGED <<lock, robbed>>, NEW p \in Processes, NEW s \in Pcs \ {"reclaim"},
               pc' = [pc EXCEPT ![p] = s], pc[p] \in Holding => s \in Holding
        PROVE  QuietInv'
    <2>1. \A q \in Processes : pc'[q] # "reclaim" /\ (pc[q] \in Holding => pc'[q] \in Holding)
      BY <1>2, <1>t DEF QuietInv
    <2>2. Locked => lock.by \in Processes  BY DEF Locked, TypeOK
    <2> QED  BY <1>2, <2>1, <2>2 DEF QuietInv, Locked
  <1>3. ASSUME faults = 0, lock' = NoLock, UNCHANGED robbed, NEW p \in Processes,
               NEW s \in Pcs \ {"reclaim"}, pc' = [pc EXCEPT ![p] = s]
        PROVE  QuietInv'
    BY <1>3, <1>t DEF QuietInv, NoLock, Locked
  <1>4. ASSUME NEW p \in Processes, Enqueue(p) \/ Purge(p) \/ Fetch(p) \/ Settle(p) PROVE QuietInv'
    <2>1. /\ UNCHANGED <<lock, robbed, faults>> /\ pc' = [pc EXCEPT ![p] = "want"]
          /\ pc[p] \in {"idle", "run"}
      BY <1>4 DEF Enqueue, Purge, Fetch, Settle, Wants, hist, At
    <2> QED  BY <2>1, <1>2, <1>h DEF Pcs
  <1>5. ASSUME NEW p \in Processes, Mkdir(p) PROVE QuietInv'
    <2>1. lock' = [by |-> p, token |-> None, stale |-> FALSE] /\ pc' = [pc EXCEPT ![p] = "made"]
          /\ UNCHANGED <<robbed, faults>>
      BY <1>5 DEF Mkdir, Goto, NoLock, hist
    <2> QED  BY <2>1, <1>t, <1>h DEF QuietInv, Locked
  <1>6. ASSUME NEW p \in Processes, WriteToken(p) PROVE QuietInv'
    <2>1. /\ lock'.by = lock.by /\ (lock'.stale => lock.stale) /\ pc' = [pc EXCEPT ![p] = "locked"]
          /\ UNCHANGED <<robbed, faults>>
      BY <1>6 DEF WriteToken, Goto, TypeOK, hist
    <2> QED  BY <2>1, <1>t, <1>h DEF QuietInv, Locked
  <1>7. ASSUME NEW p \in Processes, TokenFails(p) PROVE QuietInv'
    <2>1. /\ UNCHANGED <<lock, robbed, faults>> /\ pc' = [pc EXCEPT ![p] = "abort"]
      BY <1>7, <1>f DEF TokenFails, Goto, hist
    <2> QED  BY <2>1, <1>2, <1>h DEF Pcs
  <1>8. ASSUME NEW p \in Processes, GivesUp(p) \/ RemoveLock(p) PROVE QuietInv'
    <2>1. /\ lock' = NoLock /\ UNCHANGED <<robbed, faults>>
          /\ \E s \in {"idle", "run"} : pc' = [pc EXCEPT ![p] = s]
      BY <1>8 DEF GivesUp, RemoveLock, Goto, Forgets, hist
    <2> QED  BY <2>1, <1>3 DEF Pcs
  <1>9. ASSUME NEW p \in Processes, Judge(p) \/ Reclaim(p) PROVE QuietInv'
    BY <1>1, <1>9 DEF Judge, Reclaim
  <1>10. ASSUME NEW p \in Processes, TimesOut(p) \/ Crash(p) PROVE QuietInv'
    BY <1>10, <1>f DEF TimesOut, Crash
  <1>11. ASSUME NEW p \in Processes, ReadQueue(p) \/ WriteQueue(p) PROVE QuietInv'
    <2>1. /\ UNCHANGED <<lock, robbed, faults>>
          /\ \E s \in {"write", "check"} : pc' = [pc EXCEPT ![p] = s]
      BY <1>11 DEF ReadQueue, WriteQueue, Goto, hist
    <2> QED  BY <2>1, <1>2, <1>h DEF Pcs
  <1>12. ASSUME NEW p \in Processes, CheckToken(p) PROVE QuietInv'
    <2>1. /\ UNCHANGED <<lock, robbed, faults>> /\ pc[p] = "check"
          /\ pc' = [pc EXCEPT ![p] = IF lock.token = p THEN "remove" ELSE "run"]
      BY <1>12 DEF CheckToken, Goto, At, hist
    <2>2. faults = 0 => lock.token = p  BY <2>1, <1>h DEF QuietInv, LockInv
    <2> QED  BY <2>1, <2>2, <1>2, <1>h DEF Pcs
  <1>13. ASSUME NEW p \in Processes, Returns(p) PROVE QuietInv'
    <2>1. UNCHANGED <<lock, robbed, faults>> /\ pc' = [pc EXCEPT ![p] = "idle"] /\ pc[p] = "run"
      BY <1>13 DEF Returns, Forgets, hist, At
    <2> QED  BY <2>1, <1>2, <1>h DEF Pcs
  <1>14. ASSUME NEW p \in Processes, RunSucceeds(p) \/ RunThrows(p) PROVE QuietInv'
    BY <1>14 DEF RunSucceeds, RunThrows, QuietInv, Locked
  <1>15. CASE GetsOld \/ Suspend
    <2>1. UNCHANGED faults /\ Locked /\ ~lock.stale /\ pc[lock.by] \notin Holding
      BY <1>15, <1>f DEF GetsOld, Suspend
    <2> QED  BY <2>1 DEF QuietInv
  <1>16. CASE BecomesDue \/ UNCHANGED vars
    BY <1>16 DEF BecomesDue, vars, hist, QuietInv, Locked
  <1> QED
    BY <1>4, <1>5, <1>6, <1>7, <1>8, <1>9, <1>10, <1>11, <1>12, <1>13, <1>14, <1>15, <1>16
    DEF Next, Ask, Proceed

\* Exclusive: between the mkdir of a process and its release nobody else is in the critical
\* section, whoever dies in it and whoever waits for it, until the lock of a live holder is
\* moved aside; and without any fault none ever is, however many processes contend.
THEOREM LockIsExclusive == Spec => []Exclusive
  <1> DEFINE I == TypeOK /\ LockInv /\ QuietInv
  <1>1. Init => I  BY TypeInit, LockInit
  <1>2. I /\ [Next]_vars => I'  BY TypeStep, LockStep, QuietKept
  <1>3. I => Exclusive
    <2>1. TypeOK /\ QuietInv /\ robbed => faults > 0  BY TypeFacts DEF QuietInv
    <2> QED  BY <2>1, LockExcludes DEF Exclusive
  <1> QED  BY <1>1, <1>2, <1>3, PTL DEF Spec

-----------------------------------------------------------------------------
(* What processes remember *)

MInv == MemInv /\ IdsInv /\ BatchInv

LEMMA MemInit == Init => MInv
  <1> SUFFICES ASSUME Init PROVE MInv  OBVIOUS
  <1>1. \A p \in Processes : mem[p] = Blank /\ pc[p] = "idle"  BY DEF Init
  <1> QED  BY <1>1 DEF Init, MInv, MemInv, IdsInv, BatchInv, Ids, Blank, Acquiring

\* A step that only moves a process on within the acquisition or the release of the lock.
LEMMA QuietStep ==
  ASSUME TypeOK, MInv, UNCHANGED <<mem, file, used, known, worked, failures>>, ~robbed' => ~robbed,
         NEW p \in Processes,
         \E s \in Acquiring \cup {"abort", "remove", "run"} :
            pc' = [pc EXCEPT ![p] = s] /\ (s \in Acquiring => pc[p] \in Acquiring)
  PROVE  MInv'
  <1>t. pc \in [Processes -> Pcs]  BY TypeFacts
  <1>1. MemInv'  BY <1>t DEF MInv, MemInv, Acquiring
  <1>2. IdsInv' /\ BatchInv'  BY DEF MInv, IdsInv, BatchInv, Ids
  <1> QED  BY <1>1, <1>2 DEF MInv

\* The only process whose memory a step of p may change is p.
LEMMA Others ==
  ASSUME TypeOK, NEW p \in Processes, NEW m, NEW s,
         mem' = [mem EXCEPT ![p] = m], pc' = [pc EXCEPT ![p] = s]
  PROVE  /\ mem'[p] = m /\ pc'[p] = s
         /\ \A q \in Processes \ {p} : mem'[q] = mem[q] /\ pc'[q] = pc[q]
  BY TypeFacts

LEMMA ForgetStep ==
  ASSUME TypeOK, MInv, UNCHANGED <<file, used, hist>>, NEW p \in Processes, Forgets(p)
  PROVE  MInv'
  <1>1. /\ mem'[p] = Blank /\ pc'[p] = "idle"
        /\ \A q \in Processes \ {p} : mem'[q] = mem[q] /\ pc'[q] = pc[q]
    BY Others DEF Forgets
  <1>2. MemInv'  BY <1>1 DEF MInv, MemInv, Acquiring, Blank, hist
  <1>3. IdsInv'  BY <1>1 DEF MInv, IdsInv, Ids, hist, Blank
  <1>4. BatchInv'  BY <1>1 DEF MInv, BatchInv, hist, Blank
  <1> QED  BY <1>2, <1>3, <1>4 DEF MInv

LEMMA EnqueueStep ==
  ASSUME TypeOK, MInv, NEW p \in Processes, Enqueue(p)
  PROVE  MInv'
  <1>1. PICK j \in Jobs \ used : /\ used' = used \cup {j}
                                 /\ Wants(p, [Blank EXCEPT !.op = "enqueue", !.ids = {j}])
    BY FreshIds DEF Enqueue
  <1>m. PICK m : m = [Blank EXCEPT !.op = "enqueue", !.ids = {j}]  OBVIOUS
  <1>2. m.op = "enqueue" /\ m.ids = {j} /\ m.copy = {} /\ m.batch = {} /\ m.todo = {} /\ m.good = {}
    BY <1>m DEF Blank
  <1>3. /\ mem'[p] = m /\ pc'[p] = "want"
        /\ \A q \in Processes \ {p} : mem'[q] = mem[q] /\ pc'[q] = pc[q]
    BY <1>1, <1>m, Others DEF Wants
  <1>4. UNCHANGED <<file, known, worked, failures, robbed>>  BY DEF Enqueue, hist
  <1>5. MemInv'  BY <1>2, <1>3, <1>4 DEF MInv, MemInv, Acquiring
  <1>6. known \subseteq used  BY DEF MInv, IdsInv
  <1>7. IdsInv'
    <2>1. \A q \in Processes : mem'[q].op = "enqueue" => \E k \in used' \ known : mem'[q].ids = {k}
      BY <1>1, <1>2, <1>3, <1>6 DEF MInv, IdsInv
    <2>2. \A q \in Processes \ {p} : mem[q].op = "enqueue" => j \notin mem[q].ids
      BY DEF MInv, IdsInv
    <2> QED  BY <1>1, <1>2, <1>3, <1>4, <1>6, <2>1, <2>2 DEF MInv, IdsInv, Ids
  <1>8. BatchInv'  BY <1>2, <1>3, <1>4 DEF MInv, BatchInv
  <1> QED  BY <1>5, <1>7, <1>8 DEF MInv

LEMMA PurgeFetchStep ==
  ASSUME TypeOK, MInv, NEW p \in Processes, Purge(p) \/ Fetch(p)
  PROVE  MInv'
  <1>1. PICK m : /\ Wants(p, m) /\ m.op \in {"purge", "fetch"} /\ p \in (IF m.op = "purge" THEN Producers ELSE Workers)
                 /\ m.copy = {} /\ m.batch = {} /\ m.todo = {} /\ m.good = {}
    <2>1. CASE Purge(p)
      <3>1. PICK scope \in Scopes : Wants(p, [Blank EXCEPT !.op = "purge", !.ids = scope])
        BY <2>1 DEF Purge
      <3>2. PICK m : m = [Blank EXCEPT !.op = "purge", !.ids = scope]  OBVIOUS
      <3>3. Wants(p, m)  BY <3>1, <3>2
      <3>4. m.op = "purge" /\ m.copy = {} /\ m.batch = {} /\ m.todo = {} /\ m.good = {}  BY <3>2 DEF Blank
      <3> QED  BY <2>1, <3>3, <3>4 DEF Purge
    <2>2. CASE Fetch(p)
      <3>1. PICK m : m = [Blank EXCEPT !.op = "fetch"]  OBVIOUS
      <3>2. Wants(p, m)  BY <2>2, <3>1 DEF Fetch
      <3>3. m.op = "fetch" /\ m.copy = {} /\ m.batch = {} /\ m.todo = {} /\ m.good = {}  BY <3>1 DEF Blank
      <3> QED  BY <2>2, <3>2, <3>3 DEF Fetch
    <2> QED  BY <2>1, <2>2
  <1>2. /\ mem'[p] = m /\ pc'[p] = "want"
        /\ \A q \in Processes \ {p} : mem'[q] = mem[q] /\ pc'[q] = pc[q]
    BY <1>1, Others DEF Wants
  <1>3. UNCHANGED <<file, used, known, worked, failures, robbed>>  BY DEF Purge, Fetch, hist
  <1>4. MemInv'  BY <1>1, <1>2, <1>3 DEF MInv, MemInv, Acquiring
  <1>5. IdsInv'  BY <1>1, <1>2, <1>3 DEF MInv, IdsInv, Ids
  <1>6. BatchInv'  BY <1>1, <1>2, <1>3 DEF MInv, BatchInv
  <1> QED  BY <1>4, <1>5, <1>6 DEF MInv

LEMMA SettleStep ==
  ASSUME TypeOK, MInv, NEW p \in Processes, Settle(p)
  PROVE  MInv'
  <1>1. PICK m : m = [mem[p] EXCEPT !.op = "settle"]  OBVIOUS
  <1>2. /\ m.op = "settle" /\ m.batch = mem[p].batch /\ m.todo = mem[p].todo
        /\ m.good = mem[p].good /\ m.copy = mem[p].copy /\ mem[p].todo = {}
    BY <1>1, TypeFacts DEF Settle, MemRecords
  <1>3. /\ mem'[p] = m /\ pc'[p] = "want"
        /\ \A q \in Processes \ {p} : mem'[q] = mem[q] /\ pc'[q] = pc[q]
    BY <1>1, Others DEF Settle, Wants
  <1>4. UNCHANGED <<file, used, known, worked, failures, robbed>>  BY DEF Settle, hist
  <1>5. MemInv'  BY <1>2, <1>3, <1>4 DEF MInv, MemInv, Acquiring
  <1>6. IdsInv'  BY <1>2, <1>3, <1>4 DEF MInv, IdsInv, Ids
  <1>7. BatchInv'  BY <1>2, <1>3, <1>4 DEF MInv, BatchInv
  <1> QED  BY <1>5, <1>6, <1>7 DEF MInv

LEMMA ReadStep ==
  ASSUME TypeOK, MInv, NEW p \in Processes, ReadQueue(p)
  PROVE  MInv'
  <1>t. mem[p] \in MemRecords /\ file \subseteq Stored  BY TypeFacts DEF TypeOK
  <1>0. UNCHANGED <<file, used, hist, known, worked, failures, robbed>> /\ pc[p] = "locked"
    BY DEF ReadQueue, hist, At
  <1>1. CASE mem[p].op = "fetch"
    <2>1. PICK m : m = [mem[p] EXCEPT !.batch = file \cap due, !.todo = file \cap due]  OBVIOUS
    <2>2. /\ m.op = "fetch" /\ m.batch = file \cap due /\ m.todo = m.batch /\ m.good = mem[p].good
          /\ m.copy = mem[p].copy
      BY <1>t, <1>1, <2>1 DEF MemRecords
    <2>3. /\ mem'[p] = m /\ pc'[p] = "check"
          /\ \A q \in Processes \ {p} : mem'[q] = mem[q] /\ pc'[q] = pc[q]
      <3>1. mem' = [mem EXCEPT ![p] = m] /\ pc' = [pc EXCEPT ![p] = "check"]
        BY <1>1, <2>1 DEF ReadQueue, Goto
      <3> QED  BY <3>1, Others
    <2>4. p \in Workers  BY <1>1 DEF MInv, MemInv
    <2>5. MemInv'  BY <1>0, <2>2, <2>3, <2>4 DEF MInv, MemInv, Acquiring
    <2>6. IdsInv'  BY <1>0, <2>2, <2>3 DEF MInv, IdsInv, Ids
    <2>7. BatchInv'  BY <1>0, <2>2, <2>3 DEF MInv, BatchInv, IdsInv, Ids
    <2> QED  BY <2>5, <2>6, <2>7 DEF MInv
  <1>2. CASE mem[p].op # "fetch"
    <2>1. PICK m : m = [mem[p] EXCEPT !.copy = file]  OBVIOUS
    <2>2. /\ m.op = mem[p].op /\ m.batch = mem[p].batch /\ m.todo = mem[p].todo
          /\ m.good = mem[p].good /\ m.copy = file /\ m.ids = mem[p].ids
      BY <1>t, <2>1 DEF MemRecords
    <2>3. /\ mem'[p] = m /\ pc'[p] = "write"
          /\ \A q \in Processes \ {p} : mem'[q] = mem[q] /\ pc'[q] = pc[q]
      <3>1. mem' = [mem EXCEPT ![p] = m] /\ pc' = [pc EXCEPT ![p] = "write"]
        BY <1>2, <2>1 DEF ReadQueue, Goto
      <3> QED  BY <3>1, Others
    <2>5. MemInv'  BY <1>0, <1>2, <2>2, <2>3 DEF MInv, MemInv, Acquiring
    <2>6. IdsInv'  BY <1>0, <2>2, <2>3 DEF MInv, IdsInv, Ids
    <2>7. BatchInv'  BY <1>0, <2>2, <2>3 DEF MInv, BatchInv, IdsInv, Ids
    <2> QED  BY <2>5, <2>6, <2>7 DEF MInv
  <1> QED  BY <1>1, <1>2

\* What a step of a handler does to the record of its job.
LEMMA RunStep ==
  ASSUME TypeOK, MInv, NEW p \in Processes, RunSucceeds(p) \/ RunThrows(p)
  PROVE  MInv'
  <1>t. mem \in [Processes -> MemRecords] /\ failures \in [Jobs -> Nat]
        /\ (\A r \in Stored : r.id \in Jobs /\ r.attempts \in Nat)
    BY TypeFacts
  <1>0. UNCHANGED <<file, used, known, pc, robbed>> /\ pc[p] = "run"
    BY DEF RunSucceeds, RunThrows, At
  <1>1. PICK r \in mem[p].todo, m \in MemRecords :
          /\ mem' = [mem EXCEPT ![p] = m]
          /\ m.op = mem[p].op /\ m.batch = mem[p].batch /\ m.ids = mem[p].ids /\ m.copy = mem[p].copy
          /\ m.todo = mem[p].todo \ {r}
          /\ \/ /\ m.good = mem[p].good \cup {r.id}
                /\ worked' = worked \cup {r.id} /\ failures' = failures
             \/ /\ m.good = mem[p].good /\ worked' = worked
                /\ failures' = [failures EXCEPT ![r.id] = @ + 1]
    <2>1. CASE RunSucceeds(p)
      <3>1. PICK r \in mem[p].todo : mem' = [mem EXCEPT ![p].todo = @ \ {r}, ![p].good = @ \cup {r.id}]
                                     /\ worked' = worked \cup {r.id}
        BY <2>1 DEF RunSucceeds
      <3>2. PICK m : m = [mem[p] EXCEPT !.todo = @ \ {r}, !.good = @ \cup {r.id}]  OBVIOUS
      <3>3. mem' = [mem EXCEPT ![p] = m]  BY <3>1, <3>2
      <3>4. mem[p] \in MemRecords /\ r.id \in Jobs  BY <1>t DEF MemRecords
      <3>5. mem[p].todo \ {r} \in SUBSET Stored /\ mem[p].good \cup {r.id} \in SUBSET Jobs
        BY <3>4 DEF MemRecords
      <3>6. /\ m.op = mem[p].op /\ m.batch = mem[p].batch /\ m.ids = mem[p].ids /\ m.copy = mem[p].copy
            /\ m.todo = mem[p].todo \ {r} /\ m.good = mem[p].good \cup {r.id} /\ m \in MemRecords
        BY <3>2, <3>4, <3>5 DEF MemRecords
      <3> QED  BY <2>1, <3>1, <3>3, <3>6 DEF RunSucceeds
    <2>2. CASE RunThrows(p)
      <3>1. PICK r \in mem[p].todo : mem' = [mem EXCEPT ![p].todo = @ \ {r}]
                                     /\ failures' = [failures EXCEPT ![r.id] = @ + 1]
        BY <2>2 DEF RunThrows
      <3>2. PICK m : m = [mem[p] EXCEPT !.todo = @ \ {r}]  OBVIOUS
      <3>3. mem' = [mem EXCEPT ![p] = m]  BY <3>1, <3>2
      <3>4. mem[p] \in MemRecords  BY <1>t
      <3>5. mem[p].todo \ {r} \in SUBSET Stored  BY <3>4 DEF MemRecords
      <3>6. /\ m.op = mem[p].op /\ m.batch = mem[p].batch /\ m.ids = mem[p].ids /\ m.copy = mem[p].copy
            /\ m.todo = mem[p].todo \ {r} /\ m.good = mem[p].good /\ m \in MemRecords
        BY <3>2, <3>4, <3>5 DEF MemRecords
      <3> QED  BY <2>2, <3>1, <3>3, <3>6 DEF RunThrows
    <2> QED  BY <2>1, <2>2
  <1>2. /\ mem'[p] = m /\ \A q \in Processes \ {p} : mem'[q] = mem[q]
    BY <1>1, <1>t
  <1>3. r \in mem[p].batch  BY <1>1 DEF MInv, MemInv
  <1>4. MemInv'  BY <1>0, <1>1, <1>2 DEF MInv, MemInv, Acquiring
  <1>5. IdsInv'  BY <1>0, <1>1, <1>2 DEF MInv, IdsInv, Ids
  <1>6. \A j \in Jobs : failures'[j] >= failures[j] /\ failures'[j] \in Nat
    BY <1>1, <1>t
  <1>7. \A q \in Processes : \A s \in mem[q].batch : s.id \in Jobs /\ s.attempts \in Nat
    BY <1>t DEF MemRecords
  <1>8. BatchInv'
    <2>1. \A s \in file : failures'[s.id] >= s.attempts
      BY <1>t, <1>6 DEF MInv, BatchInv, TypeOK
    <2>2. \A q \in Processes : mem'[q].good \subseteq worked'
      BY <1>1, <1>2 DEF MInv, BatchInv
    <2>3. ASSUME NEW q \in Processes, NEW s \in mem'[q].batch
          PROVE  /\ s.id \in known
                 /\ failures'[s.id] >= s.attempts
                 /\ s \in mem'[q].todo \/ s.id \in mem'[q].good \/ failures'[s.id] > s.attempts
      <3>1. s \in mem[q].batch /\ s.id \in Jobs /\ s.attempts \in Nat  BY <1>1, <1>2, <1>7, <2>3
      <3>2. /\ s.id \in known /\ failures[s.id] >= s.attempts
            /\ s \in mem[q].todo \/ s.id \in mem[q].good \/ failures[s.id] > s.attempts
        BY <3>1 DEF MInv, BatchInv
      <3>3. failures'[s.id] >= failures[s.id] /\ failures'[s.id] \in Nat /\ failures[s.id] \in Nat
        BY <1>6, <1>t, <3>1
      <3>4. CASE q = p /\ s = r
        BY <1>1, <1>2, <1>t, <3>1, <3>2, <3>3, <3>4
      <3>5. CASE ~(q = p /\ s = r)
        <4>1. s \in mem[q].todo => s \in mem'[q].todo  BY <1>1, <1>2, <3>5
        <4>2. mem[q].good \subseteq mem'[q].good  BY <1>1, <1>2
        <4> QED  BY <3>1, <3>2, <3>3, <4>1, <4>2
      <3> QED  BY <3>4, <3>5
    <2>4. ASSUME NEW q \in Processes, NEW s \in mem'[q].copy
          PROVE  s.id \in known /\ failures'[s.id] >= s.attempts
      <3>1. s \in mem[q].copy  BY <1>1, <1>2, <2>4
      <3>2. s.id \in Jobs /\ s.attempts \in Nat  BY <1>t, <3>1 DEF MemRecords
      <3>3. s.id \in known /\ failures[s.id] >= s.attempts  BY <3>1 DEF MInv, BatchInv
      <3>4. failures[s.id] \in Nat /\ failures'[s.id] \in Nat /\ failures'[s.id] >= failures[s.id]
        BY <1>6, <1>t, <3>2
      <3> QED  BY <3>2, <3>3, <3>4
    <2> QED  BY <1>0, <2>1, <2>2, <2>3, <2>4 DEF BatchInv
  <1> QED  BY <1>4, <1>5, <1>8 DEF MInv

\* A process about to write writes the file it read, with its own change.
LEMMA WriteFacts ==
  ASSUME TypeOK, MInv, NEW p \in Processes, WriteQueue(p)
  PROVE  /\ pc[p] = "write" /\ (~robbed => Copy(p) = file)
         /\ mem[p].op \in {"enqueue", "purge", "settle"}
         /\ file' = Updated(p) /\ known' = known \cup Ids(Updated(p))
         /\ mem'[p] = Blank /\ pc'[p] = "check"
         /\ \A q \in Processes \ {p} : mem'[q] = mem[q] /\ pc'[q] = pc[q]
         /\ UNCHANGED <<lock, due, used, faults, requests, worked, failures, robbed>>
  <1>1. pc[p] = "write" /\ mem[p] \in MemRecords  BY TypeFacts DEF WriteQueue, At
  <1>2. mem[p].op # "none" /\ mem[p].op # "fetch" /\ (~robbed => mem[p].copy = file)
    BY <1>1 DEF MInv, MemInv, Acquiring
  <1>3. mem[p].op \in Ops  BY <1>1 DEF MemRecords
  <1>4. mem' = [mem EXCEPT ![p] = Blank] /\ pc' = [pc EXCEPT ![p] = "check"]
    BY DEF WriteQueue, Goto
  <1>5. /\ mem'[p] = Blank /\ pc'[p] = "check"
        /\ \A q \in Processes \ {p} : mem'[q] = mem[q] /\ pc'[q] = pc[q]
    BY <1>4, Others
  <1> QED  BY <1>1, <1>2, <1>3, <1>5 DEF Copy, Ops, WriteQueue

\* An enqueue adds its new job to the copy.
LEMMA EnqueueWrites ==
  ASSUME TypeOK, MInv, NEW p \in Processes, WriteQueue(p), mem[p].op = "enqueue"
  PROVE  \E j \in Jobs \ known : /\ mem[p].ids = {j}
                                 /\ file' = Copy(p) \cup {[id |-> j, attempts |-> 0]}
                                 /\ Ids(file') = Ids(Copy(p)) \cup {j}
  <1>1. PICK j \in used \ known : mem[p].ids = {j}  BY DEF MInv, IdsInv
  <1>2. j \in Jobs  BY DEF TypeOK
  <1>3. file' = Copy(p) \cup {[id |-> j, attempts |-> 0]}  BY <1>1, WriteFacts DEF Updated
  <1>4. Ids(file') = Ids(Copy(p)) \cup {j}
    <2>1. PICK n : n = [id |-> j, attempts |-> 0]  OBVIOUS
    <2>2. n.id = j /\ file' = Copy(p) \cup {n}  BY <1>3, <2>1
    <2> QED  BY <2>2 DEF Ids
  <1> QED  BY <1>1, <1>2, <1>3, <1>4

\* A purge drops the jobs it is for.
LEMMA PurgeWrites ==
  ASSUME TypeOK, MInv, NEW p \in Processes, WriteQueue(p), mem[p].op = "purge"
  PROVE  file' \subseteq Copy(p) /\ Ids(file') = Ids(Copy(p)) \ mem[p].ids
  BY WriteFacts DEF Updated, Ids

\* A settlement keeps every job of the copy that is not over, and counts the attempts of
\* those that threw.
LEMMA SettleWrites ==
  ASSUME TypeOK, MInv, NEW p \in Processes, WriteQueue(p), mem[p].op = "settle"
  PROVE  /\ Ids(file') \subseteq Ids(Copy(p))
         /\ \A j \in Ids(Copy(p)) \ Ids(file') : j \in worked \/ failures[j] >= MaxAttempts
         /\ \A r \in file' : failures[r.id] >= r.attempts
  <1>t. mem[p] \in MemRecords /\ MaxAttempts \in Nat \ {0} /\ failures \in [Jobs -> Nat]
        /\ (\A r \in Stored : r.id \in Jobs /\ r.attempts \in Nat)
    BY TypeFacts
  <1>0. file' = Settled(p)  BY WriteFacts DEF Updated
  <1>1. ASSUME NEW r \in Retries(p)
        PROVE  \E t \in mem[p].batch : /\ t \in Thrown(p) /\ r.id = t.id /\ r.attempts = t.attempts + 1
                                       /\ t.id \in Jobs /\ t.attempts \in Nat /\ failures[t.id] > t.attempts
    <2>1. PICK t \in mem[p].batch : t.id \notin mem[p].good /\ r = Counted(t)
      BY DEF Retries, Thrown
    <2>2. t \in Stored  BY <1>t DEF MemRecords
    <2>3. r.id = t.id /\ r.attempts = t.attempts + 1  BY <2>1, <2>2 DEF Counted, Stored
    <2>4. t \notin mem[p].todo  BY DEF MInv, MemInv
    <2>5. failures[t.id] > t.attempts  BY <2>1, <2>4 DEF MInv, BatchInv
    <2> QED  BY <1>t, <2>1, <2>2, <2>3, <2>5 DEF Thrown
  <1>2. Ids(file') \subseteq Ids(Copy(p))  BY <1>0 DEF Settled, Ids
  <1>3. ASSUME NEW j \in Ids(Copy(p)) \ Ids(file') PROVE j \in worked \/ failures[j] >= MaxAttempts
    <2>1. PICK s \in Copy(p) : s.id = j  BY DEF Ids
    <2>2. j \in Ids(mem[p].batch)
      <3>1. s \notin file'  BY <2>1 DEF Ids
      <3> QED  BY <1>0, <2>1, <3>1 DEF Settled
    <2>3. PICK t \in mem[p].batch : t.id = j  BY <2>2 DEF Ids
    <2>4. t \in Stored /\ t.id \in Jobs /\ t.attempts \in Nat /\ failures[t.id] \in Nat
      BY <1>t DEF MemRecords
    <2>5. CASE j \in mem[p].good  BY <2>5 DEF MInv, BatchInv
    <2>6. CASE j \notin mem[p].good
      <3>1. t \in Thrown(p)  BY <2>3, <2>6 DEF Thrown
      <3>2. Exhausted(t)
        <4> SUFFICES ASSUME ~Exhausted(t) PROVE FALSE  OBVIOUS
        <4>1. Counted(t) \in Retries(p)  BY <3>1 DEF Retries
        <4>2. Counted(t).id = j  BY <2>3, <2>4 DEF Counted, Stored
        <4>3. Counted(t) \in file'  BY <1>0, <2>1, <4>1, <4>2 DEF Settled, Ids
        <4> QED  BY <4>2, <4>3 DEF Ids
      <3>3. t \notin mem[p].todo  BY DEF MInv, MemInv
      <3>4. failures[t.id] > t.attempts  BY <2>3, <2>6, <3>3 DEF MInv, BatchInv
      <3> QED  BY <1>t, <2>3, <2>4, <3>2, <3>4 DEF Exhausted
    <2> QED  BY <2>5, <2>6
  <1>4. ASSUME NEW r \in file' PROVE failures[r.id] >= r.attempts
    <2>1. CASE r \in Retries(p)  BY <1>1, <1>t, <2>1
    <2>2. CASE r \in Copy(p)  BY <2>2 DEF MInv, BatchInv, Copy
    <2> QED  BY <1>0, <2>1, <2>2 DEF Settled
  <1> QED  BY <1>2, <1>3, <1>4

LEMMA WriteStep ==
  ASSUME TypeOK, LockInv, MInv, NEW p \in Processes, WriteQueue(p)
  PROVE  MInv'
  <1>1. /\ pc[p] = "write" /\ mem'[p] = Blank /\ pc'[p] = "check"
        /\ (\A q \in Processes \ {p} : mem'[q] = mem[q] /\ pc'[q] = pc[q])
        /\ UNCHANGED <<used, worked, failures, robbed>> /\ known' = known \cup Ids(file')
        /\ mem[p].op \in {"enqueue", "purge", "settle"}
    BY WriteFacts
  <1>2. ~robbed => \A q \in Processes \ {p} : pc[q] # "write"
    BY <1>1, LockExcludes DEF Holding
  <1>3. MemInv'
    <2>1. Blank.op = "none" /\ Blank.batch = {} /\ Blank.todo = {}  BY DEF Blank
    <2> QED  BY <1>1, <1>2, <2>1 DEF MInv, MemInv, Acquiring
  <1>4. Ids(Copy(p)) \subseteq known /\ known \subseteq used
    BY DEF MInv, IdsInv, BatchInv, Ids, Copy
  <1>b. Blank.op = "none" /\ Blank.copy = {} /\ Blank.batch = {} /\ Blank.good = {}  BY DEF Blank
  <1>c. \A r \in Copy(p) : failures[r.id] >= r.attempts  BY DEF MInv, BatchInv, Copy
  <1>5. CASE mem[p].op = "enqueue"
    <2>1. PICK j \in Jobs \ known : /\ mem[p].ids = {j}
                                    /\ file' = Copy(p) \cup {[id |-> j, attempts |-> 0]}
                                    /\ Ids(file') = Ids(Copy(p)) \cup {j}
      BY <1>5, EnqueueWrites
    <2>2. known' = known \cup {j}  BY <1>1, <1>4, <2>1
    <2>3. \A q \in Processes \ {p} : mem[q].op = "enqueue" => j \notin mem[q].ids
      BY <1>5, <2>1 DEF MInv, IdsInv
    <2>4. j \in used  BY <1>5, <2>1 DEF MInv, IdsInv
    <2>5. \A q \in Processes : mem'[q].op = "enqueue" => \E k \in used' \ known' : mem'[q].ids = {k}
      BY <1>1, <1>b, <2>2, <2>3 DEF MInv, IdsInv
    <2>6. IdsInv'
      <3>1. Ids(file)' \subseteq known' /\ known' \subseteq used'  BY <1>1, <1>4, <2>1, <2>2, <2>4
      <3>2. \A q, o \in Processes : mem'[q].op = "enqueue" /\ mem'[o].op = "enqueue" /\ q # o
                                      => mem'[q].ids \cap mem'[o].ids = {}
        BY <1>1, <1>b DEF MInv, IdsInv
      <3> QED  BY <2>5, <3>1, <3>2 DEF IdsInv
    <2>7. failures[j] >= 0  BY TypeFacts
    <2>8. BatchInv'  BY <1>1, <1>b, <1>c, <2>1, <2>2, <2>7 DEF MInv, BatchInv
    <2> QED  BY <1>3, <2>6, <2>8 DEF MInv
  <1>6. CASE mem[p].op # "enqueue"
    <2>1. Ids(file') \subseteq Ids(Copy(p)) /\ \A r \in file' : failures[r.id] >= r.attempts
      BY <1>1, <1>6, <1>c, PurgeWrites, SettleWrites
    <2>2. known' = known  BY <1>1, <1>4, <2>1
    <2>3. IdsInv'  BY <1>1, <1>4, <1>b, <2>1, <2>2 DEF MInv, IdsInv
    <2>4. BatchInv'  BY <1>1, <1>b, <2>1, <2>2 DEF MInv, BatchInv
    <2> QED  BY <1>3, <2>3, <2>4 DEF MInv
  <1> QED  BY <1>5, <1>6

IInv == TypeOK /\ LockInv /\ MInv

\* Every step keeps what the processes remember true.
LEMMA MemStep == IInv /\ [Next]_vars => MInv'
  <1> SUFFICES ASSUME IInv, [Next]_vars PROVE MInv'  OBVIOUS
  <1>0. TypeOK /\ LockInv /\ MInv  BY DEF IInv
  <1>r. ~robbed' => ~robbed  BY <1>0, Robbery
  <1>1. ASSUME NEW p \in Processes,
               \/ Mkdir(p) \/ WriteToken(p) \/ TokenFails(p) \/ Judge(p) \/ Reclaim(p)
               \/ CheckToken(p) \/ RemoveLock(p)
        PROVE  MInv'
    <2>1. UNCHANGED <<mem, file, used, known, worked, failures>>
      BY <1>1 DEF Mkdir, WriteToken, TokenFails, Judge, Reclaim, CheckToken, RemoveLock, hist
    <2>2. \E s \in Acquiring \cup {"abort", "remove", "run"} :
            pc' = [pc EXCEPT ![p] = s] /\ (s \in Acquiring => pc[p] \in Acquiring)
      BY <1>1
      DEF Mkdir, WriteToken, TokenFails, Judge, Reclaim, CheckToken, RemoveLock, Makable, Goto, At, Acquiring
    <2> QED  BY <1>0, <1>r, <2>1, <2>2, QuietStep
  <1>2. ASSUME NEW p \in Processes, TimesOut(p) \/ Crash(p) \/ Returns(p) \/ GivesUp(p) PROVE MInv'
    BY <1>0, <1>2, ForgetStep DEF TimesOut, Crash, Returns, GivesUp
  <1>3. CASE GetsOld \/ Suspend \/ BecomesDue \/ UNCHANGED vars
    BY <1>0, <1>3 DEF GetsOld, Suspend, BecomesDue, vars, hist, MInv, MemInv, IdsInv, BatchInv, Ids
  <1> QED
    BY <1>0, <1>1, <1>2, <1>3, EnqueueStep, PurgeFetchStep, SettleStep, ReadStep, RunStep, WriteStep
    DEF Next, Ask, Proceed

LEMMA Invariance == Spec => []IInv
  <1>1. Init => IInv  BY TypeInit, LockInit, MemInit DEF IInv
  <1>2. IInv /\ [Next]_vars => IInv'  BY TypeStep, LockStep, MemStep DEF IInv
  <1> QED  BY <1>1, <1>2, PTL DEF Spec

-----------------------------------------------------------------------------
(* The promise of JobQueue *)

LEMMA PromiseInit == Init => Promise!Init
  <1> SUFFICES ASSUME Init PROVE Promise!Init  OBVIOUS
  <1>1. \A p \in Producers : Asked(p) = {}  BY DEF Init, Asked, Blank, Processes
  <1> QED  BY <1>1 DEF Init, Promise!Init, Ids

\* A step that touches neither the file nor what happened to jobs changes at most what one
\* process asks for.
LEMMA InsideStep ==
  ASSUME TypeOK, NEW p \in Processes, NEW m, UNCHANGED <<file, hist>>, mem' = [mem EXCEPT ![p] = m],
         m.op = "purge" => m.ids \in SUBSET Jobs
  PROVE  [Promise!Next]_(Promise!vars)
  <1>t. mem \in [Processes -> MemRecords] /\ Producers \subseteq Processes  BY TypeFacts DEF Processes
  <1>1. \A q \in Processes \ {p} : mem'[q] = mem[q] /\ Asked(q)' = Asked(q)  BY <1>t DEF Asked
  <1>2. mem'[p] = m  BY <1>t
  <1>3. CASE p \in Producers
    <2> DEFINE now == [q \in Producers |-> Asked(q)]
               next == [q \in Producers |-> Asked(q)']
    <2>1. \A q \in Producers : Asked(q)' \in SUBSET Jobs
      BY <1>1, <1>2, <1>t DEF Asked, MemRecords
    <2>2. next \in [Producers -> SUBSET Jobs]  BY <2>1
    <2>3. \A d \in Producers \ {p} : next[d] = now[d]  BY <1>1, <1>t
    <2>4. Promise!Ask(p)  BY <2>2, <2>3 DEF Promise!Ask, hist
    <2> QED  BY <1>3, <2>4 DEF Promise!Next
  <1>4. CASE p \notin Producers
    <2>1. [q \in Producers |-> Asked(q)]' = [q \in Producers |-> Asked(q)]  BY <1>1, <1>4, <1>t
    <2> QED  BY <2>1 DEF Promise!vars, hist
  <1> QED  BY <1>3, <1>4

\* Replacing the file is, for its readers, the enqueue, the purge or the settlement itself,
\* if nobody was robbed ...
LEMMA WritePromise ==
  ASSUME TypeOK, MInv, NEW p \in Processes, WriteQueue(p), ~robbed
  PROVE  Promise!Next
  <1>t. mem \in [Processes -> MemRecords] /\ Producers \subseteq Processes  BY TypeFacts DEF Processes
  <1>1. /\ mem'[p] = Blank
        /\ (\A q \in Processes \ {p} : mem'[q] = mem[q])
        /\ UNCHANGED <<worked, failures, robbed>> /\ known' = known \cup Ids(file')
        /\ mem[p].op \in {"enqueue", "purge", "settle"} /\ Copy(p) = file
    BY WriteFacts
  <1>2. Ids(file) \subseteq known  BY DEF MInv, IdsInv
  <1>3. Asked(p)' = {} /\ \A q \in Processes \ {p} : Asked(q)' = Asked(q)
    BY <1>1 DEF Asked, Blank
  <1>4. mem[p].op # "purge" => [q \in Producers |-> Asked(q)]' = [q \in Producers |-> Asked(q)]
    BY <1>3, <1>t DEF Asked
  <1>5. CASE mem[p].op = "enqueue"
    <2>1. PICK j \in Jobs \ known : Ids(file') = Ids(file) \cup {j}  BY <1>1, <1>5, EnqueueWrites
    <2>2. known' = known \cup {j}  BY <1>1, <1>2, <2>1
    <2>3. Promise!Enqueue(j)  BY <1>1, <1>4, <1>5, <2>1, <2>2 DEF Promise!Enqueue
    <2> QED  BY <2>3 DEF Promise!Next
  <1>6. CASE mem[p].op = "purge"
    <2>1. p \in Producers /\ Asked(p) = mem[p].ids  BY <1>6 DEF MInv, MemInv, Asked
    <2>2. Ids(file') = Ids(file) \ mem[p].ids  BY <1>1, <1>6, PurgeWrites
    <2>3. known' = known  BY <1>1, <1>2, <2>2
    <2>4. [q \in Producers |-> Asked(q)]' = [[q \in Producers |-> Asked(q)] EXCEPT ![p] = {}]
      BY <1>3, <1>t, <2>1
    <2>5. [q \in Producers |-> Asked(q)][p] = mem[p].ids  BY <2>1
    <2>6. Promise!Purge(p)  BY <1>1, <2>1, <2>2, <2>3, <2>4, <2>5 DEF Promise!Purge
    <2> QED  BY <2>1, <2>6 DEF Promise!Next
  <1>7. CASE mem[p].op = "settle"
    <2>1. Ids(file') \subseteq Ids(file)
          /\ \A j \in Ids(file) \ Ids(file') : j \in worked \/ failures[j] >= MaxAttempts
      BY <1>1, <1>7, SettleWrites
    <2>2. known' = known  BY <1>1, <1>2, <2>1
    <2>3. Promise!Settle  BY <1>1, <1>4, <1>7, <2>1, <2>2 DEF Promise!Settle, Promise!Over
    <2> QED  BY <2>3 DEF Promise!Next
  <1> QED  BY <1>1, <1>5, <1>6, <1>7

\* ... and otherwise it still adds at most one job that is new.
LEMMA OverwritePromise ==
  ASSUME TypeOK, MInv, NEW p \in Processes, WriteQueue(p), robbed
  PROVE  Promise!Next
  <1>t. mem \in [Processes -> MemRecords] /\ Producers \subseteq Processes  BY TypeFacts DEF Processes
  <1>1. /\ mem'[p] = Blank
        /\ (\A q \in Processes \ {p} : mem'[q] = mem[q])
        /\ UNCHANGED <<worked, failures, robbed>> /\ known' = known \cup Ids(file')
        /\ mem[p].op \in {"enqueue", "purge", "settle"}
    BY WriteFacts
  <1>2. Ids(Copy(p)) \subseteq known  BY DEF MInv, BatchInv, Ids, Copy
  <1>3. \E new \in SUBSET Jobs : /\ \A i, j \in new : i = j
                                 /\ known' = known \cup new /\ Ids(file') \subseteq known'
    <2>1. CASE mem[p].op = "enqueue"
      <3>1. PICK j \in Jobs \ known : Ids(file') = Ids(Copy(p)) \cup {j}  BY <2>1, EnqueueWrites
      <3>2. known' = known \cup {j}  BY <1>1, <1>2, <3>1
      <3>3. {j} \in SUBSET Jobs  OBVIOUS
      <3> QED  BY <1>1, <3>2, <3>3
    <2>2. CASE mem[p].op # "enqueue"
      <3>1. Ids(file') \subseteq Ids(Copy(p))  BY <1>1, <2>2, PurgeWrites, SettleWrites
      <3>2. known' = known \cup {}  BY <1>1, <1>2, <3>1
      <3>3. Ids(file') \subseteq known'  BY <1>1
      <3> WITNESS {} \in SUBSET Jobs
      <3> QED  BY <3>2, <3>3
    <2> QED  BY <2>1, <2>2
  <1> DEFINE now == [q \in Producers |-> Asked(q)]
             next == [q \in Producers |-> Asked(q)']
  <1>4. Asked(p)' = {} /\ \A q \in Processes \ {p} : Asked(q)' = Asked(q)
    BY <1>1 DEF Asked, Blank
  <1>5. next = now \/ \E c \in Producers : next = [now EXCEPT ![c] = {}]
    <2>1. CASE p \in Producers
      <3>1. next = [now EXCEPT ![p] = {}]  BY <1>4, <1>t, <2>1
      <3> QED  BY <2>1, <3>1
    <2>2. CASE p \notin Producers  BY <1>4, <1>t, <2>2
    <2> QED  BY <2>1, <2>2
  <1>6. Promise!Overwrite  BY <1>1, <1>3, <1>5 DEF Promise!Overwrite
  <1> QED  BY <1>6 DEF Promise!Next

\* A run of a handler is a run of a job that was queued.
LEMMA RunPromise ==
  ASSUME TypeOK, MInv, NEW p \in Processes, RunSucceeds(p) \/ RunThrows(p)
  PROVE  Promise!Next
  <1>t. mem \in [Processes -> MemRecords] /\ Producers \subseteq Processes
        /\ (\A r \in Stored : r.id \in Jobs)
    BY TypeFacts DEF Processes
  <1>1. \A r \in mem[p].todo : r.id \in known /\ r.id \in Jobs
    BY <1>t DEF MInv, MemInv, BatchInv, TypeOK
  <1>2. ASSUME \A q \in Processes : mem'[q].op = mem[q].op /\ mem'[q].ids = mem[q].ids
        PROVE  [q \in Producers |-> Asked(q)]' = [q \in Producers |-> Asked(q)]
    BY <1>2, <1>t DEF Asked
  <1>3. CASE RunSucceeds(p)
    <2>1. PICK r \in mem[p].todo : mem' = [mem EXCEPT ![p].todo = @ \ {r}, ![p].good = @ \cup {r.id}]
                                   /\ worked' = worked \cup {r.id}
      BY <1>3 DEF RunSucceeds
    <2>2. \A q \in Processes : mem'[q].op = mem[q].op /\ mem'[q].ids = mem[q].ids
      BY <2>1, <1>t DEF MemRecords
    <2>3. Promise!Succeed(r.id)  BY <1>1, <1>2, <1>3, <2>1, <2>2 DEF Promise!Succeed, RunSucceeds
    <2> QED  BY <1>1, <2>3 DEF Promise!Next
  <1>4. CASE RunThrows(p)
    <2>1. PICK r \in mem[p].todo : mem' = [mem EXCEPT ![p].todo = @ \ {r}]
                                   /\ failures' = [failures EXCEPT ![r.id] = @ + 1]
      BY <1>4 DEF RunThrows
    <2>2. \A q \in Processes : mem'[q].op = mem[q].op /\ mem'[q].ids = mem[q].ids
      BY <2>1, <1>t DEF MemRecords
    <2>3. Promise!Throw(r.id)  BY <1>1, <1>2, <1>4, <2>1, <2>2 DEF Promise!Throw, RunThrows
    <2> QED  BY <1>1, <2>3 DEF Promise!Next
  <1> QED  BY <1>3, <1>4

LEMMA PromiseStep == IInv /\ [Next]_vars => [Promise!Next]_(Promise!vars)
  <1> SUFFICES ASSUME IInv, [Next]_vars PROVE [Promise!Next]_(Promise!vars)  OBVIOUS
  <1>0. TypeOK /\ MInv  BY DEF IInv
  <1>t. mem \in [Processes -> MemRecords] /\ Blank \in MemRecords  BY <1>0, TypeFacts, MemTypes
  <1>1. ASSUME UNCHANGED <<mem, file, hist>> PROVE [Promise!Next]_(Promise!vars)
    BY <1>1 DEF Promise!vars, hist, Asked, Ids
  <1>2. ASSUME NEW p \in Processes, NEW m \in MemRecords, UNCHANGED <<file, hist>>, mem' = [mem EXCEPT ![p] = m]
        PROVE  [Promise!Next]_(Promise!vars)
    BY <1>0, <1>2, InsideStep DEF MemRecords
  <1>3. ASSUME NEW p \in Processes,
               \/ Mkdir(p) \/ WriteToken(p) \/ TokenFails(p) \/ Judge(p) \/ Reclaim(p)
               \/ CheckToken(p) \/ RemoveLock(p)
        PROVE  [Promise!Next]_(Promise!vars)
    <2>1. CASE Reclaim(p)
      <3>1. UNCHANGED <<mem, file, known, worked, failures>> /\ (UNCHANGED robbed \/ robbed' = TRUE)
        BY <1>0, <2>1 DEF Reclaim, TypeOK
      <3>2. CASE UNCHANGED robbed  BY <1>1, <3>1, <3>2 DEF hist
      <3>3. CASE robbed' = TRUE
        <4>1. Promise!Disturb  BY <3>1, <3>3 DEF Promise!Disturb, Asked, Ids
        <4> QED  BY <4>1 DEF Promise!Next
      <3> QED  BY <3>1, <3>2, <3>3
    <2>2. CASE ~Reclaim(p)
      BY <1>1, <1>3, <2>2 DEF Mkdir, WriteToken, TokenFails, Judge, CheckToken, RemoveLock
    <2> QED  BY <2>1, <2>2
  <1>4. ASSUME NEW p \in Processes, TimesOut(p) \/ Crash(p) \/ Returns(p) \/ GivesUp(p)
        PROVE  [Promise!Next]_(Promise!vars)
    <2>1. UNCHANGED <<file, hist>> /\ mem' = [mem EXCEPT ![p] = Blank]
      BY <1>4 DEF TimesOut, Crash, Returns, GivesUp, Forgets
    <2> QED  BY <1>2, <1>t, <2>1
  <1>5. ASSUME NEW p \in Processes, Enqueue(p) \/ Purge(p) \/ Fetch(p) \/ Settle(p)
        PROVE  [Promise!Next]_(Promise!vars)
    <2>1. CASE Enqueue(p)
      <3>1. PICK j \in Jobs : mem' = [mem EXCEPT ![p] = [Blank EXCEPT !.op = "enqueue", !.ids = {j}]]
        BY <1>0, <2>1, FreshIds DEF Enqueue, Wants
      <3>2. [Blank EXCEPT !.op = "enqueue", !.ids = {j}] \in MemRecords  BY MemTypes DEF Ops
      <3> QED  BY <1>2, <2>1, <3>1, <3>2 DEF Enqueue
    <2>2. CASE Purge(p)
      <3>1. PICK scope \in Scopes : mem' = [mem EXCEPT ![p] = [Blank EXCEPT !.op = "purge", !.ids = scope]]
        BY <2>2 DEF Purge, Wants
      <3>2. [Blank EXCEPT !.op = "purge", !.ids = scope] \in MemRecords
        BY MemTypes, QueueAssumption DEF Ops
      <3> QED  BY <1>2, <2>2, <3>1, <3>2 DEF Purge
    <2>3. CASE Fetch(p)
      <3>1. [Blank EXCEPT !.op = "fetch"] \in MemRecords  BY MemTypes DEF Ops
      <3> QED  BY <1>2, <2>3, <3>1 DEF Fetch, Wants
    <2>4. CASE Settle(p)
      <3>1. [mem[p] EXCEPT !.op = "settle"] \in MemRecords  BY <1>t, MemTypes DEF Ops
      <3> QED  BY <1>2, <2>4, <3>1 DEF Settle, Wants
    <2> QED  BY <1>5, <2>1, <2>2, <2>3, <2>4
  <1>6. ASSUME NEW p \in Processes, ReadQueue(p) PROVE [Promise!Next]_(Promise!vars)
    <2>0. mem[p] \in MemRecords /\ file \subseteq Stored  BY <1>0, <1>t DEF TypeOK
    <2>1. CASE mem[p].op = "fetch"
      <3>1. PICK m : m = [mem[p] EXCEPT !.batch = file \cap due, !.todo = file \cap due]  OBVIOUS
      <3>2. m \in MemRecords  BY <2>0, <3>1 DEF MemRecords
      <3>3. mem' = [mem EXCEPT ![p] = m]  BY <1>6, <2>1, <3>1 DEF ReadQueue
      <3> QED  BY <1>2, <1>6, <3>2, <3>3 DEF ReadQueue
    <2>2. CASE mem[p].op # "fetch"
      <3>1. PICK m : m = [mem[p] EXCEPT !.copy = file]  OBVIOUS
      <3>2. m \in MemRecords  BY <2>0, <3>1 DEF MemRecords
      <3>3. mem' = [mem EXCEPT ![p] = m]  BY <1>6, <2>2, <3>1 DEF ReadQueue
      <3> QED  BY <1>2, <1>6, <3>2, <3>3 DEF ReadQueue
    <2> QED  BY <2>1, <2>2
  <1>7. CASE GetsOld \/ Suspend \/ BecomesDue \/ UNCHANGED vars
    BY <1>1, <1>7 DEF GetsOld, Suspend, BecomesDue, vars
  <1>8. ASSUME NEW p \in Processes, WriteQueue(p) PROVE Promise!Next
    BY <1>0, <1>8, WritePromise, OverwritePromise
  <1> QED
    BY <1>0, <1>3, <1>4, <1>5, <1>6, <1>7, <1>8, RunPromise DEF Next, Ask, Proceed

\* KeepsPromise: the files and locks implement JobQueue, whoever dies, gives up or stands
\* still, and whenever: in full until a live holder is robbed, and then what is left of it.
THEOREM ImplementsPromise == Spec => KeepsPromise
  <1>1. Init => Promise!Init  BY PromiseInit
  <1>2. IInv /\ [Next]_vars => [Promise!Next]_(Promise!vars)  BY PromiseStep
  <1> QED  BY <1>1, <1>2, Invariance, PTL DEF Spec, KeepsPromise, Promise!Spec

-----------------------------------------------------------------------------
(* Attempts, with one worker *)

OneWorker == \A v, w \in Workers : v = w

LEMMA BudgetInit == Init => BudgetInv
  <1> SUFFICES ASSUME Init PROVE BudgetInv  OBVIOUS
  <1>1. \A p \in Processes : mem[p].batch = {} /\ mem[p].todo = {}  BY DEF Init, Blank
  <1> QED  BY <1>1, QueueAssumption DEF Init, BudgetInv, Bounded

\* Jobs in a batch, and in the file, are jobs with natural attempts.
LEMMA StoredFacts ==
  ASSUME TypeOK, MInv
  PROVE  /\ \A r \in file : r.id \in Jobs /\ r.id \in known /\ r.attempts \in Nat /\ failures[r.id] \in Nat
         /\ \A p \in Processes : mem[p].todo \subseteq mem[p].batch
         /\ \A p \in Processes : \A r \in mem[p].batch :
               /\ r.id \in Jobs /\ r.id \in known /\ failures[r.id] \in Nat
               /\ r.attempts \in Nat /\ r.attempts < MaxAttempts
  <1>1. \A r \in Stored : r.id \in Jobs /\ r.attempts \in Nat /\ r.attempts < MaxAttempts
    BY TypeFacts DEF Stored
  <1>2. \A p \in Processes : mem[p].batch \subseteq Stored  BY TypeFacts DEF MemRecords
  <1>3. file \subseteq Stored /\ failures \in [Jobs -> Nat]  BY DEF TypeOK
  <1> QED  BY <1>1, <1>2, <1>3 DEF MInv, MemInv, IdsInv, BatchInv, Ids

\* A step that changes no batch, or empties one that is empty.
LEMMA BudgetQuiet ==
  ASSUME TypeOK, MInv, BudgetInv, UNCHANGED <<file, known, failures, faults>>,
         \A q \in Processes :
            \/ mem'[q].batch = mem[q].batch /\ mem'[q].todo = mem[q].todo /\ mem'[q].good = mem[q].good
            \/ mem'[q].batch = {} /\ mem'[q].todo = {} /\ mem[q].batch = {},
         \A q \in Processes : pc'[q] = "abort" => pc[q] = "abort"
  PROVE  BudgetInv'
  <1>1. Bounded'  BY DEF BudgetInv, Bounded
  <1>2. \A q \in Processes : \A r \in mem'[q].batch : r \in mem[q].batch /\ Spare(q, r)' = Spare(q, r)
    BY DEF Spare
  <1>3. \A q \in Processes : \A r \in mem'[q].todo : r \in mem[q].todo /\ mem'[q].good = mem[q].good
    OBVIOUS
  <1>4. \A q \in Processes : mem'[q].batch = mem[q].batch  OBVIOUS
  <1> QED  BY <1>1, <1>2, <1>3, <1>4 DEF BudgetInv

\* A fault by which nothing is forgotten.
LEMMA BudgetHolds ==
  ASSUME TypeOK, MInv, BudgetInv, UNCHANGED <<mem, file, known, failures>>, faults' = faults + 1
  PROVE  BudgetInv'
  <1>t. faults \in Nat /\ MaxAttempts \in Nat /\ failures \in [Jobs -> Nat]  BY TypeFacts
  <1>1. Bounded'  BY <1>t DEF BudgetInv, Bounded
  <1>2. ASSUME NEW q \in Processes, NEW r \in mem[q].batch
        PROVE  /\ failures[r.id] <= r.attempts + faults'
               /\ failures[r.id] <= r.attempts + faults' + Spare(q, r)'
    <2>1. failures[r.id] <= r.attempts + faults + Spare(q, r) /\ Spare(q, r)' = Spare(q, r)
      BY DEF BudgetInv, Spare
    <2>2. Spare(q, r) \in {0, 1} /\ r.attempts \in Nat /\ failures[r.id] \in Nat
      BY StoredFacts DEF Spare
    <2> QED  BY <1>t, <2>1, <2>2
  <1>3. ASSUME NEW r \in file
        PROVE  failures[r.id] <= r.attempts + faults' \/ \E q \in Processes : r \in mem[q].batch
    <2>1. r.attempts \in Nat /\ failures[r.id] \in Nat  BY StoredFacts
    <2> QED  BY <1>t, <2>1 DEF BudgetInv
  <1> QED  BY <1>1, <1>2, <1>3 DEF BudgetInv

\* What a process forgets by a fault, the fault makes up for.
LEMMA BudgetFault ==
  ASSUME TypeOK, MInv, BudgetInv, NEW p \in Processes, UNCHANGED <<file, known, failures>>,
         faults' = faults + 1, Forgets(p)
  PROVE  BudgetInv'
  <1>t. faults \in Nat /\ MaxAttempts \in Nat /\ failures \in [Jobs -> Nat]  BY TypeFacts
  <1>0. /\ mem'[p] = Blank /\ pc'[p] = "idle"
        /\ \A q \in Processes \ {p} : mem'[q] = mem[q] /\ pc'[q] = pc[q]
    BY Others DEF Forgets
  <1>b. Blank.batch = {} /\ Blank.todo = {}  BY DEF Blank
  <1>1. Bounded'  BY <1>t DEF BudgetInv, Bounded
  <1>2. \A q \in Processes : \A r \in mem'[q].batch : q # p /\ r \in mem[q].batch /\ Spare(q, r)' = Spare(q, r)
    BY <1>0, <1>b DEF Spare
  <1>3. ASSUME NEW q \in Processes, NEW r \in mem'[q].batch
        PROVE  failures'[r.id] <= r.attempts + faults' + Spare(q, r)'
    <2>1. failures[r.id] <= r.attempts + faults + Spare(q, r)  BY <1>2 DEF BudgetInv
    <2>2. Spare(q, r) \in {0, 1}  BY DEF Spare
    <2>3. r.attempts \in Nat /\ failures[r.id] \in Nat  BY <1>2, StoredFacts
    <2> QED  BY <1>2, <1>t, <2>1, <2>2, <2>3
  <1>4. ASSUME NEW r \in file
        PROVE  failures[r.id] <= r.attempts + faults' \/ \E q \in Processes : r \in mem'[q].batch
    <2>0. r.attempts \in Nat /\ failures[r.id] \in Nat  BY StoredFacts
    <2>1. CASE failures[r.id] <= r.attempts + faults  BY <1>t, <2>0, <2>1
    <2>2. ASSUME NEW q \in Processes, r \in mem[q].batch PROVE <1>4!2
      <3>1. failures[r.id] <= r.attempts + faults + Spare(q, r) /\ Spare(q, r) \in {0, 1}
        BY <2>2 DEF BudgetInv, Spare
      <3>2. failures[r.id] <= r.attempts + faults'  BY <1>t, <2>0, <3>1
      <3> QED  BY <3>2
    <2> QED  BY <2>1, <2>2 DEF BudgetInv
  <1>5. \A q \in Processes : \A r \in mem'[q].todo : q # p  BY <1>0, <1>b
  <1>6. ASSUME NEW q \in Processes, NEW r \in mem'[q].batch, pc'[q] = "abort"
        PROVE  failures[r.id] <= r.attempts + faults'
    <2>1. failures[r.id] <= r.attempts + faults  BY <1>0, <1>2, <1>6 DEF BudgetInv
    <2>2. r.attempts \in Nat /\ failures[r.id] \in Nat  BY <1>2, StoredFacts
    <2> QED  BY <1>t, <2>1, <2>2
  <1> QED  BY <1>0, <1>1, <1>2, <1>3, <1>4, <1>5, <1>6 DEF BudgetInv

\* What a process forgets that gives up, the failure of its token has made up for.
LEMMA BudgetGivesUp ==
  ASSUME TypeOK, MInv, BudgetInv, NEW p \in Processes, GivesUp(p)
  PROVE  BudgetInv'
  <1>0. /\ mem'[p] = Blank /\ pc'[p] = "idle"
        /\ \A q \in Processes \ {p} : mem'[q] = mem[q] /\ pc'[q] = pc[q]
    BY Others DEF GivesUp, Forgets
  <1>b. Blank.batch = {} /\ Blank.todo = {}  BY DEF Blank
  <1>u. UNCHANGED <<file, known, failures, faults>> /\ pc[p] = "abort"  BY DEF GivesUp, At, hist
  <1>1. Bounded'  BY <1>u DEF BudgetInv, Bounded
  <1>2. \A q \in Processes : \A r \in mem'[q].batch : q # p /\ r \in mem[q].batch /\ Spare(q, r)' = Spare(q, r)
    BY <1>0, <1>b DEF Spare
  <1>3. ASSUME NEW r \in file
        PROVE  failures[r.id] <= r.attempts + faults \/ \E q \in Processes : r \in mem'[q].batch
    <2>1. r \in mem[p].batch => failures[r.id] <= r.attempts + faults  BY <1>u DEF BudgetInv
    <2> QED  BY <1>0, <2>1 DEF BudgetInv
  <1>4. \A q \in Processes : \A r \in mem'[q].todo : q # p  BY <1>0, <1>b
  <1>5. \A q \in Processes : pc'[q] = "abort" =>
          \A r \in mem'[q].batch : failures[r.id] <= r.attempts + faults
    BY <1>0, <1>2 DEF BudgetInv
  <1> QED  BY <1>0, <1>u, <1>1, <1>2, <1>3, <1>4, <1>5 DEF BudgetInv

LEMMA BudgetRead ==
  ASSUME OneWorker, TypeOK, MInv, BudgetInv, NEW p \in Processes, ReadQueue(p)
  PROVE  BudgetInv'
  <1>t. mem \in [Processes -> MemRecords] /\ faults \in Nat  BY TypeFacts
  <1>0. UNCHANGED <<file, known, failures, faults>> /\ pc[p] = "locked"  BY DEF ReadQueue, hist, At
  <1>a. \A q \in Processes : pc'[q] = "abort" => pc[q] = "abort" /\ q # p
    BY TypeFacts DEF ReadQueue, Goto
  <1>1. CASE mem[p].op # "fetch"
    <2>1. \A q \in Processes : mem'[q].batch = mem[q].batch /\ mem'[q].todo = mem[q].todo
                                  /\ mem'[q].good = mem[q].good
      BY <1>1, <1>t DEF ReadQueue, MemRecords
    <2> QED  BY <1>0, <1>a, <2>1, BudgetQuiet
  <1>2. CASE mem[p].op = "fetch"
    <2>1. /\ mem'[p].batch = file \cap due /\ mem'[p].todo = file \cap due /\ mem'[p].good = mem[p].good
          /\ \A q \in Processes \ {p} : mem'[q] = mem[q]
      BY <1>2, <1>t DEF ReadQueue, MemRecords
    <2>2. mem[p].batch = {} /\ mem[p].good = {} /\ p \in Workers
      BY <1>0, <1>2 DEF MInv, MemInv, Acquiring
    <2>3. \A q \in Processes : mem[q].batch = {}  BY <2>2 DEF MInv, MemInv, OneWorker
    <2>4. \A r \in file : failures[r.id] <= r.attempts + faults  BY <2>3 DEF BudgetInv
    <2>5. \A q \in Processes \ {p} : mem'[q].batch = {} /\ mem'[q].todo = {}
      BY <2>1, <2>3 DEF MInv, MemInv
    <2>6. \A r \in mem'[p].batch : Spare(p, r)' = 0 /\ r \in file  BY <2>1 DEF Spare
    <2>7. \A q \in Processes : \A r \in mem'[q].batch : failures'[r.id] <= r.attempts + faults' + Spare(q, r)'
      <3> SUFFICES ASSUME NEW q \in Processes, NEW r \in mem'[q].batch
                   PROVE  failures'[r.id] <= r.attempts + faults' + Spare(q, r)'
        OBVIOUS
      <3>1. q = p  BY <2>5
      <3>2. r \in file /\ Spare(q, r)' = 0  BY <2>6, <3>1
      <3>3. r.attempts \in Nat /\ failures[r.id] <= r.attempts + faults  BY <2>4, <3>2, StoredFacts
      <3> QED  BY <1>0, <1>t, <3>2, <3>3
    <2>8. Bounded'  BY <1>0 DEF BudgetInv, Bounded
    <2> QED  BY <1>0, <1>a, <2>1, <2>2, <2>4, <2>5, <2>6, <2>7, <2>8 DEF BudgetInv
  <1> QED  BY <1>1, <1>2

LEMMA BudgetRun ==
  ASSUME OneWorker, TypeOK, MInv, BudgetInv, NEW p \in Processes, RunSucceeds(p) \/ RunThrows(p)
  PROVE  BudgetInv'
  <1>t. mem \in [Processes -> MemRecords] /\ faults \in Nat /\ failures \in [Jobs -> Nat]
        /\ MaxAttempts \in Nat
    BY TypeFacts
  <1>0. UNCHANGED <<file, known, faults, pc>> /\ pc[p] = "run"  BY DEF RunSucceeds, RunThrows, At
  <1>w. \A q \in Processes : mem[p].todo # {} /\ mem[q].batch # {} => q = p
    BY DEF MInv, MemInv, OneWorker
  <1>1. CASE RunSucceeds(p)
    <2>1. PICK r \in mem[p].todo : mem' = [mem EXCEPT ![p].todo = @ \ {r}, ![p].good = @ \cup {r.id}]
      BY <1>1 DEF RunSucceeds
    <2>2. /\ mem'[p].batch = mem[p].batch /\ mem'[p].todo = mem[p].todo \ {r}
          /\ mem'[p].good = mem[p].good \cup {r.id}
          /\ \A q \in Processes \ {p} : mem'[q] = mem[q]
      BY <2>1, <1>t DEF MemRecords
    <2>3. r \in mem[p].batch /\ \A s \in mem[p].batch : s.id = r.id => s = r
      BY StoredFacts DEF BudgetInv
    <2>4. \A q \in Processes : \A s \in mem'[q].batch : s \in mem[q].batch /\ Spare(q, s)' = Spare(q, s)
      BY <2>2, <2>3 DEF Spare
    <2>5. \A s \in mem'[p].todo : s.id \notin mem'[p].good
      BY <2>2, <2>3, StoredFacts DEF BudgetInv
    <2>6. UNCHANGED failures /\ Bounded'
      BY <1>1, <1>0 DEF RunSucceeds, BudgetInv, Bounded
    <2> QED  BY <1>0, <2>2, <2>4, <2>5, <2>6 DEF BudgetInv
  <1>2. CASE RunThrows(p)
    <2>1. PICK r \in mem[p].todo : mem' = [mem EXCEPT ![p].todo = @ \ {r}]
                                   /\ failures' = [failures EXCEPT ![r.id] = @ + 1]
      BY <1>2 DEF RunThrows
    <2>2. /\ mem'[p].batch = mem[p].batch /\ mem'[p].todo = mem[p].todo \ {r}
          /\ mem'[p].good = mem[p].good
          /\ \A q \in Processes \ {p} : mem'[q] = mem[q]
      BY <2>1, <1>t DEF MemRecords
    <2>3. r \in mem[p].batch /\ \A s \in mem[p].batch : s.id = r.id => s = r
      BY StoredFacts DEF BudgetInv
    <2>4. r.id \in Jobs /\ r.id \in known /\ r.attempts \in Nat /\ r.attempts + 1 <= MaxAttempts
      BY <1>t, <2>3, StoredFacts
    <2>5. failures[r.id] <= r.attempts + faults
      <3>1. Spare(p, r) = 0  BY DEF Spare
      <3> QED  BY <1>t, <2>3, <2>4, <3>1 DEF BudgetInv
    <2>6. /\ failures'[r.id] = failures[r.id] + 1
          /\ \A j \in Jobs \ {r.id} : failures'[j] = failures[j]
      BY <2>1, <2>4, <1>t
    <2>7. Bounded'
      <3>1. failures'[r.id] <= MaxAttempts + faults  BY <1>t, <2>4, <2>5, <2>6
      <3>2. \A j \in Jobs : failures'[j] <= MaxAttempts + faults
        BY <2>6, <3>1 DEF BudgetInv, Bounded
      <3> QED  BY <1>0, <3>2 DEF Bounded
    <2>8. \A j \in Jobs \ known' : failures'[j] = 0  BY <1>0, <2>4, <2>6 DEF BudgetInv
    <2>9. ASSUME NEW q \in Processes, NEW s \in mem'[q].batch
          PROVE  failures'[s.id] <= s.attempts + faults' + Spare(q, s)'
      <3>1. q = p /\ s \in mem[p].batch  BY <1>w, <2>1, <2>2
      <3>2. CASE s = r
        <4>1. r.id \notin mem[p].good  BY DEF BudgetInv
        <4>2. Spare(p, r)' = 1  BY <2>2, <4>1 DEF Spare
        <4> QED  BY <1>0, <1>t, <2>4, <2>5, <2>6, <3>1, <3>2, <4>2
      <3>3. CASE s # r
        <4>1. s.id # r.id /\ s.id \in Jobs  BY <2>3, <3>1, <3>3, StoredFacts
        <4>2. Spare(p, s)' = Spare(p, s)  BY <2>2, <3>3 DEF Spare
        <4> QED  BY <1>0, <2>6, <3>1, <4>1, <4>2 DEF BudgetInv
      <3> QED  BY <3>2, <3>3
    <2>10. ASSUME NEW s \in file
           PROVE  failures'[s.id] <= s.attempts + faults \/ \E q \in Processes : s \in mem'[q].batch
      <3>1. CASE s.id = r.id
        <4>1. s = r  BY <2>3, <3>1 DEF BudgetInv
        <4> QED  BY <2>2, <2>3, <4>1
      <3>2. CASE s.id # r.id
        <4>1. failures'[s.id] = failures[s.id]  BY <2>6, <3>2, StoredFacts
        <4>2. \A q \in Processes : mem'[q].batch = mem[q].batch  BY <2>2
        <4> QED  BY <4>1, <4>2 DEF BudgetInv
      <3> QED  BY <3>1, <3>2
    <2>11. \A q \in Processes : mem'[q].batch = mem[q].batch /\ mem'[q].todo \subseteq mem[q].todo
                                 /\ mem'[q].good = mem[q].good
      BY <2>2
    <2>12. \A q \in Processes : \A s \in mem'[q].batch : pc'[q] # "abort"
      BY <1>0, <1>w, <2>1, <2>11
    <2> QED  BY <1>0, <2>7, <2>8, <2>9, <2>10, <2>11, <2>12 DEF BudgetInv
  <1> QED  BY <1>1, <1>2

\* A write by a process without a batch adds at most a new job that has not failed.
LEMMA BudgetAsk ==
  ASSUME TypeOK, MInv, BudgetInv, NEW p \in Processes, WriteQueue(p), ~robbed, mem[p].batch = {}
  PROVE  BudgetInv'
  <1>t. faults \in Nat  BY TypeFacts
  <1>1. /\ mem'[p] = Blank /\ (\A q \in Processes \ {p} : mem'[q] = mem[q] /\ pc'[q] = pc[q])
        /\ UNCHANGED <<faults, failures>> /\ known' = known \cup Ids(file')
        /\ mem[p].op \in {"enqueue", "purge", "settle"} /\ Copy(p) = file
    BY WriteFacts
  <1>2. ASSUME NEW r \in file', r \notin file
        PROVE  /\ r.id \notin known /\ r.attempts = 0 /\ failures[r.id] = 0
               /\ \A s \in file' : s.id = r.id => s = r
    <2>1. CASE mem[p].op = "enqueue"
      <3>1. PICK j \in Jobs \ known : file' = file \cup {[id |-> j, attempts |-> 0]}
        BY <1>1, <2>1, EnqueueWrites
      <3>2. PICK n : n = [id |-> j, attempts |-> 0]  OBVIOUS
      <3>3. n.id = j /\ n.attempts = 0 /\ file' = file \cup {n}  BY <3>1, <3>2
      <3>4. r = n  BY <1>2, <3>3
      <3>5. failures[j] = 0  BY DEF BudgetInv
      <3>6. \A s \in file : s.id \in known  BY StoredFacts
      <3> QED  BY <3>3, <3>4, <3>5, <3>6
    <2>2. CASE mem[p].op = "purge"  BY <1>1, <1>2, <2>2, PurgeWrites
    <2>3. CASE mem[p].op = "settle"
      <3>1. Retries(p) = {} /\ Ids(mem[p].batch) = {}  BY DEF Retries, Thrown, Ids
      <3>2. file' = file  BY <1>1, <2>3, <3>1, WriteFacts DEF Updated, Settled
      <3> QED  BY <1>2, <3>2
    <2> QED  BY <1>1, <2>1, <2>2, <2>3
  <1>3. Blank.batch = {} /\ Blank.todo = {} /\ mem[p].todo = {}  BY StoredFacts DEF Blank
  <1>4. \A q \in Processes : mem'[q].batch = mem[q].batch  BY <1>1, <1>3
  <1>5. \A q \in Processes : \A r \in mem'[q].batch : q # p /\ Spare(q, r)' = Spare(q, r) /\ r.id \in known
    BY <1>1, <1>3, StoredFacts DEF Spare
  <1>6. Bounded'  BY <1>1 DEF BudgetInv, Bounded
  <1>7. \A j \in Jobs \ known' : failures'[j] = 0  BY <1>1 DEF BudgetInv
  <1>8. \A r, s \in file' : r.id = s.id => r = s
    <2> SUFFICES ASSUME NEW r \in file', NEW s \in file', r.id = s.id PROVE r = s  OBVIOUS
    <2> QED  BY <1>2 DEF BudgetInv
  <1>9. ASSUME NEW q \in Processes, NEW r \in mem'[q].batch, NEW s \in file', r.id = s.id PROVE r = s
    <2>1. r \in mem[q].batch /\ r.id \in known  BY <1>4, <1>5
    <2>2. s \in file  BY <1>2, <1>9, <2>1
    <2> QED  BY <1>9, <2>1, <2>2 DEF BudgetInv
  <1>10. ASSUME NEW r \in file'
         PROVE  failures'[r.id] <= r.attempts + faults' \/ \E q \in Processes : r \in mem'[q].batch
    <2>1. CASE r \in file  BY <1>1, <1>4, <2>1 DEF BudgetInv
    <2>2. CASE r \notin file  BY <1>1, <1>2, <1>t, <2>2
    <2> QED  BY <2>1, <2>2
  <1>11. \A q \in Processes : \A r \in mem'[q].todo : r.id \notin mem'[q].good
    BY <1>1, <1>3 DEF BudgetInv
  <1>12. \A q \in Processes : \A r, s \in mem'[q].batch : r.id = s.id => r = s
    BY <1>4 DEF BudgetInv
  <1>13. \A q \in Processes : \A r \in mem'[q].batch : failures'[r.id] <= r.attempts + faults' + Spare(q, r)'
    BY <1>1, <1>4, <1>5 DEF BudgetInv
  <1>14. \A q \in Processes : pc'[q] = "abort" =>
           \A r \in mem'[q].batch : failures'[r.id] <= r.attempts + faults'
    BY <1>1, <1>4, <1>5 DEF BudgetInv
  <1> QED  BY <1>6, <1>7, <1>8, <1>9, <1>10, <1>11, <1>12, <1>13, <1>14 DEF BudgetInv

\* A settlement counts the failures of its batch, which is the only one.
LEMMA BudgetSettle ==
  ASSUME OneWorker, TypeOK, MInv, BudgetInv, NEW p \in Processes, WriteQueue(p), ~robbed,
         mem[p].batch # {}
  PROVE  BudgetInv'
  <1>t. faults \in Nat /\ mem[p].batch \subseteq Stored  BY TypeFacts DEF MemRecords
  <1>1. /\ mem'[p] = Blank /\ (\A q \in Processes \ {p} : mem'[q] = mem[q])
        /\ UNCHANGED <<faults, failures>> /\ known' = known \cup Ids(file')
        /\ mem[p].op \in {"enqueue", "purge", "settle"} /\ Copy(p) = file /\ file' = Updated(p)
    BY WriteFacts
  <1>2. mem[p].op = "settle" /\ p \in Workers  BY <1>1 DEF MInv, MemInv
  <1>3. \A q \in Processes \ {p} : mem[q].batch = {} /\ mem[q].todo = {}
    BY <1>2 DEF MInv, MemInv, OneWorker
  <1>4. \A q \in Processes : mem'[q].batch = {} /\ mem'[q].todo = {}  BY <1>1, <1>3 DEF Blank
  <1>5. ASSUME NEW r \in Retries(p)
        PROVE  /\ r.id \in Ids(mem[p].batch) /\ failures[r.id] <= r.attempts + faults
               /\ \A s \in Retries(p) : s.id = r.id => s = r
    <2>1. \A s \in Retries(p) : \E t \in mem[p].batch : s = Counted(t) /\ s.id = t.id /\ s.attempts = t.attempts + 1
      <3> SUFFICES ASSUME NEW s \in Retries(p)
                   PROVE  \E t \in mem[p].batch : s = Counted(t) /\ s.id = t.id /\ s.attempts = t.attempts + 1
        OBVIOUS
      <3>1. PICK t \in mem[p].batch : s = Counted(t)  BY DEF Retries, Thrown
      <3> QED  BY <1>t, <3>1 DEF Counted, Stored
    <2>2. PICK t \in mem[p].batch : r = Counted(t) /\ r.id = t.id /\ r.attempts = t.attempts + 1  BY <2>1
    <2>3. t.attempts \in Nat /\ failures[t.id] \in Nat  BY StoredFacts
    <2>4. failures[t.id] <= t.attempts + faults + Spare(p, t) /\ Spare(p, t) \in {0, 1}
      BY DEF BudgetInv, Spare
    <2>5. ASSUME NEW s \in Retries(p), s.id = r.id PROVE s = r
      <3>1. PICK u \in mem[p].batch : s = Counted(u) /\ s.id = u.id  BY <2>1
      <3>2. u = t  BY <2>2, <2>5, <3>1 DEF BudgetInv
      <3> QED  BY <2>2, <3>1, <3>2
    <2>6. failures[t.id] <= t.attempts + 1 + faults  BY <1>t, <2>3, <2>4
    <2>7. t.id \in Ids(mem[p].batch)  BY DEF Ids
    <2>8. failures[r.id] <= r.attempts + faults  BY <2>2, <2>6
    <2> QED  BY <2>2, <2>5, <2>7, <2>8
  <1>6. \A r \in file' : r \in Retries(p) \/ (r \in file /\ r.id \notin Ids(mem[p].batch))
    BY <1>1, <1>2 DEF Updated, Settled
  <1>7. Bounded'  BY <1>1 DEF BudgetInv, Bounded
  <1>8. \A j \in Jobs \ known' : failures'[j] = 0  BY <1>1 DEF BudgetInv
  <1>9. \A r, s \in file' : r.id = s.id => r = s
    <2> SUFFICES ASSUME NEW r \in file', NEW s \in file', r.id = s.id PROVE r = s  OBVIOUS
    <2> QED  BY <1>5, <1>6 DEF BudgetInv
  <1>10. ASSUME NEW r \in file' PROVE failures'[r.id] <= r.attempts + faults'
    <2>1. CASE r \in Retries(p)  BY <1>1, <1>5, <2>1
    <2>2. CASE r \in file /\ r.id \notin Ids(mem[p].batch)
      <3>1. \A q \in Processes : r \notin mem[q].batch  BY <1>3, <2>2 DEF Ids
      <3> QED  BY <1>1, <2>2, <3>1 DEF BudgetInv
    <2> QED  BY <1>6, <2>1, <2>2
  <1> QED  BY <1>4, <1>7, <1>8, <1>9, <1>10 DEF BudgetInv

LEMMA BudgetStep ==
  ASSUME OneWorker
  PROVE  IInv /\ (~robbed => BudgetInv) /\ [Next]_vars => (~robbed => BudgetInv)'
  <1> SUFFICES ASSUME IInv, ~robbed => BudgetInv, [Next]_vars, ~robbed' PROVE BudgetInv'  OBVIOUS
  <1>0. TypeOK /\ LockInv /\ MInv /\ ~robbed /\ BudgetInv  BY Robbery DEF IInv
  <1>t. mem \in [Processes -> MemRecords] /\ None \notin Processes  BY <1>0, TypeFacts
  <1>b. Blank.batch = {} /\ Blank.todo = {}  BY DEF Blank
  <1>g. ASSUME NEW p \in Processes, \E s \in Pcs \ {"abort"} : pc' = [pc EXCEPT ![p] = s]
        PROVE  \A q \in Processes : pc'[q] = "abort" => pc[q] = "abort"
    BY <1>0, <1>g, TypeFacts
  <1>1. ASSUME UNCHANGED <<mem, file, known, failures, faults>>,
               \A q \in Processes : pc'[q] = "abort" => pc[q] = "abort"
        PROVE  BudgetInv'
    BY <1>0, <1>1, BudgetQuiet
  <1>2. ASSUME NEW p \in Processes, NEW m, UNCHANGED <<file, known, failures, faults>>,
               mem' = [mem EXCEPT ![p] = m], mem[p].batch = {}, m.batch = {}, m.todo = {},
               \A q \in Processes : pc'[q] = "abort" => pc[q] = "abort"
        PROVE  BudgetInv'
    <2>1. mem'[p] = m /\ \A q \in Processes \ {p} : mem'[q] = mem[q]  BY <1>2, <1>t
    <2> QED  BY <1>0, <1>2, <2>1, BudgetQuiet
  <1>3. ASSUME NEW p \in Processes,
               \/ Mkdir(p) \/ WriteToken(p) \/ Judge(p) \/ Reclaim(p) \/ CheckToken(p) \/ RemoveLock(p)
        PROVE  BudgetInv'
    <2>1. UNCHANGED <<mem, file, known, failures, faults>>
      BY <1>3 DEF Mkdir, WriteToken, Judge, Reclaim, CheckToken, RemoveLock, hist
    <2>2. \E s \in Pcs \ {"abort"} : pc' = [pc EXCEPT ![p] = s]
      BY <1>3 DEF Mkdir, WriteToken, Judge, Reclaim, CheckToken, RemoveLock, Goto, Pcs
    <2> QED  BY <1>1, <1>g, <2>1, <2>2
  <1>4. ASSUME NEW p \in Processes, TokenFails(p) PROVE BudgetInv'
    <2>1. Locked  BY <1>0, <1>4, <1>t DEF TokenFails, At, LockInv, Holding, Locked
    <2>2. UNCHANGED <<mem, file, known, failures>> /\ faults' = faults + 1
      BY <1>4, <2>1 DEF TokenFails, Fault, hist
    <2> QED  BY <1>0, <2>2, BudgetHolds
  <1>5. CASE Suspend
    <2>1. UNCHANGED <<mem, file, known, failures>> /\ faults' = faults + 1
      BY <1>5 DEF Suspend, Fault, hist
    <2> QED  BY <1>0, <2>1, BudgetHolds
  <1>6. ASSUME NEW p \in Processes, Enqueue(p) \/ Purge(p) \/ Fetch(p) PROVE BudgetInv'
    <2>1. mem[p].batch = {}
      BY <1>0, <1>6 DEF Enqueue, Purge, Fetch, At, MInv, MemInv
    <2>2. UNCHANGED <<file, known, failures, faults>>  BY <1>6 DEF Enqueue, Purge, Fetch, hist
    <2>a. \A q \in Processes : pc'[q] = "abort" => pc[q] = "abort"
      BY <1>6, <1>g DEF Enqueue, Purge, Fetch, Wants, Pcs
    <2>3. CASE Enqueue(p)
      <3>1. PICK j \in Jobs : mem' = [mem EXCEPT ![p] = [Blank EXCEPT !.op = "enqueue", !.ids = {j}]]
        BY <1>0, <2>3, FreshIds DEF Enqueue, Wants
      <3>2. PICK m : m = [Blank EXCEPT !.op = "enqueue", !.ids = {j}]  OBVIOUS
      <3>3. m.batch = {} /\ m.todo = {}  BY <3>2 DEF Blank
      <3> QED  BY <1>2, <2>1, <2>2, <2>a, <3>1, <3>2, <3>3
    <2>4. CASE Purge(p)
      <3>1. PICK scope \in Scopes : mem' = [mem EXCEPT ![p] = [Blank EXCEPT !.op = "purge", !.ids = scope]]
        BY <2>4 DEF Purge, Wants
      <3>2. PICK m : m = [Blank EXCEPT !.op = "purge", !.ids = scope]  OBVIOUS
      <3>3. m.batch = {} /\ m.todo = {}  BY <3>2 DEF Blank
      <3> QED  BY <1>2, <2>1, <2>2, <2>a, <3>1, <3>2, <3>3
    <2>5. CASE Fetch(p)
      <3>1. PICK m : m = [Blank EXCEPT !.op = "fetch"]  OBVIOUS
      <3>2. m.batch = {} /\ m.todo = {}  BY <3>1 DEF Blank
      <3>3. mem' = [mem EXCEPT ![p] = m]  BY <2>5, <3>1 DEF Fetch, Wants
      <3> QED  BY <1>2, <2>1, <2>2, <2>a, <3>2, <3>3
    <2> QED  BY <1>6, <2>3, <2>4, <2>5
  <1>7. ASSUME NEW p \in Processes, Settle(p) PROVE BudgetInv'
    <2>1. PICK m : m = [mem[p] EXCEPT !.op = "settle"]  OBVIOUS
    <2>2. m.batch = mem[p].batch /\ m.todo = mem[p].todo /\ m.good = mem[p].good
      BY <1>t, <2>1 DEF MemRecords
    <2>3. mem'[p] = m /\ \A q \in Processes \ {p} : mem'[q] = mem[q]
      BY <1>7, <1>t, <2>1 DEF Settle, Wants
    <2>4. UNCHANGED <<file, known, failures, faults>>  BY <1>7 DEF Settle, hist
    <2>5. \A q \in Processes : pc'[q] = "abort" => pc[q] = "abort"
      BY <1>7, <1>g DEF Settle, Wants, Pcs
    <2> QED  BY <1>0, <2>2, <2>3, <2>4, <2>5, BudgetQuiet
  <1>8. ASSUME NEW p \in Processes, Returns(p) PROVE BudgetInv'
    <2>1. \A q \in Processes : pc'[q] = "abort" => pc[q] = "abort"
      BY <1>8, <1>g DEF Returns, Forgets, Pcs
    <2> QED  BY <1>2, <1>8, <1>b, <2>1 DEF Returns, Forgets, hist
  <1>9. ASSUME NEW p \in Processes, TimesOut(p) \/ Crash(p) PROVE BudgetInv'
    <2>1. UNCHANGED <<file, known, failures>> /\ faults' = faults + 1 /\ Forgets(p)
      BY <1>9 DEF TimesOut, Crash, Fault, hist
    <2> QED  BY <1>0, <2>1, BudgetFault
  <1>10. ASSUME NEW p \in Processes, ReadQueue(p) PROVE BudgetInv'
    BY <1>0, <1>10, BudgetRead
  <1>11. ASSUME NEW p \in Processes, WriteQueue(p) PROVE BudgetInv'
    BY <1>0, <1>11, BudgetAsk, BudgetSettle
  <1>12. ASSUME NEW p \in Processes, RunSucceeds(p) \/ RunThrows(p) PROVE BudgetInv'
    BY <1>0, <1>12, BudgetRun
  <1>13. ASSUME NEW p \in Processes, GivesUp(p) PROVE BudgetInv'
    BY <1>0, <1>13, BudgetGivesUp
  <1>14. CASE GetsOld \/ BecomesDue \/ UNCHANGED vars
    BY <1>1, <1>14 DEF GetsOld, BecomesDue, vars, hist
  <1> QED
    BY <1>3, <1>4, <1>5, <1>6, <1>7, <1>8, <1>9, <1>10, <1>11, <1>12, <1>13, <1>14
    DEF Next, Ask, Proceed

\* AttemptsAreCounted: with one worker no job fails more often than the queue makes attempts,
\* but for one time per fault, however enqueues, purges and settlements of the same file
\* interleave, until a live holder is robbed of its lock.
THEOREM AttemptsAreBounded == ASSUME OneWorker PROVE Spec => []AttemptsAreCounted
  <1>1. Init => (~robbed => BudgetInv)  BY BudgetInit
  <1>2. IInv /\ (~robbed => BudgetInv) /\ [Next]_vars => (~robbed => BudgetInv)'  BY BudgetStep
  <1>3. (~robbed => BudgetInv) => AttemptsAreCounted  BY DEF BudgetInv, Bounded, AttemptsAreCounted
  <1> QED  BY <1>1, <1>2, <1>3, Invariance, PTL DEF Spec
=============================================================================
