----------------------------- MODULE LocalQueue -----------------------------
(***************************************************************************)
(* The file-based queue: several processes share queue.json and guard each *)
(* read and rewrite of it by a lock, the directory queue.lock.             *)
(*                                                                         *)
(* A process makes the directory, writes its token into it, reads the      *)
(* file, replaces it, and removes the directory if the token in it is      *)
(* still its own.  A process that dies leaves the directory behind;        *)
(* whoever finds it older than fifteen seconds moves it aside -- or moves  *)
(* aside the one that was made in the meantime.  A worker reads the due    *)
(* jobs under the lock, runs them without it, and settles them under it    *)
(* again, on a fresh copy of the file.                                     *)
(*                                                                         *)
(* A process stands for one queue instance, whose own operations are       *)
(* serialised.  Left out are payloads and the order of jobs, batches with  *)
(* a limit, the counters of state.json, file watching, files that cannot   *)
(* be read or parsed, and a purge by the worker (which spares the jobs it  *)
(* runs).                                                                  *)
(***************************************************************************)
EXTENDS Naturals, FiniteSets

CONSTANTS
    Producers,   \* processes that enqueue and purge
    Workers,     \* processes that run jobs
    Jobs,        \* ids a producer may generate
    Scopes,      \* sets of jobs a purge may be for; clear() is for all of them
    MaxAttempts, \* attempts at a job; three in the code
    Faults,      \* which kinds of fault may happen, a subset of FaultKinds
    MaxFaults,   \* bound on faults
    MaxRequests  \* bound on enqueues and purges

\* "token": the token cannot be written; "suspend": a holder stands still for so long
\* that its lock gets old.
FaultKinds == {"crash", "timeout", "token", "suspend"}
None == "none"

ASSUME QueueAssumption ==
    /\ Producers \cap Workers = {} /\ None \notin Producers \cup Workers
    /\ Scopes \subseteq SUBSET Jobs
    /\ Faults \subseteq FaultKinds
    /\ MaxAttempts \in Nat \ {0} /\ MaxFaults \in Nat /\ MaxRequests \in Nat

Processes == Producers \cup Workers

VARIABLES
    lock,     \* the lock directory: who made it, whose token is in it, whether it is old
    file,     \* queue.json
    due,      \* jobs, with their number of attempts, whose availableAt has passed
    pc, mem,  \* where each process stands, and what it remembers
    used,     \* ids generated so far
    faults, requests,
    known,    \* history: jobs that were ever queued
    worked,   \* history: jobs a run of which succeeded
    failures, \* history: failed runs of each job
    robbed    \* history: the lock of a live holder was moved aside

hist == <<known, worked, failures, robbed>>
vars == <<lock, file, due, pc, mem, used, faults, requests, hist>>

Stored == [id : Jobs, attempts : 0..(MaxAttempts - 1)]
Ids(jobs) == {r.id : r \in jobs}
NoLock == [by |-> None, token |-> None, stale |-> FALSE]
Locked == lock.by # None

Ops == {"none", "enqueue", "purge", "fetch", "settle"}
Pcs == {"idle", "want", "reclaim", "made", "abort", "locked", "write", "check", "remove", "run"}
Holding == {"made", "abort", "locked", "write", "check", "remove"}
Blank == [op |-> "none",  \* what the process wants the lock for
          ids |-> {},     \* the job it enqueues, or the scope it purges
          copy |-> {},    \* the file as it read it last
          batch |-> {},   \* the jobs it fetched
          todo |-> {},    \* those it has not yet run
          good |-> {}]    \* those that succeeded

Init ==
    /\ lock = NoLock /\ file = {} /\ due = {}
    /\ pc = [p \in Processes |-> "idle"]
    /\ mem = [p \in Processes |-> Blank]
    /\ used = {} /\ faults = 0 /\ requests = 0
    /\ known = {} /\ worked = {} /\ robbed = FALSE
    /\ failures = [j \in Jobs |-> 0]

Fault(kind) == kind \in Faults /\ faults < MaxFaults /\ faults' = faults + 1
At(p, state) == pc[p] = state
Goto(p, state) == pc' = [pc EXCEPT ![p] = state]
Wants(p, memory) == pc' = [pc EXCEPT ![p] = "want"] /\ mem' = [mem EXCEPT ![p] = memory]
Forgets(p) == pc' = [pc EXCEPT ![p] = "idle"] /\ mem' = [mem EXCEPT ![p] = Blank]

-----------------------------------------------------------------------------
(***************************************************************************)
(* The operations, up to the lock.                                         *)
(***************************************************************************)
\* Ids are random: which of the unused ones a job gets makes no difference.
Fresh == IF used = Jobs THEN {} ELSE {CHOOSE j \in Jobs : j \notin used}

\* enqueue; BecomesDue makes the job due, at once or after its delay.
Enqueue(p) == \E j \in Fresh :
    /\ p \in Producers /\ At(p, "idle")
    /\ requests < MaxRequests /\ requests' = requests + 1
    /\ used' = used \cup {j}
    /\ Wants(p, [Blank EXCEPT !.op = "enqueue", !.ids = {j}])
    /\ UNCHANGED <<lock, file, due, faults, hist>>

\* clear and removeQueuedJobsByScope.
Purge(p) == \E scope \in Scopes :
    /\ p \in Producers /\ At(p, "idle")
    /\ requests < MaxRequests /\ requests' = requests + 1
    /\ Wants(p, [Blank EXCEPT !.op = "purge", !.ids = scope])
    /\ UNCHANGED <<lock, file, due, used, faults, hist>>

\* processBatch, called by a timer or a watcher.
Fetch(p) ==
    /\ p \in Workers /\ At(p, "idle")
    /\ Wants(p, [Blank EXCEPT !.op = "fetch"])
    /\ UNCHANGED <<lock, file, due, used, faults, requests, hist>>

-----------------------------------------------------------------------------
(***************************************************************************)
(* acquireDirectoryLock                                                    *)
(***************************************************************************)
\* Mutant: mkdir with "recursive" does not fail when the directory exists.
Recursive(p) == At(p, "want")

Makable(p) == At(p, "want") /\ ~Locked

Mkdir(p) ==
    /\ Makable(p)
    /\ lock' = [NoLock EXCEPT !.by = p]
    /\ Goto(p, "made")
    /\ UNCHANGED <<file, due, mem, used, faults, requests, hist>>

\* The token goes into whatever directory is there; a new file makes it young again.  A
\* token is fresh in each acquisition; here it names the process, which has one at a time.
WriteToken(p) ==
    /\ At(p, "made")
    /\ Locked
    /\ lock' = [lock EXCEPT !.token = p, !.stale = @ /\ lock.token # None]
    /\ Goto(p, "locked")
    /\ UNCHANGED <<file, due, mem, used, faults, requests, hist>>

\* It cannot be written, for one thing when the directory is not there any more ...
TokenFails(p) ==
    /\ At(p, "made")
    /\ IF Locked THEN Fault("token") ELSE UNCHANGED faults
    /\ Goto(p, "abort")
    /\ UNCHANGED <<lock, file, due, mem, used, requests, hist>>

\* ... and then whatever directory is there now is removed, and the operation throws.
GivesUp(p) ==
    /\ At(p, "abort")
    /\ lock' = NoLock
    /\ Forgets(p)
    /\ UNCHANGED <<file, due, used, faults, requests, hist>>

Abandoned == Locked /\ lock.stale

Judge(p) ==
    /\ At(p, "want")
    /\ Abandoned
    /\ Goto(p, "reclaim")
    /\ UNCHANGED <<lock, file, due, mem, used, faults, requests, hist>>

\* Mutant: the name it is moved to is not unique, so the rename fails, silently.
RenameFails(p) ==
    /\ At(p, "reclaim")
    /\ Goto(p, "want")
    /\ UNCHANGED <<lock, file, due, mem, used, faults, requests, hist>>

\* reclaimStaleLock moves aside the directory that is there now, whatever was judged.
Reclaim(p) ==
    /\ At(p, "reclaim")
    /\ lock' = NoLock
    /\ robbed' = (robbed \/ (Locked /\ pc[lock.by] \in Holding))
    /\ Goto(p, "want")
    /\ UNCHANGED <<file, due, mem, used, faults, requests, known, worked, failures>>

\* After thirty seconds of attempts the operation throws; a worker forgets how its jobs went.
TimesOut(p) ==
    /\ At(p, "want")
    /\ Fault("timeout")
    /\ Forgets(p)
    /\ UNCHANGED <<lock, file, due, used, requests, hist>>

-----------------------------------------------------------------------------
(***************************************************************************)
(* The critical section, and the release of the lock.                      *)
(***************************************************************************)
ReadQueue(p) ==
    /\ At(p, "locked")
    /\ IF mem[p].op = "fetch"
       THEN /\ mem' = [mem EXCEPT ![p].batch = file \cap due, ![p].todo = file \cap due]
            /\ Goto(p, "check")
       ELSE /\ mem' = [mem EXCEPT ![p].copy = file]
            /\ Goto(p, "write")
    /\ UNCHANGED <<lock, file, due, used, faults, requests, hist>>

\* Mutant: jobs are settled on the copy the batch was taken from.
FirstCopy(p) == IF mem[p].op = "settle" THEN mem[p].batch ELSE mem[p].copy

Copy(p) == mem[p].copy

Thrown(p) == {r \in mem[p].batch : r.id \notin mem[p].good}
\* Mutant: one attempt too many.
ExhaustedLate(r) == r.attempts + 1 > MaxAttempts

Exhausted(r) == r.attempts + 1 >= MaxAttempts

\* Mutant: the attempt is not counted.
NotCounted(r) == r

Counted(r) == [r EXCEPT !.attempts = @ + 1]

\* Jobs that succeeded or have had all their attempts are dropped, others that threw are
\* kept for another one, and what is not of the batch stays as it is.
Retries(p) == {Counted(r) : r \in {t \in Thrown(p) : ~Exhausted(t)}}
Settled(p) == {r \in Copy(p) : r.id \notin Ids(mem[p].batch)}
                \cup {r \in Retries(p) : r.id \in Ids(Copy(p))}
Updated(p) ==
    CASE mem[p].op = "enqueue" -> Copy(p) \cup {[id |-> j, attempts |-> 0] : j \in mem[p].ids}
      [] mem[p].op = "purge" -> {r \in Copy(p) : r.id \notin mem[p].ids}
      [] OTHER -> Settled(p)

WriteQueue(p) ==
    /\ At(p, "write")
    /\ file' = Updated(p)
    /\ known' = known \cup Ids(Updated(p))
    /\ mem' = [mem EXCEPT ![p] = Blank]
    /\ Goto(p, "check")
    /\ UNCHANGED <<lock, due, used, faults, requests, worked, failures, robbed>>

\* releaseDirectoryLock reads the token first.
CheckToken(p) ==
    /\ At(p, "check")
    /\ Goto(p, IF lock.token = p THEN "remove" ELSE "run")
    /\ UNCHANGED <<lock, file, due, mem, used, faults, requests, hist>>

RemoveLock(p) ==
    /\ At(p, "remove")
    /\ lock' = NoLock
    /\ Goto(p, "run")
    /\ UNCHANGED <<file, due, mem, used, faults, requests, hist>>

-----------------------------------------------------------------------------
(***************************************************************************)
(* The handlers, without the lock.                                         *)
(***************************************************************************)
Returns(p) ==
    /\ At(p, "run")
    /\ mem[p].batch = {}
    /\ Forgets(p)
    /\ UNCHANGED <<lock, file, due, used, faults, requests, hist>>

RunSucceeds(p) == \E r \in mem[p].todo :
    /\ At(p, "run")
    /\ mem' = [mem EXCEPT ![p].todo = @ \ {r}, ![p].good = @ \cup {r.id}]
    /\ worked' = worked \cup {r.id}
    /\ UNCHANGED <<lock, file, due, pc, used, faults, requests, known, failures, robbed>>

RunThrows(p) == \E r \in mem[p].todo :
    /\ At(p, "run")
    /\ mem' = [mem EXCEPT ![p].todo = @ \ {r}]
    /\ failures' = [failures EXCEPT ![r.id] = @ + 1]
    /\ UNCHANGED <<lock, file, due, pc, used, faults, requests, known, worked, robbed>>

\* The whole batch has run.
Settle(p) ==
    /\ At(p, "run")
    /\ mem[p].batch # {} /\ mem[p].todo = {}
    /\ Wants(p, [mem[p] EXCEPT !.op = "settle"])
    /\ UNCHANGED <<lock, file, due, used, faults, requests, hist>>

-----------------------------------------------------------------------------
(***************************************************************************)
(* Time, and the death of a process, which starts again.                   *)
(***************************************************************************)
\* The lock of a process that died gets old ...
GetsOld ==
    /\ Locked /\ ~lock.stale /\ pc[lock.by] \notin Holding
    /\ lock' = [lock EXCEPT !.stale = TRUE]
    /\ UNCHANGED <<file, due, pc, mem, used, faults, requests, hist>>

\* ... and that of one that is suspended, or slow.
Suspend ==
    /\ Locked /\ ~lock.stale /\ pc[lock.by] \in Holding
    /\ Fault("suspend")
    /\ lock' = [lock EXCEPT !.stale = TRUE]
    /\ UNCHANGED <<file, due, pc, mem, used, requests, hist>>

BecomesDue == \E r \in file \ due :
    /\ due' = due \cup {r}
    /\ UNCHANGED <<lock, file, pc, mem, used, faults, requests, hist>>

Crash(p) ==
    /\ ~At(p, "idle")
    /\ Fault("crash")
    /\ Forgets(p)
    /\ UNCHANGED <<lock, file, due, used, requests, hist>>

Ask(p) == Enqueue(p) \/ Purge(p)
Proceed(p) ==
    \/ Fetch(p) \/ Mkdir(p) \/ WriteToken(p) \/ TokenFails(p) \/ GivesUp(p) \/ Judge(p)
    \/ Reclaim(p) \/ ReadQueue(p) \/ WriteQueue(p) \/ CheckToken(p) \/ RemoveLock(p)
    \/ Returns(p) \/ RunSucceeds(p) \/ RunThrows(p) \/ Settle(p)

Next ==
    \/ GetsOld \/ Suspend \/ BecomesDue
    \/ \E p \in Processes : Ask(p) \/ Proceed(p) \/ TimesOut(p) \/ Crash(p)

\* A process that lives goes on, a worker polls again and again, handlers return, and time
\* passes.  Nobody has to enqueue or purge.
Fairness == WF_vars(GetsOld) /\ WF_vars(BecomesDue) /\ \A p \in Processes : WF_vars(Proceed(p))
Spec == Init /\ [][Next]_vars /\ Fairness

-----------------------------------------------------------------------------
TypeOK ==
    /\ lock \in [by : Processes \cup {None}, token : Processes \cup {None}, stale : BOOLEAN]
    /\ file \subseteq Stored /\ due \subseteq Stored
    /\ pc \in [Processes -> Pcs]
    /\ mem \in [Processes -> [op : Ops, ids : SUBSET Jobs, copy : SUBSET Stored,
                              batch : SUBSET Stored, todo : SUBSET Stored, good : SUBSET Jobs]]
    /\ used \subseteq Jobs /\ known \subseteq Jobs /\ worked \subseteq Jobs /\ robbed \in BOOLEAN
    /\ faults \in 0..MaxFaults /\ requests \in 0..MaxRequests
    /\ failures \in [Jobs -> Nat]

\* Between the mkdir of a process and its release nobody else reads or writes the file,
\* until the lock of a live holder is moved aside; and as long as no process died, gave up
\* or stood still, none is: contention alone never makes two holders.
Exclusive ==
    /\ ~robbed => \A p, q \in Processes : pc[p] \in Holding /\ pc[q] \in Holding => p = q
    /\ robbed => faults > 0

\* A job fails no more often than the queue makes attempts and faults made it forget one,
\* as long as one worker consumes the queue and no holder was robbed of its lock.
AttemptsAreCounted == ~robbed => \A j \in Jobs : failures[j] <= MaxAttempts + faults

\* The purge a producer has asked for and not yet carried out.
Asked(p) == IF mem[p].op = "purge" THEN mem[p].ids ELSE {}
Promise == INSTANCE JobQueue WITH
    Requesters <- Producers, queued <- Ids(file), asked <- [p \in Producers |-> Asked(p)],
    disturbed <- robbed

\* The files and locks implement the promise of JobQueue: whoever dies, and whatever is read
\* before and written after it, nothing that was queued is lost or comes back, until a live
\* holder is robbed of its lock; from then on writers may undo what others wrote, but no job
\* is run or brought back that was never queued.
KeepsPromise == Promise!Spec

\* Every job that is queued leaves the queue, although processes die with the lock.
JobsGetDone == \A j \in Jobs : j \in Ids(file) ~> j \notin Ids(file)
=============================================================================
