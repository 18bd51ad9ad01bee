------------------------------ MODULE JobQueue ------------------------------
(***************************************************************************)
(* What a queue of the platform promises its producers and its consumers:  *)
(* a job is queued in one step, once; handlers run jobs that were queued;  *)
(* and a job leaves the queue, for good, only after a run of it succeeded, *)
(* after as many runs of it failed as the queue makes attempts, or when a  *)
(* purge that was asked for and covers the job is carried out.  A job may  *)
(* run again as long as it is queued.                                      *)
(*                                                                         *)
(* Once writers have been disturbed, a write may undo what others wrote in *)
(* the meantime: jobs can be lost and can come back, and all that is still *)
(* promised is that no job is queued, or run, that nobody ever queued.     *)
(***************************************************************************)
EXTENDS Naturals

CONSTANTS
    Jobs,        \* ids of jobs
    Requesters,  \* who may ask for a purge
    MaxAttempts

VARIABLES
    queued,    \* jobs in the queue
    known,     \* jobs that were ever queued
    worked,    \* jobs a run of which succeeded
    failures,  \* number of failed runs of each job
    asked,     \* the jobs each requester wants to be purged
    disturbed  \* two writers may have been at work at a time

vars == <<queued, known, worked, failures, asked, disturbed>>

Init ==
    /\ queued = {} /\ known = {} /\ worked = {}
    /\ failures = [j \in Jobs |-> 0]
    /\ asked = [c \in Requesters |-> {}]
    /\ disturbed = FALSE

Enqueue(j) ==
    /\ j \notin known
    /\ queued' = queued \cup {j} /\ known' = known \cup {j}
    /\ UNCHANGED <<worked, failures, asked, disturbed>>

Succeed(j) ==
    /\ j \in known
    /\ worked' = worked \cup {j}
    /\ UNCHANGED <<queued, known, failures, asked, disturbed>>

Throw(j) ==
    /\ j \in known
    /\ failures' = [failures EXCEPT ![j] = @ + 1]
    /\ UNCHANGED <<queued, known, worked, asked, disturbed>>

Over(j) == j \in worked \/ failures[j] >= MaxAttempts

Settle ==
    /\ queued' \subseteq queued
    /\ \A j \in queued \ queued' : Over(j)
    /\ UNCHANGED <<known, worked, failures, asked, disturbed>>

Ask(c) ==
    /\ asked' \in [Requesters -> SUBSET Jobs]
    /\ \A d \in Requesters \ {c} : asked'[d] = asked[d]
    /\ UNCHANGED <<queued, known, worked, failures, disturbed>>

Purge(c) ==
    /\ queued' = queued \ asked[c]
    /\ asked' = [asked EXCEPT ![c] = {}]
    /\ UNCHANGED <<known, worked, failures, disturbed>>

Disturb == disturbed' = TRUE /\ UNCHANGED <<queued, known, worked, failures, asked>>

\* A write that knows nothing of the ones before it.
Overwrite ==
    /\ disturbed
    /\ \E new \in SUBSET Jobs :
         /\ \A i, j \in new : i = j
         /\ known' = known \cup new
         /\ queued' \subseteq known'
    /\ asked' = asked \/ \E c \in Requesters : asked' = [asked EXCEPT ![c] = {}]
    /\ UNCHANGED <<worked, failures, disturbed>>

Next ==
    \/ \E j \in Jobs : Enqueue(j) \/ Succeed(j) \/ Throw(j)
    \/ Settle \/ Disturb \/ Overwrite
    \/ \E c \in Requesters : Ask(c) \/ Purge(c)

Spec == Init /\ [][Next]_vars
=============================================================================
