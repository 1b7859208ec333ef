---------------------------- MODULE DurableJobs ----------------------------
(***************************************************************************)
(* The controller's own durable jobs (jobs.JobService with the adapter     *)
(* lifecycle/job.py): one request key, the job stored under it, and the    *)
(* workers that claim, renew and finish it.  Every transaction is a read   *)
(* and a commit with other processes between them.  A claim locks the row  *)
(* it selects; a renewal or an outcome goes through the optimistic         *)
(* boundary (optimistic.transition), where a commit that lost its version  *)
(* or meets a lock is decided once more on fresh rows and then given up.   *)
(***************************************************************************)
EXTENDS Integers, FiniteSets

CONSTANTS
    Workers,      \* the worker processes
    Clients,      \* the callers of enqueue, all with one request key
    Requests,     \* what they ask for under that key
    Lease,        \* clock steps of a lease
    MaxAttempts,  \* bound on the attempts of the job
    MaxVersion    \* bound on the versions of the job row

ASSUME DurableJobsAssumption ==
    /\ Lease \in Nat \ {0} /\ MaxAttempts \in Nat \ {0} /\ MaxVersion \in Nat \ {0}

Attempts == 1 .. MaxAttempts
Terminal == {"succeeded", "failed"}
Nobody == "nobody"
NoJob == "absent"

ASSUME NobodyAssumption == Nobody \notin Workers

VARIABLES
    job,       \* the Job row
    attempts,  \* the JobAttempt rows
    lock,      \* the worker whose open transaction holds the job row
    work,      \* what each worker is doing
    client,    \* what each caller of enqueue is doing, and its answer
    authority  \* the external evidence enqueue_guarded re-checks

vars == <<job, attempts, lock, work, client, authority>>

\* A worker: its step, the fence it holds, the call in progress, the version
\* that call has read and whether it is the second decision.
Idle == [at |-> "idle", attempt |-> 0, op |-> "none", version |-> 0, again |-> FALSE]

JobRow ==
    [state : {NoJob, "queued", "running", "needs-operator"} \cup Terminal,
     request : Requests, current : 0 .. MaxAttempts, version : 0 .. MaxVersion]
AttemptRow ==
    [state : {NoJob, "running", "observing"} \cup Terminal,
     worker : Workers \cup {Nobody}, lease : 0 .. Lease]
Working ==
    [at : {"idle", "selected", "handling", "read", "lost"}, attempt : 0 .. MaxAttempts,
     op : {"none", "heartbeat"} \cup Terminal, version : 0 .. MaxVersion, again : BOOLEAN]
Calling ==
    [at : {"new", "none-found", "accepted", "conflict", "superseded"}, request : Requests]

TypeOK ==
    /\ job \in JobRow /\ attempts \in [Attempts -> AttemptRow]
    /\ lock \in Workers \cup {Nobody} /\ work \in [Workers -> Working]
    /\ client \in [Clients -> Calling] /\ authority \in BOOLEAN

\* No job yet, or one that an older release left waiting for an operator.
Init ==
    /\ \E r \in Requests, s \in {NoJob, "needs-operator"} :
         job = [state |-> s, request |-> r, current |-> 0,
                version |-> IF s = NoJob THEN 0 ELSE 1]
    /\ attempts = [a \in Attempts |-> [state |-> NoJob, worker |-> Nobody, lease |-> 0]]
    /\ lock = Nobody
    /\ work = [w \in Workers |-> Idle]
    /\ client \in [Clients -> [at : {"new"}, request : Requests]]
    /\ authority = TRUE

-----------------------------------------------------------------------------
(* enqueue and enqueue_guarded.                                            *)

Answered(r) == IF job.request = r THEN "accepted" ELSE "conflict"

LookUp(c) ==
    /\ client[c].at = "new"
    /\ client' = [client EXCEPT ![c].at =
                    IF job.state # NoJob THEN Answered(client[c].request)
                    ELSE IF authority THEN "none-found" ELSE "superseded"]
    /\ UNCHANGED <<job, attempts, lock, work, authority>>

\* The insert and the second check of the evidence; a key that is taken
\* meanwhile is answered with the row that holds it (_replayed).
Bug_Insert(c) ==
    /\ client[c].at = "none-found"
    /\ \/ /\ ~authority
          /\ client' = [client EXCEPT ![c].at = "superseded"]
          /\ UNCHANGED job
       \/ /\ authority
          /\ job' = [state |-> "queued", request |-> client[c].request, current |-> 0,
                     version |-> 1]
          /\ client' = [client EXCEPT ![c].at = "accepted"]
    /\ UNCHANGED <<attempts, lock, work, authority>>
Insert(c) ==
    /\ client[c].at = "none-found"
    /\ \/ /\ job.state # NoJob
          /\ client' = [client EXCEPT ![c].at = Answered(client[c].request)]
          /\ UNCHANGED job
       \/ /\ job.state = NoJob /\ ~authority
          /\ client' = [client EXCEPT ![c].at = "superseded"]
          /\ UNCHANGED job
       \/ /\ job.state = NoJob /\ authority
          /\ job' = [state |-> "queued", request |-> client[c].request, current |-> 0,
                     version |-> 1]
          /\ client' = [client EXCEPT ![c].at = "accepted"]
    /\ UNCHANGED <<attempts, lock, work, authority>>

EvidenceGoesStale ==
    /\ authority
    /\ authority' = FALSE
    /\ UNCHANGED <<job, attempts, lock, work, client>>

\* resume: an operator releases a parked job (a compare-and-set on its word).
Resume ==
    /\ job.state = "needs-operator" /\ lock = Nobody /\ job.version < MaxVersion
    /\ job' = [job EXCEPT !.state = "queued", !.version = @ + 1]
    /\ UNCHANGED <<attempts, lock, work, client, authority>>

-----------------------------------------------------------------------------
(* claim: SELECT ... FOR UPDATE SKIP LOCKED, then the writes.              *)

Lapsed(a) == attempts[a].state = "running" /\ attempts[a].lease = 0

Bug_Claimable == job.state = "queued"
Claimable == job.state = "queued" \/ \E a \in Attempts : Lapsed(a)

Select(w) ==
    /\ work[w].at = "idle"
    /\ lock = Nobody /\ Claimable /\ job.current < MaxAttempts
    /\ lock' = w
    /\ work' = [work EXCEPT ![w].at = "selected"]
    /\ UNCHANGED <<job, attempts, client, authority>>

\* The previous attempt can no longer report; the new one has a new fence.
Claimed(w, a) ==
    [b \in Attempts |->
        IF b = a THEN [state |-> "running", worker |-> w, lease |-> Lease]
        ELSE IF b = job.current THEN [attempts[b] EXCEPT !.state = "observing"]
        ELSE attempts[b]]

CommitClaim(w) ==
    /\ work[w].at = "selected" /\ job.version < MaxVersion
    /\ lock' = Nobody
    /\ attempts' = Claimed(w, job.current + 1)
    /\ job' = [job EXCEPT !.state = "running", !.current = @ + 1, !.version = @ + 1]
    /\ work' = [work EXCEPT ![w] = [Idle EXCEPT !.at = "handling",
                                                !.attempt = job.current + 1]]
    /\ UNCHANGED <<client, authority>>

-----------------------------------------------------------------------------
(* heartbeat, succeed and fail: _active, the adapter and the version CAS.  *)

Active(w) ==
    LET a == work[w].attempt IN
    /\ job.current = a
    /\ attempts[a].state = "running" /\ attempts[a].worker = w
    /\ attempts[a].lease > 0

Read(w, op, again) ==
    work' = [work EXCEPT ![w].at = IF Active(w) THEN "read" ELSE "lost",
                         ![w].op = op, ![w].version = job.version, ![w].again = again]

Decide(w) ==
    /\ work[w].at = "handling"
    /\ \E op \in {"heartbeat"} \cup Terminal : Read(w, op, FALSE)
    /\ UNCHANGED <<job, attempts, lock, client, authority>>

\* Bug: the version is not compared.
Bug_Current(w) == lock = Nobody

Current(w) == lock = Nobody /\ job.version = work[w].version

Commit(w) ==
    /\ work[w].at = "read" /\ Current(w) /\ job.version < MaxVersion
    /\ IF work[w].op = "heartbeat"
       THEN /\ attempts' = [attempts EXCEPT ![work[w].attempt].lease = Lease]
            /\ job' = [job EXCEPT !.version = @ + 1]
            /\ work' = [work EXCEPT ![w] = [Idle EXCEPT !.at = "handling",
                                              !.attempt = work[w].attempt]]
       ELSE /\ attempts' = [attempts EXCEPT ![work[w].attempt].state = work[w].op]
            /\ job' = [job EXCEPT !.state = work[w].op, !.version = @ + 1]
            /\ work' = [work EXCEPT ![w] = Idle]
    /\ UNCHANGED <<lock, client, authority>>

\* The version is lost or the row is locked: one fresh decision, then STALE.
Conflict(w) ==
    /\ work[w].at = "read" /\ ~Current(w)
    /\ IF work[w].again THEN work' = [work EXCEPT ![w].at = "lost"]
       ELSE Read(w, work[w].op, TRUE)
    /\ UNCHANGED <<job, attempts, lock, client, authority>>

\* The call raised, or the process ended: its transaction is rolled back and
\* nothing of what the worker knew is left.
Abandon(w) ==
    /\ work[w].at # "idle"
    /\ work' = [work EXCEPT ![w] = Idle]
    /\ lock' = IF lock = w THEN Nobody ELSE lock
    /\ UNCHANGED <<job, attempts, client, authority>>

Elapse ==
    /\ \E a \in Attempts : attempts[a].lease > 0
    /\ attempts' = [a \in Attempts |->
                      [attempts[a] EXCEPT !.lease = IF @ > 0 THEN @ - 1 ELSE 0]]
    /\ UNCHANGED <<job, lock, work, client, authority>>

Next ==
    \/ \E c \in Clients : LookUp(c) \/ Insert(c)
    \/ EvidenceGoesStale \/ Resume \/ Elapse
    \/ \E w \in Workers :
         Select(w) \/ CommitClaim(w) \/ Decide(w) \/ Commit(w) \/ Conflict(w) \/ Abandon(w)

Spec == Init /\ [][Next]_vars
\* The clock moves, some worker looks for work, a claim is not broken off for
\* ever and a worker does not sit in a step.
FairSpec ==
    /\ Spec /\ WF_vars(Elapse)
    /\ WF_vars(\E w \in Workers : Select(w)) /\ SF_vars(\E w \in Workers : CommitClaim(w))
    /\ \A w \in Workers : WF_vars(Decide(w) \/ Commit(w) \/ Conflict(w) \/ Abandon(w))

-----------------------------------------------------------------------------
(* Properties.                                                             *)

\* A worker that may still commit an outcome holds the job's current attempt,
\* and no other attempt is running (jobs.py:436-453, lifecycle/job.py:305):
\* a worker that lost its lease cannot finish the job of another.
OneHolder ==
    /\ \A a \in Attempts : attempts[a].state = "running" => a = job.current
    /\ \A w \in Workers :
         work[w].at = "read" /\ Current(w) => Active(w) \/ Lapsed(work[w].attempt)

\* The job and its attempt end together and with one outcome, which no later
\* decision changes; earlier attempts never have an outcome
\* (lifecycle/job.py:335-365).
EndTogether ==
    /\ job.state \in Terminal => attempts[job.current].state = job.state
    /\ \A a \in Attempts : attempts[a].state \in Terminal
                             => a = job.current /\ job.state = attempts[a].state

\* Of all the callers that use one request key, those that are accepted asked
\* for the same, and that is what is stored (jobs.py:246-262, 341-354).
OneRequestPerKey ==
    \A c \in Clients : client[c].at = "accepted"
        => job.state # NoJob /\ job.request = client[c].request

\* The job, its attempts and its callers agree: one worker holds it, it ends
\* once, with its attempt, and it is what every accepted caller asked for
\* (JobService.enqueue, claim, _active and _finish).
Consistent == TypeOK /\ OneHolder /\ EndTogether /\ OneRequestPerKey

\* The job as its callers and workers may see it.
Word == CASE job.state = NoJob            -> "absent"
          [] job.state = "needs-operator" -> "parked"
          [] job.state = "queued"         -> "waiting"
          [] job.state = "running"        -> "held"
          [] OTHER                        -> job.state

Held == job.state = "running"

Board == INSTANCE JobBoard WITH
    job <- Word, request <- job.request, fence <- job.current,
    holder <- IF job.current = 0 THEN Nobody ELSE attempts[job.current].worker,
    record <- IF job.current = 0 \/ attempts[job.current].state \notin Terminal THEN "none"
              ELSE attempts[job.current].state,
    live <- Held /\ attempts[job.current].lease > 0,
    wants <- [c \in Clients |-> client[c].request],
    answer <- [c \in Clients |-> IF client[c].at \in {"new", "none-found"} THEN "none"
                                 ELSE client[c].at],
    valid <- authority

\* The service keeps its promise: with its separate reads and commits, its
\* locks, versions and second decisions it does what a board would do that
\* takes every call in one step (JobService.enqueue, claim, heartbeat, succeed
\* and fail).
ImplementsBoard == Board!Spec

\* An attempt nobody renews ends or is replaced: the job of a worker that
\* died is claimed again (jobs.py:394-402).  No attempt but the last stays the
\* current one of an open job, within the bound on versions.
LapsedIsClaimedAgain ==
    \A a \in 1 .. MaxAttempts - 1 :
        []<>(job.current # a \/ job.state \in Terminal \/ job.version >= MaxVersion - 1)
=============================================================================
