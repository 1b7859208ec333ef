--------------------------- MODULE RecoveryProofs ---------------------------
(***************************************************************************)
(* What survives the crash of a process or of a host.  First the durable   *)
(* jobs, for every set of workers, callers and requests, every lease and   *)
(* every bound: the rows agree, no update is lost, and the service         *)
(* implements JobBoard.  Then, as instances with variables of their own,   *)
(* the repair of the agent's journal and the activation of its package.    *)
(***************************************************************************)
EXTENDS DurableJobs, TLAPS

\* The attempt that runs is the current one of a running job, and the other
\* way round; before the first claim there is no current attempt.
RunTogether ==
    /\ \A a \in Attempts : attempts[a].state = "running"
                             => a = job.current /\ job.state = "running"
    /\ job.state = "running" => /\ job.current \in Attempts
                                /\ attempts[job.current].state = "running"
    /\ job.state \in {NoJob, "queued", "needs-operator"} => job.current = 0
    /\ job.state \in Terminal => job.current \in Attempts

\* A worker that selected the job keeps it locked and claimable until it
\* commits or goes away.
SelectionHolds ==
    \A w \in Workers : work[w].at = "selected"
        => lock = w /\ Claimable /\ job.current < MaxAttempts

\* A worker that read the job under the version the row still has holds its
\* current attempt; one that read an older version can no longer commit.
FenceHolds ==
    \A w \in Workers :
        /\ work[w].at \in {"handling", "read"} => work[w].attempt \in 1 .. job.current
        /\ work[w].at = "read" =>
             /\ work[w].op # "none"
             /\ work[w].version =< job.version
             /\ work[w].version = job.version =>
                  /\ work[w].attempt = job.current
                  /\ attempts[work[w].attempt].state = "running"
                  /\ attempts[work[w].attempt].worker = w

\* The inductive invariant.
Inv ==
    /\ TypeOK /\ RunTogether /\ SelectionHolds /\ FenceHolds
    /\ EndTogether /\ OneRequestPerKey

-----------------------------------------------------------------------------

LEMMA InitInv == Init => Inv
  <1> SUFFICES ASSUME Init PROVE Inv
      OBVIOUS
  <1> USE DurableJobsAssumption, NobodyAssumption DEF Attempts, Terminal, NoJob, Nobody, Idle
  <1>1. TypeOK
      BY DEF Init, TypeOK, JobRow, AttemptRow, Working, Calling
  <1>2. RunTogether /\ EndTogether
      BY DEF Init, RunTogether, EndTogether
  <1>3. SelectionHolds /\ FenceHolds
      BY DEF Init, SelectionHolds, FenceHolds
  <1>4. OneRequestPerKey
      BY DEF Init, OneRequestPerKey
  <1> QED BY <1>1, <1>2, <1>3, <1>4 DEF Inv

LEMMA TypeStep == Inv /\ [Next]_vars => TypeOK'
  <1> SUFFICES ASSUME Inv, [Next]_vars PROVE TypeOK'
      OBVIOUS
  <1> USE DurableJobsAssumption
  <1>0. TypeOK
      BY DEF Inv
  <1>1. CASE UNCHANGED vars
      BY <1>0, <1>1 DEF vars, TypeOK
  <1>2. ASSUME NEW c \in Clients, LookUp(c) PROVE TypeOK'
    <2>1. \E s \in {"none-found", "accepted", "conflict", "superseded"} :
             client' = [client EXCEPT ![c].at = s]
      BY Zenon, <1>2 DEF LookUp, Answered
    <2> QED BY <1>0, <1>2, <2>1 DEF TypeOK, LookUp, Calling
  <1>3. ASSUME NEW c \in Clients, Insert(c) PROVE TypeOK'
    <2>1. \E s \in {"accepted", "conflict", "superseded"} :
             client' = [client EXCEPT ![c].at = s]
      BY <1>3 DEF Insert, Answered
    <2>2. client' \in [Clients -> Calling]
      BY <1>0, <2>1 DEF TypeOK, Calling
    <2>3. client[c].request \in Requests
      BY <1>0 DEF TypeOK, Calling
    <2>4. job' \in JobRow
      BY <1>0, <1>3, <2>3 DEF TypeOK, Insert, JobRow
    <2> QED BY <1>0, <1>3, <2>2, <2>4 DEF TypeOK, Insert
  <1>4. CASE EvidenceGoesStale
      BY Zenon, <1>0, <1>4 DEF EvidenceGoesStale, TypeOK
  <1>5. CASE Resume
    <2>1. job.version + 1 \in 0 .. MaxVersion
      BY <1>0, <1>5 DEF TypeOK, Resume, JobRow
    <2>2. job' = [job EXCEPT !.state = "queued", !.version = job.version + 1]
      BY <1>5 DEF Resume
    <2>3. job' \in JobRow
      BY Zenon, <1>0, <2>1, <2>2 DEF TypeOK, JobRow
    <2> QED BY <1>0, <1>5, <2>3 DEF TypeOK, Resume
  <1>6. CASE Elapse
    <2>1. ASSUME NEW a \in Attempts PROVE attempts'[a] \in AttemptRow
      <3>1. attempts[a] \in AttemptRow
        BY <1>0 DEF TypeOK
      <3>2. attempts[a].lease \in 0 .. Lease
        BY <3>1 DEF AttemptRow
      <3>3. PICK t : /\ t = IF attempts[a].lease > 0 THEN attempts[a].lease - 1 ELSE 0
                     /\ attempts'[a] = [attempts[a] EXCEPT !.lease = t]
        BY Zenon, <1>6 DEF Elapse
      <3>4. t \in 0 .. Lease
        BY <3>2, <3>3
      <3> QED BY <3>1, <3>3, <3>4 DEF AttemptRow
    <2> QED BY <1>0, <1>6, <2>1 DEF TypeOK, Elapse
  <1>7. ASSUME NEW w \in Workers, Select(w) PROVE TypeOK'
      BY <1>0, <1>7 DEF Select, TypeOK, Working
  <1>8. ASSUME NEW w \in Workers, CommitClaim(w) PROVE TypeOK'
    <2>1. job.current + 1 \in Attempts /\ job.version + 1 \in 0 .. MaxVersion
      BY <1>0, <1>8 DEF CommitClaim, TypeOK, JobRow, Inv, SelectionHolds, Attempts
    <2>2. job' = [job EXCEPT !.state = "running", !.current = job.current + 1,
                             !.version = job.version + 1]
      BY <1>8 DEF CommitClaim
    <2>7. job.current + 1 \in 0 .. MaxAttempts
      BY <2>1 DEF Attempts
    <2>3. job' \in JobRow
      BY Zenon, <1>0, <2>1, <2>2, <2>7 DEF TypeOK, JobRow
    <2>4. ASSUME NEW a \in Attempts PROVE attempts'[a] \in AttemptRow
      <3>1. attempts[a] \in AttemptRow
        BY <1>0 DEF TypeOK
      <3> QED BY <1>8, <3>1 DEF CommitClaim, Claimed, AttemptRow
    <2>5. attempts' \in [Attempts -> AttemptRow]
      BY <1>8, <2>4 DEF CommitClaim, Claimed
    <2>6. work' \in [Workers -> Working]
      <3> DEFINE r == [Idle EXCEPT !.at = "handling", !.attempt = job.current + 1]
      <3>1. Idle \in Working
        BY DEF Idle, Working
      <3>2. r \in Working
        BY Zenon, <2>7, <3>1 DEF Working
      <3>3. work' = [work EXCEPT ![w] = r]
        BY <1>8 DEF CommitClaim
      <3> QED BY <1>0, <3>2, <3>3 DEF TypeOK
    <2> QED BY <1>0, <1>8, <2>3, <2>5, <2>6 DEF CommitClaim, TypeOK
  <1>9. ASSUME NEW w \in Workers, NEW op \in {"heartbeat"} \cup Terminal,
               NEW again \in BOOLEAN, Read(w, op, again)
        PROVE work' \in [Workers -> Working]
    <2> DEFINE r == [work[w] EXCEPT !.at = IF Active(w) THEN "read" ELSE "lost", !.op = op,
                                    !.version = job.version, !.again = again]
    <2>1. work' = [work EXCEPT ![w] = r]
      BY Zenon, <1>0, <1>9 DEF Read, TypeOK
    <2>2. work[w] \in Working /\ job.version \in 0 .. MaxVersion
      BY <1>0 DEF TypeOK, JobRow
    <2>3. r \in Working
      BY Zenon, <2>2 DEF Working
    <2> QED BY <1>0, <2>1, <2>3 DEF TypeOK
  <1>10. ASSUME NEW w \in Workers, Decide(w) PROVE TypeOK'
    <2>1. work' \in [Workers -> Working]
      BY Zenon, <1>9, <1>10 DEF Decide
    <2> QED BY <1>0, <1>10, <2>1 DEF Decide, TypeOK
  <1>11. ASSUME NEW w \in Workers, Commit(w) PROVE TypeOK'
    <2>1. /\ job.version + 1 \in 0 .. MaxVersion
          /\ work[w].attempt \in Attempts /\ work[w].attempt \in 0 .. MaxAttempts
          /\ work[w].op # "heartbeat" => work[w].op \in Terminal
      BY SMTT(60), <1>0, <1>11
      DEF Commit, TypeOK, JobRow, Working, Inv, FenceHolds, Attempts
    <2>2. \E s \in {job.state} \cup Terminal :
            job' = [job EXCEPT !.state = s, !.version = job.version + 1]
      <3>1. job = [job EXCEPT !.state = job.state]
        BY <1>0 DEF TypeOK, JobRow
      <3> QED BY Zenon, <1>0, <1>11, <2>1, <3>1 DEF Commit, TypeOK, JobRow
    <2>3. job' \in JobRow
      BY Zenon, <1>0, <2>1, <2>2 DEF TypeOK, JobRow
    <2>4. attempts' \in [Attempts -> AttemptRow]
      <3>1. CASE work[w].op = "heartbeat"
        BY <1>0, <1>11, <2>1, <3>1 DEF Commit, TypeOK, AttemptRow
      <3>2. CASE work[w].op # "heartbeat"
        BY <1>0, <1>11, <2>1, <3>2 DEF Commit, TypeOK, AttemptRow
      <3> QED BY <3>1, <3>2
    <2>5. work' \in [Workers -> Working]
      <3> DEFINE r == [at |-> "handling", attempt |-> work[w].attempt, op |-> "none",
                       version |-> 0, again |-> FALSE]
      <3>1. r \in Working /\ Idle \in Working
        BY <2>1 DEF Working, Idle
      <3>2. work' = [work EXCEPT ![w] = r] \/ work' = [work EXCEPT ![w] = Idle]
        BY Zenon, <1>11 DEF Commit, Idle
      <3> QED BY Zenon, <1>0, <3>1, <3>2 DEF TypeOK
    <2> QED BY ZenonT(60), <1>0, <1>11, <2>3, <2>4, <2>5 DEF Commit, TypeOK
  <1>12. ASSUME NEW w \in Workers, Conflict(w) PROVE TypeOK'
    <2>1. work[w].op \in {"heartbeat"} \cup Terminal
      BY <1>0, <1>12 DEF Conflict, TypeOK, Working, Inv, FenceHolds
    <2>2. work' \in [Workers -> Working]
      <3>1. CASE work[w].again
        BY <1>0, <1>12, <3>1 DEF Conflict, TypeOK, Working
      <3>2. CASE ~work[w].again
        BY Zenon, <1>9, <1>12, <2>1, <3>2 DEF Conflict
      <3> QED BY <3>1, <3>2
    <2> QED BY <1>0, <1>12, <2>2 DEF Conflict, TypeOK
  <1>13. ASSUME NEW w \in Workers, Abandon(w) PROVE TypeOK'
    <2>1. work' \in [Workers -> Working]
      BY <1>0, <1>13 DEF Abandon, TypeOK, Idle, Working
    <2> QED BY <1>0, <1>13, <2>1 DEF Abandon, TypeOK
  <1> QED
      BY <1>1, <1>2, <1>3, <1>4, <1>5, <1>6, <1>7, <1>8, <1>10, <1>11, <1>12, <1>13 DEF Next

-----------------------------------------------------------------------------
(* One lemma per action that writes a row.                                 *)

\* What the row and its attempts say does not depend on callers, workers or
\* locks.
LEMMA RowsStand ==
  ASSUME RunTogether, EndTogether, UNCHANGED <<job, attempts>>
  PROVE  RunTogether' /\ EndTogether'
  BY DEF RunTogether, EndTogether

\* Steps that leave the row and its attempts alone keep what workers rely on,
\* as far as the workers themselves do not move.
LEMMA WorkersStand ==
  ASSUME SelectionHolds, FenceHolds, UNCHANGED <<job, attempts, lock, work>>
  PROVE  SelectionHolds' /\ FenceHolds'
  BY DEF SelectionHolds, FenceHolds, Claimable, Lapsed

LEMMA LookUpStep ==
  ASSUME Inv, TypeOK', NEW c \in Clients, LookUp(c) PROVE Inv'
  <1>1. UNCHANGED <<job, attempts, lock, work>>
    BY DEF LookUp
  <1>2. OneRequestPerKey'
    <2>1. \A d \in Clients : client'[d].request = client[d].request
      BY DEF LookUp, Inv, TypeOK, Calling
    <2>2. \A d \in Clients : client'[d].at = "accepted" =>
            \/ client[d].at = "accepted"
            \/ job.state # NoJob /\ job.request = client[d].request
      BY DEF LookUp, Answered, Inv, TypeOK, Calling
    <2> QED BY <1>1, <2>1, <2>2 DEF OneRequestPerKey, Inv
  <1> QED BY <1>1, <1>2, RowsStand, WorkersStand DEF Inv

LEMMA InsertStep ==
  ASSUME Inv, TypeOK', NEW c \in Clients, Insert(c) PROVE Inv'
  <1> USE DurableJobsAssumption
  <1>1. UNCHANGED <<attempts, lock, work>>
    BY DEF Insert
  <1>2. \A d \in Clients : client'[d].request = client[d].request
    BY DEF Insert, Inv, TypeOK, Calling
  <1>3. \A d \in Clients \ {c} : client'[d] = client[d]
    BY DEF Insert, Inv, TypeOK
  <1>4. CASE UNCHANGED job
    <2>1. client'[c].at = "accepted" => job.state # NoJob /\ job.request = client[c].request
      <3>1. CASE job.state # NoJob
        BY <1>4, <3>1 DEF Insert, Answered, Inv, TypeOK, Calling
      <3>2. CASE job.state = NoJob
        BY <1>4, <3>2 DEF Insert, Inv, TypeOK, Calling, NoJob
      <3> QED BY <3>1, <3>2
    <2>2. OneRequestPerKey'
      BY <1>2, <1>3, <1>4, <2>1 DEF OneRequestPerKey, Inv
    <2> QED BY <1>1, <1>4, <2>2, RowsStand, WorkersStand DEF Inv
  <1>5. CASE job' # job
    <2>1. /\ job.state = NoJob
          /\ job' = [state |-> "queued", request |-> client[c].request, current |-> 0,
                     version |-> 1]
      BY <1>5 DEF Insert
    <2>2. job.current = 0
      BY <2>1 DEF Inv, RunTogether
    <2>3. \A a \in Attempts : attempts[a].state \notin {"running"} \cup Terminal
      BY <2>1 DEF Inv, RunTogether, EndTogether, NoJob, Terminal
    <2>4. \A w \in Workers : work[w].at \notin {"handling", "read", "selected"}
      BY <2>1, <2>2, <2>3 DEF Inv, FenceHolds, SelectionHolds, Claimable, Lapsed, NoJob
    <2>5. RunTogether' /\ EndTogether'
      BY <1>1, <2>1, <2>3 DEF RunTogether, EndTogether, Terminal, NoJob
    <2>6. SelectionHolds' /\ FenceHolds'
      BY <1>1, <2>4 DEF SelectionHolds, FenceHolds
    <2>7. OneRequestPerKey'
      BY <1>2, <1>3, <2>1 DEF OneRequestPerKey, Inv, NoJob
    <2> QED BY <2>5, <2>6, <2>7 DEF Inv
  <1> QED BY <1>4, <1>5

LEMMA ResumeStep ==
  ASSUME Inv, TypeOK', Resume PROVE Inv'
  <1> USE DurableJobsAssumption
  <1>1. UNCHANGED <<attempts, lock, work, client>>
    BY DEF Resume
  <1>2. /\ job.state = "needs-operator" /\ job'.state = "queued"
        /\ job'.current = job.current /\ job'.version = job.version + 1
        /\ job'.request = job.request
    BY DEF Resume, Inv, TypeOK, JobRow
  <1>3. job.current = 0
    BY <1>2 DEF Inv, RunTogether
  <1>4. \A a \in Attempts : attempts[a].state \notin {"running"} \cup Terminal
    BY <1>2 DEF Inv, RunTogether, EndTogether, Terminal
  <1>5. \A w \in Workers : work[w].at \notin {"handling", "read", "selected"}
    BY <1>2, <1>3, <1>4 DEF Inv, FenceHolds, SelectionHolds, Claimable, Lapsed
  <1>6. RunTogether' /\ EndTogether'
    BY <1>1, <1>2, <1>3, <1>4 DEF RunTogether, EndTogether, Terminal, NoJob
  <1>7. SelectionHolds' /\ FenceHolds'
    BY <1>1, <1>5 DEF SelectionHolds, FenceHolds
  <1>8. OneRequestPerKey'
    BY <1>1, <1>2 DEF OneRequestPerKey, Inv, NoJob
  <1> QED BY <1>6, <1>7, <1>8 DEF Inv

LEMMA ElapseStep ==
  ASSUME Inv, TypeOK', Elapse PROVE Inv'
  <1> USE DurableJobsAssumption
  <1>1. UNCHANGED <<job, lock, work, client>>
    BY DEF Elapse
  <1>2. \A a \in Attempts : /\ attempts'[a].state = attempts[a].state
                            /\ attempts'[a].worker = attempts[a].worker
    BY DEF Elapse, Inv, TypeOK, AttemptRow
  <1>3. \A a \in Attempts : attempts[a].lease = 0 => attempts'[a].lease = 0
    BY DEF Elapse, Inv, TypeOK, AttemptRow
  <1>4. RunTogether' /\ EndTogether'
    BY <1>1, <1>2 DEF RunTogether, EndTogether, Inv
  <1>5. SelectionHolds'
    BY <1>1, <1>2, <1>3 DEF SelectionHolds, Claimable, Lapsed, Inv
  <1>6. FenceHolds'
    <2>1. \A w \in Workers : work[w].attempt \in 1 .. job.current => work[w].attempt \in Attempts
      BY DEF Inv, TypeOK, JobRow, Attempts
    <2> QED BY <1>1, <1>2, <2>1 DEF FenceHolds, Inv
  <1>7. OneRequestPerKey'
    BY <1>1 DEF OneRequestPerKey, Inv
  <1> QED BY <1>4, <1>5, <1>6, <1>7 DEF Inv

LEMMA SelectStep ==
  ASSUME Inv, TypeOK', NEW w \in Workers, Select(w) PROVE Inv'
  <1>1. UNCHANGED <<job, attempts, client>> /\ lock = Nobody /\ lock' = w
    BY DEF Select
  <1>2. /\ work'[w].at = "selected"
        /\ \A v \in Workers \ {w} : work'[v] = work[v]
    BY DEF Select, Inv, TypeOK, Working
  <1>3. \A v \in Workers : work[v].at # "selected"
    BY <1>1, NobodyAssumption DEF Inv, SelectionHolds
  <1>4. Claimable /\ Claimable' /\ job.current < MaxAttempts
    BY <1>1 DEF Select, Claimable, Lapsed
  <1>5. SelectionHolds'
    BY <1>1, <1>2, <1>3, <1>4 DEF SelectionHolds
  <1>6. FenceHolds'
    BY <1>1, <1>2 DEF FenceHolds, Inv
  <1>7. OneRequestPerKey'
    BY <1>1 DEF OneRequestPerKey, Inv
  <1> QED BY <1>1, <1>5, <1>6, <1>7, RowsStand DEF Inv

LEMMA ClaimStep ==
  ASSUME Inv, TypeOK', NEW w \in Workers, CommitClaim(w) PROVE Inv'
  <1> USE DurableJobsAssumption
  <1> DEFINE n == job.current + 1
  <1>1. UNCHANGED client /\ lock' = Nobody /\ work[w].at = "selected"
    BY DEF CommitClaim
  <1>2. lock = w /\ Claimable /\ n \in Attempts /\ n # job.current /\ job.current < n
    BY <1>1 DEF Inv, SelectionHolds, TypeOK, JobRow, Attempts
  <1>3. /\ job'.state = "running" /\ job'.current = n
        /\ job'.version = job.version + 1 /\ job'.request = job.request
    BY DEF CommitClaim, Inv, TypeOK, JobRow
  <1>4. \A a \in Attempts :
          /\ a = n => attempts'[a].state = "running" /\ attempts'[a].worker = w
          /\ a # n /\ a = job.current => attempts'[a].state = "observing"
          /\ a # n /\ a # job.current => attempts'[a] = attempts[a]
    BY DEF CommitClaim, Claimed, Inv, TypeOK, AttemptRow
  <1>5. job.state \in {"queued", "running"}
    BY <1>2 DEF Claimable, Lapsed, Inv, RunTogether
  <1>6. RunTogether'
    <2>1. \A a \in Attempts : attempts'[a].state = "running" => a = n
      BY <1>4 DEF Inv, RunTogether
    <2> QED BY <1>2, <1>3, <1>4, <2>1 DEF RunTogether, Terminal, NoJob
  <1>7. EndTogether'
    <2>1. \A a \in Attempts : attempts[a].state \notin Terminal
      BY <1>5 DEF Inv, EndTogether, Terminal
    <2>2. \A a \in Attempts : attempts'[a].state \notin Terminal
      BY <1>4, <2>1 DEF Terminal
    <2> QED BY <1>3, <2>2 DEF EndTogether, Terminal
  <1>8. /\ work'[w].at = "handling" /\ work'[w].attempt = n
        /\ \A v \in Workers \ {w} : work'[v] = work[v] /\ work[v].at # "selected"
    <2>1. work' = [work EXCEPT ![w] = [Idle EXCEPT !.at = "handling", !.attempt = n]]
      BY DEF CommitClaim
    <2>2. \A k : LET r == [Idle EXCEPT !.at = "handling", !.attempt = k]
                 IN  r.at = "handling" /\ r.attempt = k
      BY DEF Idle
    <2>3. \A v \in Workers \ {w} : work[v].at # "selected"
      BY <1>2 DEF Inv, SelectionHolds
    <2> QED BY <2>1, <2>2, <2>3 DEF Inv, TypeOK
  <1>9. SelectionHolds'
    BY <1>8 DEF SelectionHolds
  <1>10. FenceHolds'
    <2>1. job.version \in Nat /\ job.current \in Nat
      BY DEF Inv, TypeOK, JobRow
    <2>2. \A v \in Workers : work[v].version \in Nat /\ work[v].attempt \in Nat
      BY DEF Inv, TypeOK, Working
    <2>3. ASSUME NEW v \in Workers \ {w}, work[v].at \in {"handling", "read"}
          PROVE  work[v].attempt \in 1 .. n
      BY <2>1, <2>2, <2>3 DEF FenceHolds, Inv
    <2>4. ASSUME NEW v \in Workers \ {w}, work[v].at = "read"
          PROVE  work[v].op # "none" /\ work[v].version < job'.version
      BY <1>3, <2>1, <2>2, <2>4 DEF FenceHolds, Inv
    <2>5. n \in 1 .. n
      BY <2>1
    <2>6. \A v \in Workers \ {w} : work[v].version < job'.version
             => work[v].version =< job'.version /\ work[v].version # job'.version
      BY <1>3, <2>1, <2>2
    <2> QED BY <1>3, <1>8, <2>3, <2>4, <2>5, <2>6 DEF FenceHolds
  <1>11. OneRequestPerKey'
    BY <1>1, <1>3 DEF OneRequestPerKey, Inv, NoJob
  <1> QED BY <1>6, <1>7, <1>9, <1>10, <1>11 DEF Inv

\* A decision reads the row: it goes on only as the holder of its attempt.
LEMMA ReadStep ==
  ASSUME Inv, TypeOK', NEW w \in Workers, NEW op \in {"heartbeat"} \cup Terminal,
  NEW again \in BOOLEAN,
         work[w].at \in {"handling", "read"},
         Read(w, op, again), UNCHANGED <<job, attempts, lock, client>>
  PROVE  Inv'
  <1>0. op # "none"
    BY DEF Terminal
  <1>1. \A v \in Workers \ {w} : work'[v] = work[v]
    BY DEF Read, Inv, TypeOK
  <1>2. /\ work'[w].at = IF Active(w) THEN "read" ELSE "lost"
        /\ work'[w].op = op /\ work'[w].version = job.version
        /\ work'[w].attempt = work[w].attempt
    <2>1. w \in DOMAIN work /\ work[w] \in Working
      BY DEF Inv, TypeOK
    <2>2. work' = [work EXCEPT ![w] = [work[w] EXCEPT
                     !.at = IF Active(w) THEN "read" ELSE "lost",
                     !.op = op, !.version = job.version, !.again = again]]
      BY Zenon, <2>1 DEF Read
    <2> QED BY Zenon, <2>1, <2>2 DEF Working
  <1>3. Claimable' = Claimable
    BY DEF Claimable, Lapsed
  <1>4. SelectionHolds'
    BY ZenonT(60), <1>1, <1>2, <1>3 DEF SelectionHolds, Inv
  <1>5. FenceHolds'
    <2>1. job.version \in Int
      BY DEF Inv, TypeOK, JobRow
    <2>2. work[w].attempt \in 1 .. job.current
      BY DEF Inv, FenceHolds
    <2>3. ASSUME Active(w)
          PROVE  /\ work[w].attempt = job.current
                 /\ attempts[work[w].attempt].state = "running"
                 /\ attempts[work[w].attempt].worker = w
      BY <2>3 DEF Active
    <2> QED BY <1>0, <1>1, <1>2, <2>1, <2>2, <2>3 DEF FenceHolds, Inv
  <1>6. OneRequestPerKey'
    BY DEF OneRequestPerKey, Inv
  <1> QED BY <1>4, <1>5, <1>6, RowsStand DEF Inv

LEMMA DecideStep ==
  ASSUME Inv, TypeOK', NEW w \in Workers, Decide(w) PROVE Inv'
  <1>1. PICK op \in {"heartbeat"} \cup Terminal : Read(w, op, FALSE)
    BY Zenon DEF Decide
  <1>2. work[w].at \in {"handling", "read"} /\ UNCHANGED <<job, attempts, lock, client>>
    BY DEF Decide
  <1> QED BY Zenon, <1>1, <1>2, ReadStep

LEMMA ConflictStep ==
  ASSUME Inv, TypeOK', NEW w \in Workers, Conflict(w) PROVE Inv'
  <1>1. UNCHANGED <<job, attempts, lock, client>> /\ work[w].at = "read"
    BY DEF Conflict
  <1>2. work[w].op \in {"heartbeat"} \cup Terminal
    BY <1>1 DEF Inv, FenceHolds, TypeOK, Working
  <1>3. CASE work[w].again
    <2>1. work[w] \in Working /\ w \in DOMAIN work
      BY DEF Inv, TypeOK
    <2>2. work' = [work EXCEPT ![w] = [work[w] EXCEPT !.at = "lost"]]
      BY <1>3, <2>1 DEF Conflict
    <2>3. [work[w] EXCEPT !.at = "lost"].at = "lost"
      BY <2>1 DEF Working
    <2>4. work'[w].at = "lost" /\ \A v \in Workers \ {w} : work'[v] = work[v]
      BY <2>2, <2>3 DEF Inv, TypeOK
    <2>5. Claimable' = Claimable
      BY <1>1 DEF Claimable, Lapsed
    <2>6. SelectionHolds' /\ FenceHolds'
      BY <1>1, <2>4, <2>5 DEF SelectionHolds, FenceHolds, Inv
    <2>7. OneRequestPerKey'
      BY <1>1 DEF OneRequestPerKey, Inv
    <2> QED BY <1>1, <2>6, <2>7, RowsStand DEF Inv
  <1>4. CASE ~work[w].again
    <2>1. Read(w, work[w].op, TRUE)
      BY Zenon, <1>4 DEF Conflict
    <2> QED BY Zenon, <1>1, <1>2, <2>1, ReadStep
  <1> QED BY <1>3, <1>4

LEMMA AbandonStep ==
  ASSUME Inv, TypeOK', NEW w \in Workers, Abandon(w) PROVE Inv'
  <1>0. UNCHANGED <<job, attempts, client>> /\ lock' = IF lock = w THEN Nobody ELSE lock
    BY DEF Abandon
  <1>1. work'[w].at = "idle" /\ \A v \in Workers \ {w} : work'[v] = work[v]
    BY DEF Abandon, Idle, Inv, TypeOK
  <1>2. Claimable' = Claimable
    BY <1>0 DEF Claimable, Lapsed
  <1>3. SelectionHolds'
    BY ZenonT(60), <1>0, <1>1, <1>2 DEF SelectionHolds, Inv
  <1>4. FenceHolds'
    BY <1>0, <1>1 DEF FenceHolds, Inv
  <1>5. OneRequestPerKey'
    BY ZenonT(60), <1>0 DEF OneRequestPerKey, Inv
  <1> QED BY <1>0, <1>3, <1>4, <1>5, RowsStand DEF Inv

\* What a commit that goes through writes: the current attempt, and the job
\* under a new version.
LEMMA CommitWrites ==
  ASSUME Inv, NEW w \in Workers, Commit(w)
  PROVE  /\ work[w].attempt = job.current /\ job.current \in Attempts
         /\ attempts[job.current].state = "running"
         /\ attempts[job.current].worker = w
         /\ job.state = "running" /\ lock = Nobody /\ lock' = Nobody /\ UNCHANGED client
         /\ work[w].version = job.version
         /\ job'.version = job.version + 1 /\ job'.current = job.current
         /\ job'.request = job.request
         /\ \A a \in Attempts \ {job.current} : attempts'[a] = attempts[a]
         /\ attempts'[job.current].worker = w
         /\ \/ /\ work[w].op = "heartbeat" /\ job'.state = "running"
               /\ attempts'[job.current].state = "running"
               /\ attempts'[job.current].lease = Lease
            \/ /\ work[w].op \in Terminal /\ job'.state = work[w].op
               /\ attempts'[job.current].state = work[w].op
         /\ work'[w].at \in {"handling", "idle"}
         /\ work'[w].at = "handling" => work'[w].attempt = job.current
         /\ \A v \in Workers \ {w} : work'[v] = work[v]
  <1>1. /\ work[w].at = "read" /\ work[w].version = job.version
        /\ lock = Nobody /\ lock' = Nobody /\ UNCHANGED client
    BY ZenonT(60) DEF Commit, Current
  <1>2. /\ work[w].attempt = job.current /\ job.current \in Attempts
        /\ attempts[job.current].state = "running" /\ attempts[job.current].worker = w
    <2>1. work[w].attempt = job.current /\ job.current \in 1 .. job.current
      BY <1>1 DEF Inv, FenceHolds
    <2>2. job.current \in Attempts
      <3>1. job.current \in 0 .. MaxAttempts
        BY DEF Inv, TypeOK, JobRow
      <3> QED BY <2>1, <3>1, DurableJobsAssumption DEF Attempts
    <2> QED BY ZenonT(60), <1>1, <2>1, <2>2 DEF Inv, FenceHolds
  <1>3. job.state = "running"
    BY <1>2 DEF Inv, RunTogether
  <1>4. work[w].op # "heartbeat" => work[w].op \in Terminal
    BY <1>1 DEF Inv, FenceHolds, TypeOK, Working
  <1>5. Idle.at = "idle"
    BY ZenonT(60) DEF Idle
  <1>6. CASE work[w].op = "heartbeat"
    <2>1. /\ job'.version = job.version + 1 /\ job'.current = job.current
          /\ job'.request = job.request /\ job'.state = job.state
      BY <1>6 DEF Commit, Inv, TypeOK, JobRow
    <2>2. /\ \A a \in Attempts \ {job.current} : attempts'[a] = attempts[a]
          /\ attempts'[job.current].worker = w
          /\ attempts'[job.current].state = "running"
          /\ attempts'[job.current].lease = Lease
      BY <1>2, <1>6 DEF Commit, Inv, TypeOK, AttemptRow
    <2>3. /\ work'[w].at = "handling" /\ work'[w].attempt = job.current
          /\ \A v \in Workers \ {w} : work'[v] = work[v]
      <3>1. work' = [work EXCEPT ![w] = [Idle EXCEPT !.at = "handling",
                                                     !.attempt = work[w].attempt]]
        BY <1>6 DEF Commit
      <3>2. \A k : LET r == [Idle EXCEPT !.at = "handling", !.attempt = k]
                   IN  r.at = "handling" /\ r.attempt = k
        BY DEF Idle
      <3> QED BY <1>2, <3>1, <3>2 DEF Inv, TypeOK
    <2> QED BY <1>1, <1>2, <1>3, <1>6, <2>1, <2>2, <2>3
  <1>7. CASE work[w].op # "heartbeat"
    <2>1. /\ job'.version = job.version + 1 /\ job'.current = job.current
          /\ job'.request = job.request /\ job'.state = work[w].op
      BY Zenon, <1>7 DEF Commit, Inv, TypeOK, JobRow
    <2>2. /\ \A a \in Attempts \ {job.current} : attempts'[a] = attempts[a]
          /\ attempts'[job.current].worker = w
          /\ attempts'[job.current].state = work[w].op
      BY <1>2, <1>7 DEF Commit, Inv, TypeOK, AttemptRow
    <2>3. work'[w].at = "idle" /\ \A v \in Workers \ {w} : work'[v] = work[v]
      BY ZenonT(60), <1>5, <1>7 DEF Commit, Inv, TypeOK
    <2> QED BY <1>1, <1>2, <1>3, <1>4, <1>7, <2>1, <2>2, <2>3
  <1> QED BY <1>6, <1>7

LEMMA CommitStep ==
  ASSUME Inv, TypeOK', NEW w \in Workers, Commit(w) PROVE Inv'
  <1> USE CommitWrites
  <1>1. RunTogether'
    BY DEF Inv, RunTogether, Terminal, NoJob
  <1>2. EndTogether'
    BY DEF Inv, EndTogether, Terminal
  <1>3. SelectionHolds'
    BY NobodyAssumption DEF Inv, SelectionHolds
  <1>4. FenceHolds'
    <2>1. job.version \in Int /\ \A v \in Workers : work[v].version \in Int
      BY DEF Inv, TypeOK, JobRow, Working
    <2>2. job.current \in 1 .. job.current
      BY SMTT(60) DEF Attempts
    <2>3. \A v \in Workers : work[v].version =< job.version
             => work[v].version =< job'.version /\ work[v].version # job'.version
      BY SMTT(60), <2>1
    <2> QED BY <2>2, <2>3 DEF Inv, FenceHolds
  <1>5. OneRequestPerKey'
    BY DEF Inv, OneRequestPerKey, NoJob, Terminal
  <1> QED BY ZenonT(60), <1>1, <1>2, <1>3, <1>4, <1>5 DEF Inv

-----------------------------------------------------------------------------
(* The theorems.                                                           *)

LEMMA StepInv == Inv /\ [Next]_vars => Inv'
  <1> SUFFICES ASSUME Inv, [Next]_vars PROVE Inv'
      OBVIOUS
  <1>0. TypeOK'
    BY TypeStep
  <1>1. CASE UNCHANGED vars
    <2>1. OneRequestPerKey'
      BY <1>1 DEF vars, OneRequestPerKey, Inv
    <2> QED BY <1>0, <1>1, <2>1, RowsStand, WorkersStand DEF vars, Inv
  <1>2. CASE EvidenceGoesStale
    <2>1. OneRequestPerKey'
      BY <1>2 DEF EvidenceGoesStale, OneRequestPerKey, Inv
    <2> QED BY <1>0, <1>2, <2>1, RowsStand, WorkersStand DEF EvidenceGoesStale, Inv
  <1>3. ASSUME NEW c \in Clients, LookUp(c) \/ Insert(c) PROVE Inv'
    BY <1>0, <1>3, LookUpStep, InsertStep
  <1>4. CASE Resume \/ Elapse
    BY <1>0, <1>4, ResumeStep, ElapseStep
  <1>5. ASSUME NEW w \in Workers, Select(w) \/ CommitClaim(w) \/ Decide(w) \/ Commit(w)
                                    \/ Conflict(w) \/ Abandon(w)
        PROVE  Inv'
    BY <1>0, <1>5, SelectStep, ClaimStep, DecideStep, CommitStep, ConflictStep, AbandonStep
  <1> QED BY <1>1, <1>2, <1>3, <1>4, <1>5 DEF Next

\* Every reachable state satisfies the invariant: the fences, locks and
\* versions of JobService fit together for any number of workers and callers.
THEOREM Invariance == Spec => []Inv
  BY InitInv, StepInv, PTL DEF Spec

LEMMA InvIsConsistent == Inv => Consistent
  <1> SUFFICES ASSUME Inv PROVE OneHolder
      BY DEF Inv, Consistent
  <1>1. \A a \in Attempts : attempts[a].state = "running" => a = job.current
    BY DEF Inv, RunTogether
  <1>2. ASSUME NEW w \in Workers, work[w].at = "read", Current(w)
        PROVE  Active(w) \/ Lapsed(work[w].attempt)
    <2>1. /\ work[w].attempt = job.current /\ attempts[work[w].attempt].state = "running"
          /\ attempts[work[w].attempt].worker = w
      BY <1>2 DEF Inv, FenceHolds, Current
    <2>2. attempts[work[w].attempt].lease \in 0 .. Lease
      <3>1. work[w].attempt \in Attempts
        <4>1. job.current \in 0 .. MaxAttempts
          BY DEF Inv, TypeOK, JobRow
        <4>2. work[w].attempt \in 1 .. job.current
          BY <1>2 DEF Inv, FenceHolds
        <4> QED BY <4>1, <4>2, DurableJobsAssumption DEF Attempts
      <3> QED BY <3>1 DEF Inv, TypeOK, AttemptRow
    <2> QED BY <2>1, <2>2 DEF Active, Lapsed
  <1> QED BY <1>1, <1>2 DEF OneHolder

\* A worker that may still commit an outcome holds the job's one running
\* attempt, the job and its attempt end together and once, and every accepted
\* caller asked for what is stored, whatever the number of workers, callers,
\* attempts and versions (JobService.enqueue, claim, _active and _finish).
THEOREM RowsAreConsistent == Spec => []Consistent
  BY Invariance, InvIsConsistent, PTL

-----------------------------------------------------------------------------
(* Every step of the service is a step of the board, or none.              *)

\* The board's view of the job, at the rows a step can meet.
LEMMA WordAt ==
  ASSUME Inv
  PROVE  /\ Word = "absent" <=> job.state = NoJob
         /\ Word = "parked" <=> job.state = "needs-operator"
         /\ Word = "waiting" <=> job.state = "queued"
         /\ Word = "held" <=> job.state = "running"
         /\ \A o \in Terminal : job.state = o => Word = o
  BY DEF Inv, TypeOK, JobRow, Word, Terminal, NoJob

\* A step that leaves the rows, the answers and the evidence alone is none of
\* the board's.
LEMMA UnseenStep ==
  ASSUME UNCHANGED <<job, attempts, client, authority>>
  PROVE  UNCHANGED Board!vars
  BY DEF Board!vars, Word, Held

LEMMA InitBoard == Init => Board!Init
  <1> SUFFICES ASSUME Init PROVE Board!Init
      OBVIOUS
  <1>1. job.current = 0 /\ job.state \in {NoJob, "needs-operator"} /\ job.request \in Requests
    BY DEF Init
  <1>2. Word \in {"absent", "parked"} /\ ~Held
    BY <1>1 DEF Word, Held, NoJob
  <1>3. /\ [c \in Clients |-> client[c].request] \in [Clients -> Requests]
        /\ \A c \in Clients : client[c].at = "new"
    BY DEF Init
  <1> QED BY <1>1, <1>2, <1>3 DEF Board!Init, Board!Nobody, Nobody, Init

\* A caller is answered once, from the row as it is at that moment.
LEMMA CallIsSubmit ==
  ASSUME Inv, NEW c \in Clients, LookUp(c) \/ Insert(c)
  PROVE  Board!Submit(c) \/ UNCHANGED Board!vars
  <1> DEFINE ans == [d \in Clients |-> IF client[d].at \in {"new", "none-found"} THEN "none"
                                       ELSE client[d].at]
             asks == [d \in Clients |-> client[d].request]
  <1>1. /\ client[c].at \in {"new", "none-found"}
        /\ UNCHANGED <<attempts, authority>>
    BY DEF LookUp, Insert
  <1>2. PICK word : client' = [client EXCEPT ![c].at = word]
    BY DEF LookUp, Insert
  <1>3. client'[c].at = word /\ \A d \in Clients \ {c} : client'[d] = client[d]
    BY <1>2 DEF Inv, TypeOK, Calling
  <1>4. asks' = asks
    BY <1>2 DEF Inv, TypeOK, Calling
  <1>5. ASSUME word \notin {"new", "none-found"} PROVE Board!Told(c, word)
    BY Zenon, <1>1, <1>3, <1>5 DEF Board!Told
  <1>6. CASE word = "none-found"
    <2>1. ans' = ans
      BY <1>1, <1>3, <1>6
    <2>2. UNCHANGED job
      BY <1>3, <1>6 DEF LookUp, Insert, Inv, TypeOK, Calling
    <2> QED BY <1>1, <1>4, <2>1, <2>2 DEF Board!vars, Word, Held
  <1>7. CASE word # "none-found" /\ UNCHANGED job
    <2>1. \/ job.state # NoJob /\ word = Answered(client[c].request)
          \/ job.state = NoJob /\ ~authority /\ word = "superseded"
      <3>1. CASE LookUp(c)
        BY <1>3, <1>7, <3>1 DEF LookUp, Inv, TypeOK, Calling
      <3>2. CASE Insert(c)
        BY <1>3, <1>7, <3>2 DEF Insert, Inv, TypeOK, Calling, NoJob
      <3> QED BY <3>1, <3>2
    <2>2. Word' = Word /\ Held' = Held
      BY ZenonT(60), <1>7 DEF Word, Held
    <2>3. CASE job.state # NoJob
      <3>0. /\ word = IF asks[c] = job.request THEN "accepted" ELSE "conflict"
            /\ word \notin {"new", "none-found"}
        BY ZenonT(60), <2>1, <2>3 DEF Answered
      <3>1. Board!Told(c, IF asks[c] = job.request THEN "accepted" ELSE "conflict")
        BY <1>5, <3>0 DEF Board!Told
      <3>2. Word # "absent"
        BY ZenonT(60), <2>3, WordAt
      <3> QED BY <1>1, <1>4, <1>7, <2>2, <3>1, <3>2 DEF Board!Submit, Board!Told
    <2>4. CASE job.state = NoJob
      <3>1. Board!Told(c, "superseded") /\ ~authority
        BY <1>5, <2>1, <2>4
      <3>2. Word = "absent"
        BY <2>4, WordAt
      <3> QED BY <1>1, <1>4, <1>7, <2>2, <3>1, <3>2 DEF Board!Submit
    <2> QED BY <2>3, <2>4
  <1>8. CASE job' # job
    <2>1. /\ job.state = NoJob /\ authority
          /\ job' = [state |-> "queued", request |-> client[c].request, current |-> 0,
                     version |-> 1]
          /\ client' = [client EXCEPT ![c].at = "accepted"]
      BY <1>8 DEF LookUp, Insert
    <2>2. word = "accepted"
      BY <1>3, <2>1 DEF Inv, TypeOK, Calling
    <2>3. Board!Told(c, "accepted")
      BY <1>5, <2>2
    <2>4. job.current = 0 /\ job'.current = 0 /\ job'.request = asks[c] /\ ~Held /\ ~Held'
      BY <2>1 DEF Inv, RunTogether, Held, NoJob
    <2>5. Word = "absent" /\ Word' = "waiting"
      BY <2>1 DEF Word, NoJob
    <2> QED BY <1>1, <1>4, <2>1, <2>3, <2>4, <2>5 DEF Board!Submit
  <1> QED BY <1>6, <1>7, <1>8

\* Resume and the evidence that goes stale are the board's own steps.
LEMMA ResumeIsRelease ==
  ASSUME Inv, Resume PROVE Board!Release
  <1>1. UNCHANGED <<attempts, client, authority>>
    BY DEF Resume
  <1>2. /\ job.state = "needs-operator" /\ job'.state = "queued"
        /\ job'.current = job.current /\ job'.request = job.request
    BY DEF Resume, Inv, TypeOK, JobRow
  <1>3. Word = "parked" /\ Word' = "waiting" /\ ~Held /\ ~Held'
    BY <1>2 DEF Word, Held, NoJob
  <1> QED BY <1>1, <1>2, <1>3 DEF Board!Release

LEMMA StaleIsInvalidate ==
  ASSUME EvidenceGoesStale PROVE Board!Invalidate
  BY ZenonT(60) DEF EvidenceGoesStale, Board!Invalidate, Word, Held

\* The clock ends the holder's time, or nobody notices.
LEMMA ElapseIsLapse ==
  ASSUME Inv, Elapse PROVE Board!Lapse \/ UNCHANGED Board!vars
  <1>1. UNCHANGED <<job, client, authority>> /\ Word' = Word /\ Held' = Held
    BY DEF Elapse, Word, Held
  <1>2. \A a \in Attempts : /\ attempts'[a].state = attempts[a].state
                            /\ attempts'[a].worker = attempts[a].worker
                            /\ attempts[a].lease = 0 => attempts'[a].lease = 0
                            /\ attempts[a].lease \in Int /\ attempts'[a].lease \in Int
                            /\ attempts[a].lease >= 0 /\ attempts'[a].lease >= 0
    BY DurableJobsAssumption DEF Elapse, Inv, TypeOK, AttemptRow
  <1>3. job.current = 0 \/ job.current \in Attempts
    BY DEF Inv, TypeOK, JobRow, Attempts
  <1>4. Held => job.current \in Attempts
    BY DEF Inv, RunTogether, Held
  <1>5. /\ (Held /\ attempts[job.current].lease > 0) \in BOOLEAN
        /\ ~(Held /\ attempts[job.current].lease > 0)
             => ~(Held /\ attempts[job.current].lease > 0)'
    BY <1>1, <1>2, <1>4
  <1>6. Held => Word = "held"
    BY ZenonT(60), WordAt DEF Held
  <1> QED BY <1>1, <1>2, <1>3, <1>5, <1>6 DEF Board!Lapse, Board!vars

\* A claim gives the job to the worker, when it waits or its holder's time is
\* over.
LEMMA ClaimIsTake ==
  ASSUME Inv, NEW w \in Workers, CommitClaim(w) PROVE Board!Take(w)
  <1> USE DurableJobsAssumption
  <1> DEFINE n == job.current + 1
  <1>1. UNCHANGED <<client, authority>> /\ work[w].at = "selected"
    BY DEF CommitClaim
  <1>2. Claimable /\ n \in Attempts /\ n # job.current /\ n # 0
    BY <1>1 DEF Inv, SelectionHolds, TypeOK, JobRow, Attempts
  <1>3. job'.state = "running" /\ job'.current = n /\ job'.request = job.request
    BY DEF CommitClaim, Inv, TypeOK, JobRow
  <1>4. /\ attempts'[n].state = "running" /\ attempts'[n].worker = w
        /\ attempts'[n].lease = Lease
    BY ZenonT(60), <1>2 DEF CommitClaim, Claimed, Inv, TypeOK, AttemptRow
  <1>5. \/ job.state = "queued"
        \/ job.state = "running" /\ attempts[job.current].lease = 0
    BY ZenonT(60), <1>2 DEF Claimable, Lapsed, Inv, RunTogether
  <1>6. Word = "waiting" \/ (Word = "held" /\ ~(Held /\ attempts[job.current].lease > 0))
    BY <1>5, WordAt
  <1>7. job.current = 0 \/ attempts[job.current].state \notin Terminal
    BY <1>5 DEF Inv, RunTogether, Terminal
  <1>8. Word' = "held" /\ Held' /\ attempts'[job'.current].lease > 0
    BY <1>3, <1>4 DEF Word, Held, NoJob
  <1>9. attempts'[n].state \notin Terminal
    BY ZenonT(60), <1>4 DEF Terminal
  <1> QED BY <1>1, <1>2, <1>3, <1>4, <1>6, <1>7, <1>8, <1>9 DEF Board!Take

\* A commit that goes through is the holder's: it renews the job or ends it.
LEMMA CommitIsRenewOrFinish ==
  ASSUME Inv, NEW w \in Workers, Commit(w)
  PROVE  Board!Renew(w) \/ \E o \in Board!Outcomes : Board!Finish(w, o)
  <1> USE CommitWrites
  <1>1. /\ job.current # 0 /\ Word = "held" /\ Held
        /\ attempts[job.current].state \notin Terminal
    BY WordAt, DurableJobsAssumption DEF Attempts, Held, Terminal
  <1>2. UNCHANGED <<client, authority>>
    BY Zenon DEF Commit
  <1>3. CASE work[w].op = "heartbeat"
    <2>1. /\ Word' = "held" /\ Held' /\ attempts'[job'.current].lease = Lease
          /\ attempts'[job'.current].state \notin Terminal
      BY ZenonT(60), <1>3 DEF Word, Held, NoJob, Terminal
    <2>2. Lease > 0
      BY DurableJobsAssumption
    <2> QED BY <1>1, <1>2, <2>1, <2>2 DEF Board!Renew
  <1>4. CASE work[w].op \in Terminal
    <2>1. /\ job'.state = work[w].op /\ attempts'[job'.current].state = work[w].op
          /\ Word' = work[w].op /\ ~Held'
      BY ZenonT(60), <1>4 DEF Word, Held, NoJob, Terminal
    <2>2. work[w].op \in Board!Outcomes
      BY ZenonT(60), <1>4 DEF Terminal, Board!Outcomes
    <2>3. Board!Finish(w, work[w].op)
      BY <1>1, <1>2, <1>4, <2>1 DEF Board!Finish
    <2> QED BY <2>2, <2>3
  <1> QED BY ZenonT(60), <1>3, <1>4

LEMMA StepBoard == Inv /\ [Next]_vars => [Board!Next]_(Board!vars)
  <1> SUFFICES ASSUME Inv, [Next]_vars PROVE Board!Next \/ UNCHANGED Board!vars
      OBVIOUS
  <1>1. CASE UNCHANGED vars
    BY <1>1, UnseenStep DEF vars
  <1>2. ASSUME NEW c \in Clients, LookUp(c) \/ Insert(c)
        PROVE  Board!Next \/ UNCHANGED Board!vars
    BY <1>2, CallIsSubmit DEF Board!Next
  <1>3. CASE EvidenceGoesStale
    BY <1>3, StaleIsInvalidate DEF Board!Next
  <1>4. CASE Resume
    BY <1>4, ResumeIsRelease DEF Board!Next
  <1>5. CASE Elapse
    BY <1>5, ElapseIsLapse DEF Board!Next
  <1>6. ASSUME NEW w \in Workers, CommitClaim(w) PROVE Board!Next
    BY <1>6, ClaimIsTake DEF Board!Next
  <1>7. ASSUME NEW w \in Workers, Commit(w) PROVE Board!Next
    BY <1>7, CommitIsRenewOrFinish DEF Board!Next
  <1>8. ASSUME NEW w \in Workers, Select(w) \/ Decide(w) \/ Conflict(w) \/ Abandon(w)
        PROVE  UNCHANGED Board!vars
    BY Zenon, <1>8, UnseenStep DEF Select, Decide, Conflict, Abandon
  <1> QED BY <1>1, <1>2, <1>3, <1>4, <1>5, <1>6, <1>7, <1>8 DEF Next

\* With its separate reads and commits, locks, versions and second decisions
\* the service does what a board does that takes every call in one step, for
\* any number of workers, callers, attempts and versions (JobService).
THEOREM ServiceImplementsBoard == Spec => ImplementsBoard
  BY InitBoard, StepBoard, Invariance, PTL DEF Spec, ImplementsBoard, Board!Spec

(***************************************************************************)
(* The repair of a damaged journal (JournalRepair).                        *)
(***************************************************************************)
CONSTANTS MaxJournals, MaxLosses
VARIABLES dir, disk, damaged, committed, step, losses

\* The repair of the agent's journal, for any number of journals and faults.
Repair == INSTANCE JournalRepair WITH MaxFaults <- MaxLosses, faults <- losses

\* No repair is announced on the disk: the log is there exactly when the
\* database has committed rows, and so are the names of both.
Clean ==
    /\ dir.wal = disk.wal /\ dir.wal = (IF dir.main \in committed THEN dir.main ELSE 0)
    /\ disk.main = dir.main \/ (disk.main = 0 /\ dir.main \notin committed)

\* The inductive invariant of the repair.  Between the announcement on the disk
\* and its retirement only a damaged journal is under a name, and what is
\* announced or retired is durable before the next step.
RepairInv ==
    /\ Repair!TypeOK
    /\ step = "announced" => ~disk.marker /\ dir.main \in damaged
    /\ step = "retired" => ~dir.marker /\ disk.marker
    /\ step \notin {"announced", "retired"} => dir.marker = disk.marker
    /\ step \in {"opening", "open"} => ~dir.marker
    /\ step = "open" => dir.main # 0
    /\ ~disk.marker => Clean
    /\ disk.marker => {dir.main, disk.main} \subseteq damaged \cup {0}
    /\ step \in {"moved-main", "moved-wal", "moved", "retired"} => dir.main = 0
    /\ step \in {"moved-wal", "moved", "retired"} => dir.wal = 0
    /\ step \in {"moved", "retired"} => disk.main = 0 /\ disk.wal = 0

\* The initial state satisfies the invariant.
LEMMA RepairInit == ASSUME Repair!Assumed, Repair!Init PROVE RepairInv
<1> USE DEF Repair!Assumed, Repair!Init
<1>1. dir \in Repair!Directory /\ disk \in Repair!Directory
  BY DEF Repair!Directory
<1>2. QED
  BY <1>1 DEF RepairInv, Clean, Repair!TypeOK, Repair!Steps

\* A pass over a pending repair (finish_pending_state_repair) keeps it.
LEMMA RepairPassStep ==
  ASSUME Repair!Assumed, RepairInv, Repair!open_recovered
  PROVE  RepairInv'
<1> USE DEF Repair!Assumed, RepairInv, Clean, Repair!TypeOK, Repair!Steps, Repair!Goto,
            Repair!Renamed, Repair!sync_state_directory, Repair!Directory, Repair!Journals
<1>1. CASE Repair!finish_pending
  BY <1>1 DEF Repair!finish_pending
<1>2. CASE Repair!open
  <2>1. dir'.main \in Repair!Journals /\ dir'.wal = dir.wal /\ dir'.marker = dir.marker
        /\ dir' \in Repair!Directory
    BY <1>2 DEF Repair!open, Repair!Fresh
  <2>2. (dir.main # 0 /\ dir' = dir) \/ (dir.main = 0 /\ dir'.main \notin committed)
    <3>1. \A j \in Repair!Fresh : j \notin committed
      BY DEF Repair!Fresh, Repair!Created
    <3>2. QED
      BY <1>2, <3>1 DEF Repair!open
  <2>3. QED
    BY <1>2, <2>1, <2>2 DEF Repair!open
<1>3. CASE Repair!Announce
  <2>1. dir' \in Repair!Directory /\ dir'.main = dir.main /\ dir'.wal = dir.wal /\ dir'.marker
    BY Zenon, <1>3 DEF Repair!Announce
  <2>2. dir.main \in damaged /\ ~disk.marker /\ step' = "announced"
        /\ UNCHANGED <<disk, damaged, committed, losses>>
    BY ZenonT(60), <1>3 DEF Repair!Announce
  <2>3. QED
    BY <2>1, <2>2
<1>4. CASE Repair!Announced
  BY <1>4 DEF Repair!Announced
<1>5. CASE Repair!MoveMain
  BY <1>5 DEF Repair!MoveMain
<1>6. CASE Repair!MoveWal
  BY ZenonT(60), <1>6 DEF Repair!MoveWal
<1>7. CASE Repair!Moved
  BY ZenonT(60), <1>7 DEF Repair!Moved
<1>8. CASE Repair!Retire
  <2>1. dir' \in Repair!Directory /\ dir'.main = 0 /\ dir'.wal = 0 /\ ~dir'.marker
    BY Zenon, <1>8 DEF Repair!Retire
  <2>2. disk.main = 0 /\ disk.wal = 0 /\ disk.marker /\ step' = "retired"
        /\ UNCHANGED <<disk, damaged, committed, losses>>
    BY ZenonT(60), <1>8 DEF Repair!Retire
  <2>3. QED
    BY <2>1, <2>2
<1>9. CASE Repair!Retired
  BY ZenonT(60), <1>9 DEF Repair!Retired
<1>10. QED
  BY <1>1, <1>2, <1>3, <1>4, <1>5, <1>6, <1>7, <1>8, <1>9, Zenon DEF Repair!open_recovered

\* The journal in use, its damage, a failing rename and a crash keep it.
LEMMA RepairUseStep ==
  ASSUME Repair!Assumed, RepairInv,
         Repair!Fail \/ Repair!Commit \/ Repair!Damage \/ Repair!restore_custody \/ Repair!Crash
  PROVE  RepairInv'
<1> USE DEF Repair!Assumed, RepairInv, Clean, Repair!TypeOK, Repair!Steps, Repair!Goto,
            Repair!Directory, Repair!Journals
<1>1. CASE Repair!Fail
  BY <1>1 DEF Repair!Fail
<1>2. CASE Repair!Commit
  <2>1. dir'.main = dir.main /\ dir'.wal = dir.main /\ dir'.marker = dir.marker
        /\ dir' \in Repair!Directory /\ disk' = dir' /\ dir.main \in Repair!Journals
    BY <1>2 DEF Repair!Commit
  <2>2. committed' = committed \cup {dir.main} /\ step = "open"
        /\ UNCHANGED <<damaged, step, losses>>
    BY <1>2 DEF Repair!Commit
  <2>3. QED
    BY Zenon, <2>1, <2>2
<1>3. CASE Repair!Damage
  <2>1. dir.main \in 1 .. MaxJournals /\ ~dir.marker /\ ~disk.marker
    BY <1>3 DEF Repair!Damage
  <2>2. damaged' = damaged \cup {dir.main} /\ step' = "start"
        /\ UNCHANGED <<dir, disk, committed, losses>>
    BY ZenonT(60), <1>3 DEF Repair!Damage
  <2>3. QED
    BY Zenon, <2>1, <2>2
<1>4. CASE Repair!restore_custody
  BY ZenonT(60), <1>4 DEF Repair!restore_custody
<1>5. CASE Repair!Crash
  <2>1. PICK main \in {dir.main, disk.main}, wal \in {dir.wal, disk.wal},
             marker \in {dir.marker, disk.marker} :
               dir' = [main |-> main, wal |-> wal, marker |-> marker]
    BY ZenonT(60), <1>5 DEF Repair!Crash
  <2>2. dir'.main = main /\ dir'.wal = wal /\ dir'.marker = marker /\ disk' = dir'
        /\ step' = "start" /\ damaged' = damaged /\ committed' = committed
        /\ losses' \in 0 .. MaxLosses
    BY <1>5, <2>1 DEF Repair!Crash
  <2>3. Repair!TypeOK'
    BY <2>1, <2>2
  <2>4. marker => {main} \subseteq damaged \cup {0}
    BY Zenon, <2>1
  <2>5. ~marker => wal = IF main \in committed THEN main ELSE 0
    BY <2>1
  <2>6. QED
    BY ZenonT(60), <2>2, <2>3, <2>4, <2>5
<1>6. QED
  BY ZenonT(60), <1>1, <1>2, <1>3, <1>4, <1>5

\* The inductive invariant holds in every reachable state of the repair.
LEMMA RepairInvariance == ASSUME Repair!Assumed PROVE Repair!Spec => []RepairInv
<1>1. Repair!Init => RepairInv
  BY RepairInit
<1>2. RepairInv /\ [Repair!Next]_(Repair!vars) => RepairInv'
  <2> SUFFICES ASSUME RepairInv, [Repair!Next]_(Repair!vars) PROVE RepairInv'
    OBVIOUS
  <2>1. CASE Repair!Next
    BY <2>1, RepairPassStep, RepairUseStep, Zenon DEF Repair!Next
  <2>2. CASE UNCHANGED Repair!vars
    BY <2>2 DEF Repair!vars, RepairInv, Clean, Repair!TypeOK
  <2>3. QED
    BY <2>1, <2>2
<1>3. QED
  BY <1>1, <1>2, PTL DEF Repair!Spec

\* For any number of journals, crashes and failing renames, a journal is never
\* used without the log that holds its committed rows nor beside the log of
\* another (open_recovered, finish_pending_state_repair).
THEOREM RepairedIsWhole ==
  ASSUME Repair!Assumed PROVE Repair!Spec => [](Repair!TypeOK /\ Repair!NeverTorn)
<1>1. RepairInv => Repair!TypeOK /\ Repair!NeverTorn
  BY DEF RepairInv, Clean, Repair!NeverTorn
<1>2. QED
  BY <1>1, RepairInvariance, PTL

\* And one that has committed rows and can be read is never moved away.
THEOREM ReadableIsKept ==
  ASSUME Repair!Assumed PROVE Repair!Spec => Repair!KeptWhileReadable
<1>1. ASSUME RepairInv, Repair!Next, NEW j \in committed \ damaged, dir.main = j
      PROVE  dir'.main = j
  BY <1>1 DEF RepairInv, Clean, Repair!TypeOK, Repair!Directory, Repair!Journals, Repair!Next,
     Repair!open_recovered,
     Repair!finish_pending, Repair!open, Repair!Announce, Repair!Announced, Repair!MoveMain,
     Repair!MoveWal, Repair!Moved, Repair!Retire, Repair!Retired, Repair!Goto, Repair!Renamed,
     Repair!sync_state_directory, Repair!Fail, Repair!Commit, Repair!Damage,
     Repair!restore_custody, Repair!Crash
<1>2. RepairInv /\ [Repair!Next]_(Repair!vars) =>
        [\A j \in committed \ damaged : dir.main = j => dir'.main = j]_(Repair!vars)
  BY <1>1, Zenon
<1>3. QED
  BY <1>2, RepairInvariance, PTL DEF Repair!Spec, Repair!KeptWhileReadable

(***************************************************************************)
(* The activation of a package (PackageActivation).                        *)
(***************************************************************************)
CONSTANTS Installs, Source, Candidate, PrepareFaults, DEADLINE, RETRY, MaxFailures
VARIABLES tx, receipt, custody, installed, agent, inst, intent, blocker, rec, dog,
          grant, power, failures

\* The activation of packages, for any requests, builds, deadlines and faults.
Package == INSTANCE PackageActivation WITH
    Requests <- Installs, MaxFaults <- MaxFailures, disk <- installed, up <- power,
    faults <- failures

\* The requests and their builds.
LEMMA PackageConstants ==
  ASSUME Package!Assumed
  PROVE  /\ 0 \notin Installs /\ 1 \in Installs /\ Installs \subseteq Nat
         /\ \A i \in Installs : Source[i] \in Package!Builds /\ Candidate[i] \in Package!Builds
         /\ Package!Builds \subseteq Nat /\ Package!Down \notin Package!Builds
         /\ DEADLINE \in Nat \ {0} /\ RETRY \in Nat /\ MaxFailures \in Nat
         /\ \A i \in Installs : Source[i] # Candidate[i]
<1>1. /\ 0 \notin Installs /\ 1 \in Installs /\ Installs \subseteq Nat
      /\ DEADLINE \in Nat \ {0} /\ RETRY \in Nat /\ MaxFailures \in Nat
      /\ \A i \in Installs : Source[i] # Candidate[i]
  BY DEF Package!Assumed
<1>2. \A i \in Installs : Source[i] \in Package!Builds /\ Candidate[i] \in Package!Builds
  BY DEF Package!Builds
<1>3. Package!Builds \subseteq Nat
  BY DEF Package!Builds, Package!Assumed
<1>4. QED
  BY <1>1, <1>2, <1>3 DEF Package!Down

\* An install runs under the agent it was planned from; past the arming it is
\* of the transaction, whose time to restore it does not outlast.  Each unit that
\* works has a request to work on.
Assigned ==
    /\ inst.pc # "idle" => inst.req # 0 /\ agent = Source[inst.req]
    /\ inst.pc \in {"verified", "fenced", "copied"} => tx.req < inst.req
    /\ inst.pc \in {"armed", "dpkg", "half"} =>
         inst.req = tx.req /\ tx.budget > 0 /\ tx.phase # "rolled_back"
    /\ rec \in {"stopped", "half", "installed", "released"} => intent # 0
    /\ dog # "off" => tx.req # 0

\* Without power, and once the recovery unit or the watchdog has stopped the
\* services, nothing else runs; an agent that does not run holds no grant.
StoppedIsQuiet ==
    /\ ~power => agent = Package!Down /\ inst = Package!Idle /\ rec = "off" /\ dog = "off"
    /\ rec \in {"stopped", "half", "installed"} => agent = Package!Down /\ inst = Package!Idle
    /\ dog \in {"stopped", "half", "installed"} =>
         agent = Package!Down /\ inst = Package!Idle /\ rec = "off"
    /\ agent = Package!Down => grant = 0

\* The watchdog that restores has the transaction directory to itself.
Restores ==
    /\ Package!Restoring => inst.pc # "copied" /\ tx.phase = "rolling_back"
    /\ dog \in {"checked", "stopped", "half", "installed"} => custody = Source[tx.req]

\* The grant in hand is of the agent that runs.  An agent that runs beside an
\* intent is the intent's candidate, or the intent still awaits its recovery: then
\* there is time to restore, and the agent is not another transaction's candidate.
Confirms ==
    /\ receipt.req <= tx.req /\ grant <= tx.req
    /\ grant # 0 /\ grant = tx.req => agent = Candidate[grant]
    /\ intent # 0 /\ agent # Package!Down =>
         \/ agent = Candidate[intent]
         \/ rec = "wait" /\ tx.budget > 0 /\ (intent = tx.req \/ agent = Source[tx.req])

\* A settled transaction is what is installed, and what an intent could still
\* install is the same build.
Settles ==
    tx.req # 0 =>
      /\ tx.phase = "acknowledged" =>
           /\ installed = Package!Files(Candidate[tx.req])
           /\ intent # 0 => Candidate[intent] = Candidate[tx.req]
      /\ tx.phase = "rolled_back" =>
           /\ installed = Package!Files(Source[tx.req])
           /\ intent # 0 => Candidate[intent] = Source[tx.req]

\* The types in groups: what is stored, the host, its switches and its units.
StoreTypes ==
    /\ tx \in [req : Installs \cup {0}, phase : Package!Phases,
               deadline : 0 .. DEADLINE, budget : 0 .. DEADLINE + RETRY]
    /\ receipt \in [req : Installs \cup {0}, phase : Package!Phases]
    /\ custody \in Package!Builds \cup {Package!Down}
HostTypes ==
    /\ installed \in [agent : Package!Builds, helper : Package!Builds]
    /\ agent \in Package!Builds \cup {Package!Down}
SwitchTypes == blocker \in BOOLEAN /\ power \in BOOLEAN
FaultTypes == failures \in 0 .. MaxFailures
UnitTypes ==
    /\ inst \in [pc : {"idle", "verified", "fenced", "copied", "armed", "dpkg", "half"},
                 req : Installs \cup {0}]
    /\ intent \in Installs \cup {0}
    /\ rec \in {"off", "wait", "stopped", "half", "installed", "released"}
    /\ dog \in {"off", "watch", "restore", "checked", "stopped", "half", "installed"}
    /\ grant \in Installs \cup {0}

\* The groups are the types, of a state and of its successor.
LEMMA PackageTypes ==
  /\ Package!TypeOK <=>
       StoreTypes /\ HostTypes /\ SwitchTypes /\ FaultTypes /\ UnitTypes
  /\ Package!TypeOK' <=>
       StoreTypes' /\ HostTypes' /\ SwitchTypes' /\ FaultTypes' /\ UnitTypes'
BY Zenon DEF Package!TypeOK, StoreTypes, HostTypes, SwitchTypes, FaultTypes, UnitTypes

\* The inductive invariant of the activation.
PackageInv ==
    Package!TypeOK /\ Assigned /\ StoppedIsQuiet /\ Restores /\ Confirms /\ Settles

\* The initial state satisfies it.
LEMMA PackageInit == ASSUME Package!Assumed, Package!Init PROVE PackageInv
<1>1. StoreTypes
  BY PackageConstants DEF Package!Init, StoreTypes, Package!None, Package!Phases
<1>2. HostTypes
  BY ZenonT(60), PackageConstants DEF Package!Init, HostTypes, Package!Files
<1>3. UnitTypes /\ FaultTypes
  BY PackageConstants DEF Package!Init, UnitTypes, FaultTypes, Package!Idle
<1>6. SwitchTypes
  BY Zenon DEF Package!Init, SwitchTypes
<1>4. Assigned /\ StoppedIsQuiet /\ Restores /\ Confirms /\ Settles
  BY PackageConstants DEF Package!Init, Assigned, StoppedIsQuiet, Restores, Confirms, Settles,
     Package!Restoring, Package!Idle, Package!None
<1>5. QED
  BY ZenonT(60), <1>1, <1>2, <1>3, <1>4, <1>6, PackageTypes DEF PackageInv

\* The steps of the helper's install keep the invariant (install_package,
\* Store::prepare).
LEMMA PackageInstallStep ==
  ASSUME Package!Assumed, PackageInv, Package!Install
  PROVE  PackageInv'
<1>0. /\ StoreTypes /\ HostTypes /\ SwitchTypes /\ FaultTypes /\ UnitTypes
      /\ Assigned /\ StoppedIsQuiet /\ Restores /\ Confirms /\ Settles
  BY PackageTypes DEF PackageInv
<1>1. ASSUME NEW i \in Installs, Package!Verified(i) PROVE PackageInv'
  <2>1. StoreTypes' /\ HostTypes'
    BY ZenonT(60), <1>0, <1>1 DEF StoreTypes, HostTypes, Package!Verified
  <2>2. FaultTypes' /\ UnitTypes'
    BY <1>0, <1>1 DEF FaultTypes, UnitTypes, Package!Verified
  <2>3. SwitchTypes'
    BY <1>0, <1>1, Zenon DEF SwitchTypes, Package!Verified
  <2>4. Assigned' /\ StoppedIsQuiet'
    BY ZenonT(60), <1>0, <1>1, PackageConstants DEF Assigned, StoppedIsQuiet, Package!Verified
  <2>5. Restores'
    BY ZenonT(60), <1>0, <1>1 DEF Restores, Package!Verified, Package!Restoring
  <2>6. Confirms'
    BY ZenonT(60), <1>0, <1>1 DEF Confirms, Package!Verified
  <2>7. Settles'
    BY <1>0, <1>1 DEF Settles, Package!Verified
  <2>8. QED
    BY <2>1, <2>2, <2>3, <2>4, <2>5, <2>6, <2>7, PackageTypes, Zenon DEF PackageInv
<1>2. CASE Package!Fenced
  <2>1. StoreTypes' /\ HostTypes'
    BY <1>0, <1>2 DEF StoreTypes, HostTypes, Package!Fenced
  <2>2. FaultTypes' /\ UnitTypes'
    BY <1>0, <1>2 DEF FaultTypes, UnitTypes, Package!Fenced
  <2>3. SwitchTypes'
    BY <1>0, <1>2, Zenon DEF SwitchTypes, Package!Fenced
  <2>4. Assigned' /\ StoppedIsQuiet'
    BY <1>0, <1>2, PackageConstants DEF UnitTypes, Assigned, StoppedIsQuiet, Package!Fenced
  <2>5. Restores'
    BY ZenonT(60), <1>0, <1>2 DEF Restores, Package!Fenced, Package!Restoring
  <2>6. Confirms'
    BY <1>0, <1>2 DEF Confirms, Package!Fenced
  <2>7. Settles'
    BY ZenonT(60), <1>0, <1>2 DEF Settles, Package!Fenced
  <2>8. QED
    BY <2>1, <2>2, <2>3, <2>4, <2>5, <2>6, <2>7, PackageTypes, Zenon DEF PackageInv
<1>3. CASE Package!Copied
  <2>1. StoreTypes' /\ HostTypes'
    BY <1>0, <1>3 DEF StoreTypes, HostTypes, Assigned, Package!Copied
  <2>2. FaultTypes' /\ UnitTypes'
    BY <1>0, <1>3 DEF FaultTypes, UnitTypes, Package!Copied
  <2>3. SwitchTypes'
    BY <1>0, <1>3, Zenon DEF SwitchTypes, Package!Copied
  <2>4. Assigned' /\ StoppedIsQuiet'
    BY <1>0, <1>3, PackageConstants DEF UnitTypes, Assigned, StoppedIsQuiet, Package!Copied
  <2>5. Restores'
    BY <1>0, <1>3 DEF Restores, Package!Copied, Package!LockFree, Package!Restoring
  <2>6. Confirms'
    BY <1>0, <1>3 DEF Confirms, Package!Copied
  <2>7. Settles'
    BY ZenonT(60), <1>0, <1>3 DEF Settles, Package!Copied
  <2>8. QED
    BY <2>1, <2>2, <2>3, <2>4, <2>5, <2>6, <2>7, PackageTypes, Zenon DEF PackageInv
<1>4. CASE Package!Armed
  <2>1. StoreTypes' /\ HostTypes'
    BY <1>0, <1>4, PackageConstants DEF StoreTypes, HostTypes, UnitTypes, Package!Armed,
       Package!Phases, Package!Written, Package!PowerLost
  <2>2. FaultTypes' /\ UnitTypes'
    BY <1>0, <1>4, PackageConstants DEF FaultTypes, UnitTypes, Package!Armed, Package!Idle,
       Package!Written, Package!PowerLost, Package!Fault
  <2>3. SwitchTypes'
    BY <1>0, <1>4, Zenon DEF SwitchTypes, Package!Armed, Package!Written, Package!PowerLost
  <2>4. Assigned' /\ StoppedIsQuiet'
    BY <1>0, <1>4, PackageConstants DEF UnitTypes, Assigned, StoppedIsQuiet, Package!Armed,
       Package!Idle, Package!Written, Package!PowerLost
  <2>5. Restores'
    BY <1>0, <1>4 DEF Restores, Package!Armed, Package!Written, Package!PowerLost,
       Package!Restoring
  <2>6. Confirms'
    BY <1>0, <1>4, PackageConstants DEF StoreTypes, UnitTypes, Assigned, Confirms,
       Package!Armed, Package!Written, Package!PowerLost
  <2>7. Settles'
    BY ZenonT(60), <1>0, <1>4 DEF Settles, Package!Armed, Package!Written
  <2>8. QED
    BY <2>1, <2>2, <2>3, <2>4, <2>5, <2>6, <2>7, PackageTypes, Zenon DEF PackageInv
<1>5. CASE Package!PrepareFails
  <2>1. StoreTypes' /\ HostTypes'
    BY ZenonT(60), <1>0, <1>5 DEF StoreTypes, HostTypes, Package!PrepareFails
  <2>2. FaultTypes' /\ UnitTypes'
    BY <1>0, <1>5, PackageConstants DEF FaultTypes, UnitTypes, Package!PrepareFails,
       Package!Idle, Package!Fault
  <2>3. SwitchTypes'
    BY <1>0, <1>5, Zenon DEF SwitchTypes, Package!PrepareFails
  <2>4. Assigned' /\ StoppedIsQuiet'
    BY ZenonT(60), <1>0, <1>5 DEF Assigned, StoppedIsQuiet, Package!PrepareFails, Package!Idle
  <2>5. Restores'
    BY ZenonT(60), <1>0, <1>5 DEF Restores, Package!PrepareFails, Package!Idle, Package!Restoring
  <2>6. Confirms'
    BY ZenonT(60), <1>0, <1>5 DEF Confirms, Package!PrepareFails
  <2>7. Settles'
    BY ZenonT(60), <1>0, <1>5 DEF Settles, Package!PrepareFails
  <2>8. QED
    BY <2>1, <2>2, <2>3, <2>4, <2>5, <2>6, <2>7, PackageTypes, Zenon DEF PackageInv
<1>6. CASE Package!InstallStarts
  <2>1. StoreTypes' /\ HostTypes'
    BY <1>0, <1>6 DEF StoreTypes, HostTypes, Package!InstallStarts
  <2>2. FaultTypes' /\ UnitTypes'
    BY <1>0, <1>6 DEF FaultTypes, UnitTypes, Package!InstallStarts
  <2>3. SwitchTypes'
    BY <1>0, <1>6, Zenon DEF SwitchTypes, Package!InstallStarts
  <2>4. Assigned' /\ StoppedIsQuiet'
    BY <1>0, <1>6, PackageConstants DEF StoreTypes, Assigned, StoppedIsQuiet,
       Package!InstallStarts
  <2>5. Restores'
    BY ZenonT(60), <1>0, <1>6 DEF Restores, Package!InstallStarts, Package!Restoring
  <2>6. Confirms'
    BY ZenonT(60), <1>0, <1>6 DEF Assigned, Confirms, Package!InstallStarts
  <2>7. Settles'
    BY ZenonT(60), <1>0, <1>6 DEF Assigned, Settles, Package!InstallStarts
  <2>8. QED
    BY <2>1, <2>2, <2>3, <2>4, <2>5, <2>6, <2>7, PackageTypes, Zenon DEF PackageInv
<1>7. CASE Package!AgentReplaced
  <2>1. StoreTypes' /\ HostTypes'
    BY ZenonT(60), <1>0, <1>7, PackageConstants DEF StoreTypes, HostTypes, Assigned,
       Package!AgentReplaced
  <2>2. FaultTypes' /\ UnitTypes'
    BY <1>0, <1>7 DEF FaultTypes, UnitTypes, Package!AgentReplaced
  <2>3. SwitchTypes'
    BY <1>0, <1>7, Zenon DEF SwitchTypes, Package!AgentReplaced
  <2>4. Assigned' /\ StoppedIsQuiet'
    BY <1>0, <1>7, PackageConstants DEF StoreTypes, Assigned, StoppedIsQuiet,
       Package!AgentReplaced
  <2>5. Restores'
    BY <1>0, <1>7 DEF Restores, Package!AgentReplaced, Package!Restoring
  <2>6. Confirms'
    BY ZenonT(60), <1>0, <1>7 DEF Confirms, Package!AgentReplaced
  <2>7. Settles'
    BY <1>0, <1>7 DEF Assigned, Settles, Package!Files, Package!AgentReplaced
  <2>8. QED
    BY <2>1, <2>2, <2>3, <2>4, <2>5, <2>6, <2>7, PackageTypes, Zenon DEF PackageInv
<1>8. CASE Package!HelperReplaced
  <2>1. StoreTypes' /\ HostTypes'
    BY ZenonT(60), <1>0, <1>8, PackageConstants DEF StoreTypes, HostTypes, Assigned,
       Package!HelperReplaced
  <2>2. FaultTypes' /\ UnitTypes'
    BY <1>0, <1>8 DEF FaultTypes, UnitTypes, Package!HelperReplaced, Package!Idle
  <2>3. SwitchTypes'
    BY <1>0, <1>8, Zenon DEF SwitchTypes, Package!HelperReplaced
  <2>4. Assigned' /\ StoppedIsQuiet'
    BY <1>0, <1>8, PackageConstants DEF StoreTypes, Assigned, StoppedIsQuiet,
       Package!HelperReplaced, Package!Idle
  <2>5. Restores'
    BY ZenonT(60), <1>0, <1>8 DEF Restores, Package!HelperReplaced, Package!Idle,
       Package!Restoring
  <2>6. Confirms'
    BY ZenonT(60), <1>0, <1>8 DEF Assigned, Confirms, Package!HelperReplaced
  <2>7. Settles'
    BY <1>0, <1>8 DEF Assigned, Settles, Package!Files, Package!HelperReplaced
  <2>8. QED
    BY <2>1, <2>2, <2>3, <2>4, <2>5, <2>6, <2>7, PackageTypes, Zenon DEF PackageInv
<1>9. CASE Package!InstallFails
  <2>1. StoreTypes' /\ HostTypes'
    BY <1>0, <1>9 DEF StoreTypes, HostTypes, Package!InstallFails, Package!Phases,
       Package!InPhase
  <2>2. FaultTypes' /\ UnitTypes'
    BY <1>0, <1>9, PackageConstants DEF FaultTypes, UnitTypes, Package!InstallFails,
       Package!Idle, Package!Fault
  <2>3. SwitchTypes'
    BY <1>0, <1>9, Zenon DEF SwitchTypes, Package!InstallFails
  <2>4. Assigned' /\ StoppedIsQuiet'
    BY <1>0, <1>9 DEF StoreTypes, Assigned, StoppedIsQuiet, Package!InstallFails,
       Package!Idle, Package!InPhase
  <2>5. Restores'
    BY ZenonT(60), <1>0, <1>9 DEF Restores, Package!InstallFails, Package!Idle, Package!Restoring
  <2>6. Confirms'
    BY <1>0, <1>9 DEF StoreTypes, Confirms, Package!InstallFails, Package!InPhase
  <2>7. Settles'
    BY <1>0, <1>9 DEF StoreTypes, Settles, Package!InstallFails, Package!InPhase
  <2>8. QED
    BY <2>1, <2>2, <2>3, <2>4, <2>5, <2>6, <2>7, PackageTypes, Zenon DEF PackageInv
<1>10. QED
  BY <1>1, <1>2, <1>3, <1>4, <1>5, <1>6, <1>7, <1>8, <1>9, Zenon DEF Package!Install

\* So do the steps of the recovery unit (preinst recover).
LEMMA PackageRecoveryStep ==
  ASSUME Package!Assumed, PackageInv, Package!Recovery
  PROVE  PackageInv'
<1>0. /\ StoreTypes /\ HostTypes /\ SwitchTypes /\ FaultTypes /\ UnitTypes
      /\ Assigned /\ StoppedIsQuiet /\ Restores /\ Confirms /\ Settles
  BY PackageTypes DEF PackageInv
<1>1. CASE Package!RecoveryStops
  <2>1. StoreTypes' /\ HostTypes'
    BY ZenonT(60), <1>0, <1>1 DEF StoreTypes, HostTypes, Package!RecoveryStops,
       Package!StopServices
  <2>2. FaultTypes' /\ UnitTypes'
    BY <1>0, <1>1 DEF FaultTypes, UnitTypes, Package!RecoveryStops, Package!Idle,
       Package!StopServices
  <2>3. SwitchTypes'
    BY <1>0, <1>1, Zenon DEF SwitchTypes, Package!RecoveryStops
  <2>4. Assigned' /\ StoppedIsQuiet'
    BY ZenonT(60), <1>0, <1>1 DEF Assigned, StoppedIsQuiet, Package!RecoveryStops, Package!Idle,
       Package!StopServices
  <2>5. Restores'
    BY ZenonT(60), <1>0, <1>1 DEF Restores, Package!RecoveryStops, Package!Idle,
       Package!Restoring,
       Package!StopServices
  <2>6. Confirms'
    BY <1>0, <1>1, PackageConstants DEF StoreTypes, Confirms, Package!RecoveryStops,
       Package!StopServices
  <2>7. Settles'
    BY ZenonT(60), <1>0, <1>1 DEF Settles, Package!RecoveryStops
  <2>8. QED
    BY <2>1, <2>2, <2>3, <2>4, <2>5, <2>6, <2>7, PackageTypes, Zenon DEF PackageInv
<1>2. CASE Package!RecoveryAbandons
  <2>1. StoreTypes' /\ HostTypes'
    BY ZenonT(60), <1>0, <1>2 DEF StoreTypes, HostTypes, Package!RecoveryAbandons
  <2>2. FaultTypes' /\ UnitTypes'
    BY <1>0, <1>2 DEF FaultTypes, UnitTypes, Package!RecoveryAbandons
  <2>3. SwitchTypes'
    BY <1>0, <1>2, Zenon DEF SwitchTypes, Package!RecoveryAbandons
  <2>4. Assigned' /\ StoppedIsQuiet'
    BY ZenonT(60), <1>0, <1>2, PackageConstants DEF UnitTypes, Assigned, StoppedIsQuiet,
       Package!RecoveryAbandons
  <2>5. Restores'
    BY ZenonT(60), <1>0, <1>2 DEF Restores, Package!RecoveryAbandons, Package!Restoring
  <2>6. Confirms'
    BY ZenonT(60), <1>0, <1>2 DEF StoppedIsQuiet, Confirms, Package!RecoveryAbandons
  <2>7. Settles'
    BY ZenonT(60), <1>0, <1>2 DEF Settles, Package!RecoveryAbandons
  <2>8. QED
    BY <2>1, <2>2, <2>3, <2>4, <2>5, <2>6, <2>7, PackageTypes, Zenon DEF PackageInv
<1>3. CASE Package!RecoveryReplacesAgent
  <2>1. StoreTypes' /\ HostTypes'
    BY <1>0, <1>3, PackageConstants DEF StoreTypes, HostTypes, UnitTypes, Assigned,
       Package!RecoveryReplacesAgent
  <2>2. FaultTypes' /\ UnitTypes'
    BY <1>0, <1>3 DEF FaultTypes, UnitTypes, Package!RecoveryReplacesAgent
  <2>3. SwitchTypes'
    BY <1>0, <1>3, Zenon DEF SwitchTypes, Package!RecoveryReplacesAgent
  <2>4. Assigned' /\ StoppedIsQuiet'
    BY <1>0, <1>3 DEF Assigned, StoppedIsQuiet, Package!RecoveryReplacesAgent
  <2>5. Restores'
    BY <1>0, <1>3 DEF Restores, Package!RecoveryReplacesAgent, Package!Restoring
  <2>6. Confirms'
    BY <1>0, <1>3 DEF Confirms, Package!RecoveryReplacesAgent
  <2>7. Settles'
    BY <1>0, <1>3 DEF Assigned, Settles, Package!Files, Package!RecoveryReplacesAgent
  <2>8. QED
    BY <2>1, <2>2, <2>3, <2>4, <2>5, <2>6, <2>7, PackageTypes, Zenon DEF PackageInv
<1>4. CASE Package!RecoveryReplacesHelper
  <2>1. StoreTypes' /\ HostTypes'
    BY <1>0, <1>4, PackageConstants DEF StoreTypes, HostTypes, UnitTypes, Assigned,
       Package!RecoveryReplacesHelper
  <2>2. FaultTypes' /\ UnitTypes'
    BY <1>0, <1>4 DEF FaultTypes, UnitTypes, Package!RecoveryReplacesHelper
  <2>3. SwitchTypes'
    BY <1>0, <1>4, Zenon DEF SwitchTypes, Package!RecoveryReplacesHelper
  <2>4. Assigned' /\ StoppedIsQuiet'
    BY <1>0, <1>4 DEF Assigned, StoppedIsQuiet, Package!RecoveryReplacesHelper
  <2>5. Restores'
    BY <1>0, <1>4 DEF Restores, Package!RecoveryReplacesHelper, Package!Restoring
  <2>6. Confirms'
    BY <1>0, <1>4 DEF Confirms, Package!RecoveryReplacesHelper
  <2>7. Settles'
    BY <1>0, <1>4 DEF Assigned, Settles, Package!Files, Package!RecoveryReplacesHelper
  <2>8. QED
    BY <2>1, <2>2, <2>3, <2>4, <2>5, <2>6, <2>7, PackageTypes, Zenon DEF PackageInv
<1>5. CASE Package!RecoveryReleases
  <2>1. StoreTypes' /\ HostTypes'
    BY ZenonT(60), <1>0, <1>5 DEF StoreTypes, HostTypes, Package!RecoveryReleases
  <2>2. FaultTypes' /\ UnitTypes'
    BY <1>0, <1>5 DEF FaultTypes, UnitTypes, Package!RecoveryReleases
  <2>3. SwitchTypes'
    BY <1>0, <1>5, Zenon DEF SwitchTypes, Package!RecoveryReleases
  <2>4. Assigned' /\ StoppedIsQuiet'
    BY ZenonT(60), <1>0, <1>5, PackageConstants DEF UnitTypes, Assigned, StoppedIsQuiet,
       Package!RecoveryReleases
  <2>5. Restores'
    BY ZenonT(60), <1>0, <1>5 DEF Restores, Package!RecoveryReleases, Package!Restoring
  <2>6. Confirms'
    BY ZenonT(60), <1>0, <1>5 DEF StoppedIsQuiet, Confirms, Package!Files,
       Package!RecoveryReleases
  <2>7. Settles'
    BY ZenonT(60), <1>0, <1>5 DEF Settles, Package!RecoveryReleases
  <2>8. QED
    BY <2>1, <2>2, <2>3, <2>4, <2>5, <2>6, <2>7, PackageTypes, Zenon DEF PackageInv
<1>6. CASE Package!RecoveryRetires
  <2>1. StoreTypes' /\ HostTypes'
    BY ZenonT(60), <1>0, <1>6 DEF StoreTypes, HostTypes, Package!RecoveryRetires
  <2>2. FaultTypes' /\ UnitTypes'
    BY <1>0, <1>6 DEF FaultTypes, UnitTypes, Package!RecoveryRetires
  <2>3. SwitchTypes'
    BY <1>0, <1>6, Zenon DEF SwitchTypes, Package!RecoveryRetires
  <2>4. Assigned' /\ StoppedIsQuiet'
    BY ZenonT(60), <1>0, <1>6 DEF Assigned, StoppedIsQuiet, Package!RecoveryRetires
  <2>5. Restores'
    BY ZenonT(60), <1>0, <1>6 DEF Restores, Package!RecoveryRetires, Package!Restoring
  <2>6. Confirms'
    BY ZenonT(60), <1>0, <1>6 DEF Confirms, Package!RecoveryRetires
  <2>7. Settles'
    BY ZenonT(60), <1>0, <1>6 DEF Settles, Package!RecoveryRetires
  <2>8. QED
    BY <2>1, <2>2, <2>3, <2>4, <2>5, <2>6, <2>7, PackageTypes, Zenon DEF PackageInv
<1>7. CASE Package!RecoveryFails
  <2>1. StoreTypes' /\ HostTypes'
    BY ZenonT(60), <1>0, <1>7 DEF StoreTypes, HostTypes, Package!RecoveryFails
  <2>2. FaultTypes' /\ UnitTypes'
    BY <1>0, <1>7, PackageConstants DEF FaultTypes, UnitTypes, Package!RecoveryFails,
       Package!Fault
  <2>3. SwitchTypes'
    BY <1>0, <1>7, Zenon DEF SwitchTypes, Package!RecoveryFails
  <2>4. Assigned' /\ StoppedIsQuiet'
    BY ZenonT(60), <1>0, <1>7 DEF Assigned, StoppedIsQuiet, Package!RecoveryFails
  <2>5. Restores'
    BY ZenonT(60), <1>0, <1>7 DEF Restores, Package!RecoveryFails, Package!Restoring
  <2>6. Confirms'
    BY ZenonT(60), <1>0, <1>7 DEF Confirms, Package!RecoveryFails
  <2>7. Settles'
    BY ZenonT(60), <1>0, <1>7 DEF Settles, Package!RecoveryFails
  <2>8. QED
    BY <2>1, <2>2, <2>3, <2>4, <2>5, <2>6, <2>7, PackageTypes, Zenon DEF PackageInv
<1>8. QED
  BY <1>1, <1>2, <1>3, <1>4, <1>5, <1>6, <1>7, Zenon DEF Package!Recovery

\* And of the confirmation (package_activation::acknowledge, Store::acknowledge).
LEMMA PackageConfirmationStep ==
  ASSUME Package!Assumed, PackageInv, Package!Confirmation
  PROVE  PackageInv'
<1>0. /\ StoreTypes /\ HostTypes /\ SwitchTypes /\ FaultTypes /\ UnitTypes
      /\ Assigned /\ StoppedIsQuiet /\ Restores /\ Confirms /\ Settles
  BY PackageTypes DEF PackageInv
<1>1. CASE Package!Granted
  <2>1. StoreTypes' /\ HostTypes'
    BY ZenonT(60), <1>0, <1>1 DEF StoreTypes, HostTypes, Package!Granted
  <2>2. FaultTypes' /\ UnitTypes'
    BY <1>0, <1>1 DEF StoreTypes, FaultTypes, UnitTypes, Package!Granted
  <2>3. SwitchTypes'
    BY <1>0, <1>1, Zenon DEF SwitchTypes, Package!Granted
  <2>4. Assigned' /\ StoppedIsQuiet'
    BY ZenonT(60), <1>0, <1>1, PackageConstants DEF StoreTypes, Assigned, StoppedIsQuiet,
       Package!Granted
  <2>5. Restores'
    BY ZenonT(60), <1>0, <1>1 DEF Restores, Package!Granted, Package!Restoring
  <2>6. Confirms'
    BY ZenonT(60), <1>0, <1>1 DEF Confirms, Package!Granted
  <2>7. Settles'
    BY ZenonT(60), <1>0, <1>1 DEF Settles, Package!Granted
  <2>8. QED
    BY <2>1, <2>2, <2>3, <2>4, <2>5, <2>6, <2>7, PackageTypes, Zenon DEF PackageInv
<1>2. CASE Package!Acknowledged
  <2>1. StoreTypes' /\ HostTypes'
    <3>1. StoreTypes'
      BY <1>0, <1>2 DEF StoreTypes, Package!Acknowledged, Package!Phases, Package!Written,
         Package!InPhase
    <3>2. HostTypes'
      BY <1>0, <1>2, ZenonT(60) DEF HostTypes, Package!Acknowledged, Package!Written,
         Package!PowerLost
    <3>3. QED
      BY <3>1, <3>2
  <2>2. FaultTypes' /\ UnitTypes'
    BY <1>0, <1>2, PackageConstants DEF FaultTypes, UnitTypes, Package!Acknowledged,
       Package!Idle, Package!Written, Package!PowerLost, Package!Fault
  <2>3. SwitchTypes'
    BY <1>0, <1>2, Zenon DEF SwitchTypes, Package!Acknowledged, Package!Written,
       Package!PowerLost
  <2>4. Assigned' /\ StoppedIsQuiet'
    BY <1>0, <1>2 DEF Assigned, StoppedIsQuiet, Package!Acknowledged, Package!Idle,
       Package!Written, Package!PowerLost, Package!InPhase
  <2>5. Restores'
    BY <1>0, <1>2 DEF Restores, Package!Acknowledged, Package!check_acknowledgement,
       Package!Written, Package!PowerLost, Package!Restoring
  <2>6. Confirms'
    BY <1>0, <1>2, PackageConstants DEF StoreTypes, Confirms, Package!Acknowledged,
       Package!Written, Package!PowerLost, Package!InPhase
  <2>7. Settles'
    BY ZenonT(60), <1>0, <1>2, PackageConstants DEF StoreTypes, Confirms, Settles,
       Package!Acknowledged,
       Package!check_acknowledgement, Package!Written, Package!InPhase
  <2>8. QED
    BY <2>1, <2>2, <2>3, <2>4, <2>5, <2>6, <2>7, PackageTypes, Zenon DEF PackageInv
<1>3. CASE Package!GrantLost
  <2>1. StoreTypes' /\ HostTypes'
    BY ZenonT(60), <1>0, <1>3 DEF StoreTypes, HostTypes, Package!GrantLost
  <2>2. FaultTypes' /\ UnitTypes'
    BY <1>0, <1>3 DEF FaultTypes, UnitTypes, Package!GrantLost
  <2>3. SwitchTypes'
    BY <1>0, <1>3, Zenon DEF SwitchTypes, Package!GrantLost
  <2>4. Assigned' /\ StoppedIsQuiet'
    BY ZenonT(60), <1>0, <1>3 DEF Assigned, StoppedIsQuiet, Package!GrantLost
  <2>5. Restores'
    BY ZenonT(60), <1>0, <1>3 DEF Restores, Package!GrantLost, Package!Restoring
  <2>6. Confirms'
    BY <1>0, <1>3, PackageConstants DEF StoreTypes, Confirms, Package!GrantLost
  <2>7. Settles'
    BY ZenonT(60), <1>0, <1>3 DEF Settles, Package!GrantLost
  <2>8. QED
    BY <2>1, <2>2, <2>3, <2>4, <2>5, <2>6, <2>7, PackageTypes, Zenon DEF PackageInv
<1>4. QED
  BY <1>1, <1>2, <1>3, Zenon DEF Package!Confirmation

\* And of the watchdog (Store::watch, Store::restore).
LEMMA PackageWatchdogStep ==
  ASSUME Package!Assumed, PackageInv, Package!Watchdog
  PROVE  PackageInv'
<1>0. /\ StoreTypes /\ HostTypes /\ SwitchTypes /\ FaultTypes /\ UnitTypes
      /\ Assigned /\ StoppedIsQuiet /\ Restores /\ Confirms /\ Settles
  BY PackageTypes DEF PackageInv
<1>1. CASE Package!WatchEnds
  <2>1. StoreTypes' /\ HostTypes'
    BY ZenonT(60), <1>0, <1>1 DEF StoreTypes, HostTypes, Package!WatchEnds
  <2>2. FaultTypes' /\ UnitTypes'
    BY <1>0, <1>1 DEF FaultTypes, UnitTypes, Package!WatchEnds
  <2>3. SwitchTypes'
    BY <1>0, <1>1, Zenon DEF SwitchTypes, Package!WatchEnds
  <2>4. Assigned' /\ StoppedIsQuiet'
    BY ZenonT(60), <1>0, <1>1 DEF Assigned, StoppedIsQuiet, Package!WatchEnds
  <2>5. Restores'
    BY ZenonT(60), <1>0, <1>1 DEF Restores, Package!WatchEnds, Package!Restoring
  <2>6. Confirms'
    BY ZenonT(60), <1>0, <1>1 DEF Confirms, Package!WatchEnds
  <2>7. Settles'
    BY ZenonT(60), <1>0, <1>1 DEF Settles, Package!WatchEnds
  <2>8. QED
    BY <2>1, <2>2, <2>3, <2>4, <2>5, <2>6, <2>7, PackageTypes, Zenon DEF PackageInv
<1>2. CASE Package!RollbackStarts
  <2>1. StoreTypes' /\ HostTypes'
    <3>1. StoreTypes'
      BY <1>0, <1>2 DEF StoreTypes, Package!RollbackStarts, Package!Phases, Package!Written,
         Package!InPhase
    <3>2. HostTypes'
      BY <1>0, <1>2, ZenonT(60) DEF HostTypes, Package!RollbackStarts, Package!Written,
         Package!PowerLost
    <3>3. QED
      BY <3>1, <3>2
  <2>2. FaultTypes' /\ UnitTypes'
    BY <1>0, <1>2, PackageConstants DEF FaultTypes, UnitTypes, Package!RollbackStarts,
       Package!Idle, Package!Written, Package!PowerLost, Package!Fault
  <2>3. SwitchTypes'
    BY <1>0, <1>2, Zenon DEF SwitchTypes, Package!RollbackStarts, Package!Written,
       Package!PowerLost
  <2>4. Assigned' /\ StoppedIsQuiet'
    BY <1>0, <1>2 DEF Assigned, StoppedIsQuiet, Package!RollbackStarts, Package!Idle,
       Package!Written, Package!PowerLost, Package!InPhase
  <2>5. Restores'
    BY <1>0, <1>2 DEF Restores, Package!RollbackStarts, Package!Written, Package!PowerLost,
       Package!InPhase, Package!LockFree, Package!Restoring
  <2>6. Confirms'
    BY <1>0, <1>2, PackageConstants DEF StoreTypes, Confirms, Package!RollbackStarts,
       Package!Written, Package!PowerLost, Package!InPhase
  <2>7. Settles'
    <3>1. tx'.phase = "rolling_back"
      BY <1>0, <1>2, ZenonT(60) DEF StoreTypes, Package!RollbackStarts, Package!Written,
         Package!InPhase
    <3>2. QED
      BY <3>1, ZenonT(60) DEF Settles
  <2>8. QED
    BY <2>1, <2>2, <2>3, <2>4, <2>5, <2>6, <2>7, PackageTypes, Zenon DEF PackageInv
<1>3. CASE Package!RollbackExpires
  <2>1. StoreTypes' /\ HostTypes'
    <3>1. StoreTypes'
      BY <1>0, <1>3 DEF StoreTypes, Package!RollbackExpires, Package!Phases, Package!Written,
         Package!InPhase
    <3>2. HostTypes'
      BY <1>0, <1>3, ZenonT(60) DEF HostTypes, Package!RollbackExpires, Package!Written,
         Package!PowerLost
    <3>3. QED
      BY <3>1, <3>2
  <2>2. FaultTypes' /\ UnitTypes'
    BY <1>0, <1>3, PackageConstants DEF FaultTypes, UnitTypes, Package!RollbackExpires,
       Package!Idle, Package!Written, Package!PowerLost, Package!Fault
  <2>3. SwitchTypes'
    BY <1>0, <1>3, Zenon DEF SwitchTypes, Package!RollbackExpires, Package!Written,
       Package!PowerLost
  <2>4. Assigned' /\ StoppedIsQuiet'
    BY <1>0, <1>3 DEF Assigned, StoppedIsQuiet, Package!RollbackExpires, Package!Idle,
       Package!Written, Package!PowerLost, Package!InPhase
  <2>5. Restores'
    BY ZenonT(60), <1>0, <1>3 DEF Restores, Package!RollbackExpires, Package!Written,
       Package!PowerLost,
       Package!Restoring
  <2>6. Confirms'
    <3>1. tx'.req = tx.req /\ tx'.budget = tx.budget /\ UNCHANGED intent
      BY <1>0, <1>3, ZenonT(60) DEF StoreTypes, Package!RollbackExpires, Package!Written,
         Package!InPhase
    <3>2. \/ agent' = Package!Down /\ grant' = 0 /\ UNCHANGED receipt
          \/ UNCHANGED <<agent, rec, grant>> /\ receipt'.req = tx'.req
      <4>1. \/ agent' = Package!Down /\ grant' = 0 /\ UNCHANGED receipt
            \/ /\ UNCHANGED <<agent, rec, grant>>
               /\ receipt' = [req |-> tx'.req, phase |-> tx'.phase]
        BY <1>3, ZenonT(60) DEF Package!RollbackExpires, Package!Written, Package!PowerLost
      <4>2. QED
        BY <4>1
    <3>3. QED
      BY <1>0, <3>1, <3>2, PackageConstants DEF StoreTypes, Confirms
  <2>7. Settles'
    <3>1. /\ tx'.req = tx.req /\ UNCHANGED <<installed, intent>>
          /\ (tx'.phase = "rolled_back" /\ Package!Restored) \/ tx'.phase = "rollback_failed"
      BY <1>0, <1>3, ZenonT(60) DEF StoreTypes, Package!RollbackExpires, Package!Written,
         Package!InPhase
    <3>2. tx.budget = 0
      BY <1>3, ZenonT(60) DEF Package!RollbackExpires
    <3>3. QED
      BY <1>0, <3>1, <3>2, PackageConstants DEF StoreTypes, Confirms, Settles, Package!Restored
  <2>8. QED
    BY <2>1, <2>2, <2>3, <2>4, <2>5, <2>6, <2>7, PackageTypes, Zenon DEF PackageInv
<1>4. CASE Package!RestoreChecks
  <2>1. StoreTypes' /\ HostTypes'
    BY ZenonT(60), <1>0, <1>4 DEF StoreTypes, HostTypes, Package!RestoreChecks
  <2>2. FaultTypes' /\ UnitTypes'
    BY <1>0, <1>4 DEF FaultTypes, UnitTypes, Package!RestoreChecks
  <2>3. SwitchTypes'
    BY <1>0, <1>4, Zenon DEF SwitchTypes, Package!RestoreChecks
  <2>4. Assigned' /\ StoppedIsQuiet'
    BY ZenonT(60), <1>0, <1>4 DEF Assigned, StoppedIsQuiet, Package!RestoreChecks
  <2>5. Restores'
    BY ZenonT(60), <1>0, <1>4 DEF Restores, Package!RestoreChecks, Package!RestoreAllowed,
       Package!Restoring
  <2>6. Confirms'
    BY ZenonT(60), <1>0, <1>4 DEF Confirms, Package!RestoreChecks
  <2>7. Settles'
    BY ZenonT(60), <1>0, <1>4 DEF Settles, Package!RestoreChecks
  <2>8. QED
    BY <2>1, <2>2, <2>3, <2>4, <2>5, <2>6, <2>7, PackageTypes, Zenon DEF PackageInv
<1>5. CASE Package!RestoreStops
  <2>1. StoreTypes' /\ HostTypes'
    BY ZenonT(60), <1>0, <1>5 DEF StoreTypes, HostTypes, Package!RestoreStops,
       Package!StopServices
  <2>2. FaultTypes' /\ UnitTypes'
    BY <1>0, <1>5 DEF FaultTypes, UnitTypes, Package!RestoreStops, Package!Idle,
       Package!StopServices
  <2>3. SwitchTypes'
    BY <1>0, <1>5, Zenon DEF SwitchTypes, Package!RestoreStops
  <2>4. Assigned' /\ StoppedIsQuiet'
    BY ZenonT(60), <1>0, <1>5 DEF Assigned, StoppedIsQuiet, Package!RestoreStops, Package!Idle,
       Package!StopServices
  <2>5. Restores'
    BY ZenonT(60), <1>0, <1>5 DEF Restores, Package!RestoreStops, Package!Idle, Package!Restoring,
       Package!StopServices
  <2>6. Confirms'
    BY <1>0, <1>5, PackageConstants DEF StoreTypes, Confirms, Package!RestoreStops,
       Package!StopServices
  <2>7. Settles'
    BY ZenonT(60), <1>0, <1>5 DEF Settles, Package!RestoreStops
  <2>8. QED
    BY <2>1, <2>2, <2>3, <2>4, <2>5, <2>6, <2>7, PackageTypes, Zenon DEF PackageInv
<1>6. CASE Package!RestoreReplacesAgent
  <2>1. StoreTypes' /\ HostTypes'
    BY <1>0, <1>6, PackageConstants DEF StoreTypes, HostTypes, Assigned, Restores,
       Package!RestoreReplacesAgent
  <2>2. FaultTypes' /\ UnitTypes'
    BY <1>0, <1>6 DEF FaultTypes, UnitTypes, Package!RestoreReplacesAgent
  <2>3. SwitchTypes'
    BY <1>0, <1>6, Zenon DEF SwitchTypes, Package!RestoreReplacesAgent
  <2>4. Assigned' /\ StoppedIsQuiet'
    BY <1>0, <1>6 DEF Assigned, StoppedIsQuiet, Package!RestoreReplacesAgent
  <2>5. Restores'
    BY <1>0, <1>6 DEF Restores, Package!RestoreReplacesAgent, Package!Restoring
  <2>6. Confirms'
    BY <1>0, <1>6 DEF Confirms, Package!RestoreReplacesAgent
  <2>7. Settles'
    BY ZenonT(60), <1>0, <1>6 DEF Restores, Settles, Package!RestoreReplacesAgent,
       Package!Restoring
  <2>8. QED
    BY <2>1, <2>2, <2>3, <2>4, <2>5, <2>6, <2>7, PackageTypes, Zenon DEF PackageInv
<1>7. CASE Package!RestoreReplacesHelper
  <2>1. StoreTypes' /\ HostTypes'
    BY <1>0, <1>7, PackageConstants DEF StoreTypes, HostTypes, Assigned, Restores,
       Package!RestoreReplacesHelper
  <2>2. FaultTypes' /\ UnitTypes'
    BY <1>0, <1>7 DEF FaultTypes, UnitTypes, Package!RestoreReplacesHelper
  <2>3. SwitchTypes'
    BY <1>0, <1>7, Zenon DEF SwitchTypes, Package!RestoreReplacesHelper
  <2>4. Assigned' /\ StoppedIsQuiet'
    BY <1>0, <1>7 DEF Assigned, StoppedIsQuiet, Package!RestoreReplacesHelper
  <2>5. Restores'
    BY <1>0, <1>7 DEF Restores, Package!RestoreReplacesHelper, Package!Restoring
  <2>6. Confirms'
    BY <1>0, <1>7 DEF Confirms, Package!RestoreReplacesHelper
  <2>7. Settles'
    BY ZenonT(60), <1>0, <1>7 DEF Restores, Settles, Package!RestoreReplacesHelper,
       Package!Restoring
  <2>8. QED
    BY <2>1, <2>2, <2>3, <2>4, <2>5, <2>6, <2>7, PackageTypes, Zenon DEF PackageInv
<1>8. CASE Package!RestoreProves
  <2>1. StoreTypes' /\ HostTypes'
    <3>1. StoreTypes'
      BY <1>0, <1>8 DEF StoreTypes, Package!RestoreProves, Package!Phases, Package!Written,
         Package!InPhase
    <3>2. HostTypes'
      BY <1>0, <1>8, ZenonT(60) DEF HostTypes, Package!RestoreProves, Package!Written,
         Package!PowerLost
    <3>3. QED
      BY <3>1, <3>2
  <2>2. FaultTypes' /\ UnitTypes'
    BY <1>0, <1>8, PackageConstants DEF FaultTypes, UnitTypes, Package!RestoreProves,
       Package!SocketRestarts, Package!Idle, Package!Written, Package!PowerLost, Package!Fault
  <2>3. SwitchTypes'
    BY <1>0, <1>8, Zenon DEF SwitchTypes, Package!RestoreProves, Package!Written,
       Package!PowerLost
  <2>4. Assigned' /\ StoppedIsQuiet'
    BY <1>0, <1>8, PackageConstants DEF UnitTypes, Assigned, StoppedIsQuiet,
       Package!RestoreProves, Package!SocketRestarts, Package!Written, Package!PowerLost
  <2>5. Restores'
    BY ZenonT(60), <1>0, <1>8 DEF Restores, Package!RestoreProves, Package!Written,
       Package!PowerLost,
       Package!Restoring
  <2>6. Confirms'
    BY <1>0, <1>8, PackageConstants DEF StoreTypes, StoppedIsQuiet, Confirms, Package!Files,
       Package!RestoreProves, Package!AllowAgentStart, Package!Written, Package!PowerLost,
       Package!InPhase
  <2>7. Settles'
    <3>1. /\ tx'.req = tx.req /\ tx'.phase = "rolled_back" /\ UNCHANGED <<installed, intent>>
          /\ installed = Package!Files(Source[tx.req])
          /\ intent # 0 => installed = Package!Files(Candidate[intent])
      BY <1>0, <1>8, ZenonT(60) DEF StoreTypes, Package!RestoreProves, Package!AllowAgentStart,
         Package!Written, Package!InPhase
    <3>2. intent # 0 => Candidate[intent] = Source[tx.req]
      BY <3>1 DEF Package!Files
    <3>3. QED
      BY <3>1, <3>2, ZenonT(60) DEF Settles
  <2>8. QED
    BY <2>1, <2>2, <2>3, <2>4, <2>5, <2>6, <2>7, PackageTypes, Zenon DEF PackageInv
<1>9. CASE Package!RestoreRefused
  <2>1. StoreTypes' /\ HostTypes'
    <3>1. StoreTypes'
      BY <1>0, <1>9 DEF StoreTypes, Package!RestoreRefused, Package!Phases, Package!Written,
         Package!InPhase
    <3>2. HostTypes'
      BY <1>0, <1>9, ZenonT(60) DEF HostTypes, Package!RestoreRefused, Package!Written,
         Package!PowerLost
    <3>3. QED
      BY <3>1, <3>2
  <2>2. FaultTypes' /\ UnitTypes'
    BY <1>0, <1>9, PackageConstants DEF FaultTypes, UnitTypes, Package!RestoreRefused,
       Package!Idle, Package!Written, Package!PowerLost, Package!Fault
  <2>3. SwitchTypes'
    BY <1>0, <1>9, Zenon DEF SwitchTypes, Package!RestoreRefused, Package!Written,
       Package!PowerLost
  <2>4. Assigned' /\ StoppedIsQuiet'
    BY <1>0, <1>9 DEF Assigned, StoppedIsQuiet, Package!RestoreRefused, Package!Idle,
       Package!Written, Package!PowerLost, Package!InPhase
  <2>5. Restores'
    BY ZenonT(60), <1>0, <1>9 DEF Restores, Package!RestoreRefused, Package!Written,
       Package!PowerLost,
       Package!Restoring
  <2>6. Confirms'
    BY <1>0, <1>9, PackageConstants DEF StoreTypes, Confirms, Package!RestoreRefused,
       Package!Written, Package!PowerLost, Package!InPhase
  <2>7. Settles'
    <3>1. tx'.phase = "rollback_failed"
      BY <1>0, <1>9, ZenonT(60) DEF StoreTypes, Package!RestoreRefused, Package!Written,
         Package!InPhase
    <3>2. QED
      BY <3>1, ZenonT(60) DEF Settles
  <2>8. QED
    BY <2>1, <2>2, <2>3, <2>4, <2>5, <2>6, <2>7, PackageTypes, Zenon DEF PackageInv
<1>10. CASE Package!RestoreFails
  <2>1. StoreTypes' /\ HostTypes'
    BY ZenonT(60), <1>0, <1>10 DEF StoreTypes, HostTypes, Package!RestoreFails
  <2>2. FaultTypes' /\ UnitTypes'
    BY <1>0, <1>10, PackageConstants DEF FaultTypes, UnitTypes, Package!RestoreFails,
       Package!Fault
  <2>3. SwitchTypes'
    BY <1>0, <1>10, Zenon DEF SwitchTypes, Package!RestoreFails
  <2>4. Assigned' /\ StoppedIsQuiet'
    BY ZenonT(60), <1>0, <1>10 DEF Assigned, StoppedIsQuiet, Package!RestoreFails
  <2>5. Restores'
    BY ZenonT(60), <1>0, <1>10 DEF Restores, Package!RestoreFails, Package!Restoring
  <2>6. Confirms'
    BY ZenonT(60), <1>0, <1>10 DEF Confirms, Package!RestoreFails
  <2>7. Settles'
    BY ZenonT(60), <1>0, <1>10 DEF Settles, Package!RestoreFails
  <2>8. QED
    BY <2>1, <2>2, <2>3, <2>4, <2>5, <2>6, <2>7, PackageTypes, Zenon DEF PackageInv
<1>11. QED
  BY <1>1, <1>2, <1>3, <1>4, <1>5, <1>6, <1>7, <1>8, <1>9, <1>10, Zenon DEF Package!Watchdog

\* A power failure, the boot after it and a clock step keep it.
LEMMA PackagePowerStep ==
  ASSUME Package!Assumed, PackageInv, Package!PowerFails \/ Package!Boots \/ Package!ClockTicks
  PROVE  PackageInv'
<1>0. /\ StoreTypes /\ HostTypes /\ SwitchTypes /\ FaultTypes /\ UnitTypes
      /\ Assigned /\ StoppedIsQuiet /\ Restores /\ Confirms /\ Settles
  BY PackageTypes DEF PackageInv
<1>1. CASE Package!PowerFails
  <2>1. StoreTypes' /\ HostTypes'
    BY ZenonT(60), <1>0, <1>1 DEF StoreTypes, HostTypes, Package!PowerFails, Package!PowerLost
  <2>2. FaultTypes' /\ UnitTypes'
    BY <1>0, <1>1, PackageConstants DEF FaultTypes, UnitTypes, Package!PowerFails,
       Package!Idle, Package!PowerLost, Package!Fault
  <2>3. SwitchTypes'
    BY <1>0, <1>1, Zenon DEF SwitchTypes, Package!PowerFails, Package!PowerLost
  <2>4. Assigned' /\ StoppedIsQuiet'
    BY ZenonT(60), <1>0, <1>1 DEF Assigned, StoppedIsQuiet, Package!PowerFails, Package!Idle,
       Package!PowerLost
  <2>5. Restores'
    BY ZenonT(60), <1>0, <1>1 DEF Restores, Package!PowerFails, Package!PowerLost,
       Package!Restoring
  <2>6. Confirms'
    <3>1. agent' = Package!Down /\ grant' = 0 /\ UNCHANGED <<tx, receipt, intent>>
      BY <1>1, ZenonT(60) DEF Package!PowerFails, Package!PowerLost
    <3>2. 0 <= tx.req
      BY <1>0, PackageConstants DEF StoreTypes
    <3>3. QED
      BY <1>0, <3>1, <3>2, ZenonT(60) DEF Confirms
  <2>7. Settles'
    BY ZenonT(60), <1>0, <1>1 DEF Settles, Package!PowerFails
  <2>8. QED
    BY <2>1, <2>2, <2>3, <2>4, <2>5, <2>6, <2>7, PackageTypes, Zenon DEF PackageInv
<1>2. CASE Package!Boots
  <2>1. StoreTypes' /\ HostTypes'
    BY <1>0, <1>2 DEF StoreTypes, HostTypes, Package!Boots
  <2>2. FaultTypes' /\ UnitTypes'
    BY ZenonT(60), <1>0, <1>2 DEF FaultTypes, UnitTypes, Package!Boots
  <2>3. SwitchTypes'
    BY <1>0, <1>2, Zenon DEF SwitchTypes, Package!Boots
  <2>4. Assigned' /\ StoppedIsQuiet'
    BY ZenonT(60), <1>0, <1>2, PackageConstants DEF UnitTypes, Assigned, StoppedIsQuiet,
       Package!Boots
  <2>5. Restores'
    BY ZenonT(60), <1>0, <1>2 DEF Restores, Package!Boots, Package!Restoring
  <2>6. Confirms'
    BY <1>0, <1>2 DEF StoppedIsQuiet, Confirms, Package!Files, Package!Boots,
       Package!AllowAgentStart
  <2>7. Settles'
    BY ZenonT(60), <1>0, <1>2 DEF Settles, Package!Boots
  <2>8. QED
    BY <2>1, <2>2, <2>3, <2>4, <2>5, <2>6, <2>7, PackageTypes, Zenon DEF PackageInv
<1>3. CASE Package!ClockTicks
  <2>1. StoreTypes' /\ HostTypes'
    <3>1. /\ tx.deadline \in 0 .. DEADLINE /\ tx.budget \in 0 .. DEADLINE + RETRY
          /\ tx.budget > 0
      BY ZenonT(60), <1>0, <1>3 DEF StoreTypes, Package!ClockTicks
    <3>2. /\ (IF tx.deadline > 0 THEN tx.deadline - 1 ELSE 0) \in 0 .. DEADLINE
          /\ tx.budget - 1 \in 0 .. DEADLINE + RETRY
      BY <3>1, PackageConstants
    <3>3. tx' = [tx EXCEPT !.deadline = IF tx.deadline > 0 THEN tx.deadline - 1 ELSE 0,
                           !.budget = tx.budget - 1]
      BY <1>3 DEF Package!ClockTicks
    <3>4. StoreTypes'
      BY <1>0, <1>3, <3>2, <3>3, Zenon DEF StoreTypes, Package!ClockTicks
    <3>5. QED
      BY ZenonT(60), <1>0, <1>3, <3>4 DEF HostTypes, Package!ClockTicks
  <2>2. FaultTypes' /\ UnitTypes'
    BY ZenonT(60), <1>0, <1>3 DEF FaultTypes, UnitTypes, Package!ClockTicks
  <2>3. SwitchTypes'
    BY <1>0, <1>3, Zenon DEF SwitchTypes, Package!ClockTicks
  <2>4. Assigned' /\ StoppedIsQuiet'
    BY <1>0, <1>3 DEF StoreTypes, Assigned, StoppedIsQuiet, Package!ClockTicks, Package!Prompt
  <2>5. Restores'
    BY <1>0, <1>3 DEF Restores, Package!ClockTicks, Package!Restoring
  <2>6. Confirms'
    BY <1>0, <1>3 DEF StoreTypes, Confirms, Package!ClockTicks, Package!Prompt,
       Package!DpkgOfIntent
  <2>7. Settles'
    <3>1. tx'.req = tx.req /\ tx'.phase = tx.phase /\ UNCHANGED <<installed, intent>>
      BY <1>0, <1>3, ZenonT(60) DEF StoreTypes, Package!ClockTicks
    <3>2. QED
      BY <1>0, <3>1, ZenonT(60) DEF Settles
  <2>8. QED
    BY <2>1, <2>2, <2>3, <2>4, <2>5, <2>6, <2>7, PackageTypes, Zenon DEF PackageInv
<1>4. QED
  BY <1>1, <1>2, <1>3, Zenon

\* A step that changes nothing keeps it.
LEMMA PackageStutter == ASSUME PackageInv, UNCHANGED Package!vars PROVE PackageInv'
BY DEF PackageInv, Package!vars, Package!TypeOK, Assigned, StoppedIsQuiet, Restores, Confirms,
   Settles, Package!Restoring

\* The inductive invariant holds in every reachable state of the activation.
LEMMA PackageInvariance == ASSUME Package!Assumed PROVE Package!Spec => []PackageInv
<1>1. Package!Init => PackageInv
  BY PackageInit
<1>2. PackageInv /\ [Package!Next]_(Package!vars) => PackageInv'
  BY ZenonT(60), PackageInstallStep, PackageRecoveryStep, PackageConfirmationStep,
     PackageWatchdogStep,
     PackagePowerStep, PackageStutter DEF Package!Next
<1>3. QED
  BY <1>1, <1>2, PTL DEF Package!Spec

\* For any requests, builds, deadlines and faults: what a settled transaction
\* says is what is installed, the candidate once it is acknowledged and the
\* captured source once it is rolled back, whatever recovery unit, dpkg or
\* watchdog was still under way (install_package, Store::acknowledge,
\* Store::restore, preinst recover).
THEOREM SettledStaysInstalled ==
  ASSUME Package!Assumed
  PROVE  Package!Spec => [](Package!TypeOK /\ Package!SettledIsInstalled)
<1>1. PackageInv => Package!TypeOK /\ Package!SettledIsInstalled
  BY DEF PackageInv, Settles, Package!SettledIsInstalled
<1>2. QED
  BY <1>1, PackageInvariance, PTL

\* The watchdog installs nothing but the source its own transaction captured
\* (Store::restore).
THEOREM WatchdogRestoresItsSource ==
  ASSUME Package!Assumed PROVE Package!Spec => Package!RestoresItsSource
<1> DEFINE Own == (dog \in {"stopped", "half"} /\ installed' # installed) =>
                    /\ installed'.agent \in {installed.agent, Source[tx.req]}
                    /\ installed'.helper \in {installed.helper, Source[tx.req]}
<1>1. ASSUME PackageInv, Package!Next, dog \in {"stopped", "half"}, installed' # installed
      PROVE  Package!RestoreReplacesAgent \/ Package!RestoreReplacesHelper
  <2>1. inst.pc = "idle" /\ rec = "off"
    BY <1>1 DEF PackageInv, StoppedIsQuiet, Package!Idle
  <2>2. ~Package!Install /\ ~Package!Recovery
    BY <1>1, <2>1 DEF Package!Install, Package!Verified, Package!Fenced, Package!Copied,
       Package!Armed, Package!PrepareFails, Package!InstallStarts, Package!AgentReplaced,
       Package!HelperReplaced, Package!InstallFails, Package!Recovery, Package!RecoveryStops,
       Package!RecoveryAbandons, Package!RecoveryReplacesAgent, Package!RecoveryReplacesHelper,
       Package!RecoveryReleases, Package!RecoveryRetires, Package!RecoveryFails
  <2>3. Package!Watchdog
    BY <1>1, <2>2, Zenon DEF Package!Next, Package!Confirmation, Package!Granted,
       Package!Acknowledged, Package!GrantLost, Package!PowerFails, Package!Boots,
       Package!ClockTicks
  <2>4. QED
    BY <1>1, <2>3, Zenon DEF Package!Watchdog, Package!WatchEnds, Package!RollbackStarts,
       Package!RollbackExpires, Package!RestoreChecks, Package!RestoreStops,
       Package!RestoreProves, Package!RestoreRefused, Package!RestoreFails
<1>2. ASSUME PackageInv, Package!Next PROVE Own
  <2>1. /\ dog \in {"stopped", "half"} => custody = Source[tx.req]
        /\ installed \in [agent : Package!Builds, helper : Package!Builds]
    BY <1>2 DEF PackageInv, Restores, Package!TypeOK
  <2>2. QED
    BY ZenonT(60), <1>1, <1>2, <2>1 DEF Package!RestoreReplacesAgent,
       Package!RestoreReplacesHelper
<1>3. PackageInv /\ [Package!Next]_(Package!vars) => [Own]_(Package!vars)
  BY <1>2, Zenon
<1>4. QED
  BY <1>3, PackageInvariance, PTL DEF Package!Spec, Package!RestoresItsSource
=============================================================================
