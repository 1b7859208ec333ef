----------------------------- MODULE WorkerLoop -----------------------------
(***************************************************************************)
(* The worker's scheduler (worker.Worker.run_once) and the durable record  *)
(* of failing sources (coordinator_failures).  A pass gives the sources a  *)
(* turn in rotation until one makes progress.  A source that fails is held *)
(* back by a row of its own, which the due-wait backstop redrives between  *)
(* steps.  A step that hangs ends the process (watch_worker) and the       *)
(* restarted worker begins its rotation again.                             *)
(***************************************************************************)
EXTENDS Integers, FiniteSets, FiniteSetsExt

CONSTANTS
    S,            \* the number of sources
    RETRY_FIRST,  \* clock steps to the first retry of a failed source
    RETRY_CAP,    \* clock steps to a retry, at most
    Horizon,      \* bound on the clock steps a fault is followed for
    MaxRestarts   \* bound on the restarts of the process

\* What the values of the constants must satisfy.
Assumed ==
    /\ S \in Nat \ {0}
    /\ RETRY_FIRST \in 1 .. RETRY_CAP /\ RETRY_CAP \in Nat
    /\ Horizon \in Nat /\ MaxRestarts \in Nat

Src == 0 .. S - 1
Nobody == -1
Reasons == {"refused", "malformed"}

VARIABLES
    cursor,    \* _source_cursor: where the next pass begins
    offset,    \* the sources this pass has dealt with
    running,   \* the source whose step runs, or Nobody
    failure,   \* the CoordinatorFailure row of each source
    restarts   \* restarts so far

vars == <<cursor, offset, running, failure, restarts>>

\* kind: no row, a wait, a definite fault, or evidence that cannot be read;
\* content: the row was written by the executable content that runs now;
\* wait: clock steps to next_action_at; blocked: since first_blocked_at;
\* tries (a history): the times the same fault was recorded.
NoFailure == [kind |-> "none", reason |-> "refused", content |-> TRUE,
              wait |-> 0, blocked |-> 0, tries |-> 0]

TypeOK ==
    /\ cursor \in Src /\ offset \in 0 .. S
    /\ running \in Src \cup {Nobody}
    /\ failure \in [Src -> [kind : {"none", "wait", "definite", "unreadable"},
                            reason : Reasons, content : BOOLEAN,
                            wait : 0 .. RETRY_CAP, blocked : 0 .. Horizon,
                            tries : 0 .. Horizon + 2]]
    /\ restarts \in 0 .. MaxRestarts

Init ==
    /\ cursor = 0 /\ offset = 0 /\ running = Nobody /\ restarts = 0
    /\ failure \in [Src -> {NoFailure, [NoFailure EXCEPT !.kind = "unreadable"]}]

-----------------------------------------------------------------------------
(* CoordinatorFailures.                                                    *)

\* The clock of a fault: a definite fault that persists waits as long as it
\* has lasted, between the first delay and the cap.
Recorded(f, kind, reason) ==
    LET same == f.kind \in {"wait", "definite"} /\ f.reason = reason
        again == f.kind = "definite" /\ kind = "definite" /\ same
        retry == IF kind = "definite" /\ same
                 THEN Min({RETRY_CAP, Max({RETRY_FIRST, f.blocked})}) ELSE RETRY_FIRST
    IN  [kind |-> kind, reason |-> reason, content |-> TRUE, wait |-> retry,
         blocked |-> IF same THEN f.blocked ELSE 0,
         tries |-> CASE ~again -> 1 [] again /\ f.blocked = Horizon -> f.tries
                     [] OTHER -> f.tries + 1]

\* ready: no row, a row of other content (deleted) or a row that is due;
\* evidence that cannot be read is replaced and waits.
Ready(f) ==
    f.kind # "unreadable" /\ (f.kind = "none" \/ ~f.content \/ f.wait = 0)
AfterReady(f) ==
    IF f.kind = "unreadable" THEN Recorded(NoFailure, "definite", "malformed")
    ELSE IF ~f.content THEN NoFailure ELSE f

\* What may become of the row when the source has run: deleted, or written
\* again with the classifier's verdict.
Outcomes(f) ==
    {NoFailure} \cup {Recorded(f, kind, reason) : kind \in {"wait", "definite"},
                                                   reason \in Reasons}

-----------------------------------------------------------------------------
(* run_once.                                                               *)

Index == (cursor + offset) % S

Skip ==
    /\ running = Nobody /\ offset < S
    /\ ~Ready(failure[Index])
    /\ failure' = [failure EXCEPT ![Index] = AfterReady(@)]
    /\ offset' = offset + 1
    /\ UNCHANGED <<cursor, running, restarts>>

Run(s) ==
    /\ running = Nobody /\ offset < S
    /\ s = Index
    /\ Ready(failure[s])
    /\ failure' = [failure EXCEPT ![s] = AfterReady(@)]
    /\ running' = s
    /\ UNCHANGED <<cursor, offset, restarts>>

\* The step returns: only a source that progressed moves the cursor and ends
\* the pass.
Progressed == cursor' = (running + 1) % S

Return ==
    /\ running # Nobody
    /\ running' = Nobody
    /\ \/ /\ failure' = [failure EXCEPT ![running] = NoFailure]
          /\ \/ Progressed /\ offset' = S
             \/ offset' = offset + 1 /\ UNCHANGED cursor
       \/ /\ \E f \in Outcomes(failure[running]) \ {NoFailure} :
                failure' = [failure EXCEPT ![running] = f]
          /\ offset' = offset + 1
          /\ UNCHANGED cursor
    /\ UNCHANGED restarts

\* The pass ends with the loop heartbeat.
EndPass ==
    /\ running = Nobody /\ offset = S
    /\ offset' = 0
    /\ UNCHANGED <<cursor, running, failure, restarts>>

\* redrive_coordinator, called by the backstop between two steps for a row
\* that is due; the source runs inside that step.
Bug_Redrive(s) ==
    /\ running = Nobody
    /\ failure[s].kind \in {"wait", "definite"}
    /\ \E f \in Outcomes(AfterReady(failure[s])) : failure' = [failure EXCEPT ![s] = f]
    /\ UNCHANGED <<cursor, offset, running, restarts>>
Redrive(s) ==
    /\ running = Nobody
    /\ failure[s].kind \in {"wait", "definite"} /\ failure[s].wait = 0
    /\ Ready(failure[s])
    /\ \E f \in Outcomes(AfterReady(failure[s])) : failure' = [failure EXCEPT ![s] = f]
    /\ UNCHANGED <<cursor, offset, running, restarts>>

\* The process ends, by the watchdog or for an upgrade that changes the
\* executable content; only the rows survive it.
Restart ==
    /\ restarts < MaxRestarts
    /\ restarts' = restarts + 1
    /\ cursor' = 0 /\ offset' = 0 /\ running' = Nobody
    /\ \E upgraded \in BOOLEAN :
         failure' = [s \in Src |-> IF failure[s].kind = "none" THEN NoFailure ELSE
                       [failure[s] EXCEPT !.content = @ /\ ~upgraded]]

Elapse ==
    /\ failure' = [s \in Src |-> IF failure[s].kind = "none" THEN NoFailure ELSE
                     [failure[s] EXCEPT !.wait = Max({0, @ - 1}),
                                        !.blocked = Min({Horizon, @ + 1})]]
    /\ UNCHANGED <<cursor, offset, running, restarts>>

Pass == Skip \/ Return \/ EndPass \/ \E s \in Src : Run(s)
Next == Pass \/ Restart \/ Elapse \/ \E s \in Src : Redrive(s)

Spec == Init /\ [][Next]_vars
\* Every step that does not hang returns, and the loop has no other exit.
FairSpec == Spec /\ WF_vars(Pass) /\ WF_vars(Elapse)

-----------------------------------------------------------------------------
(* Properties.                                                             *)

\* A definite fault that persists is tried again no sooner than the doubling
\* schedule allows, whether the rotation or the backstop runs the source and
\* however often the process restarts (coordinator_failures.py:91-101): the
\* n-th try comes after the first n - 1 delays.
Earliest[n \in Nat] ==
    IF n = 0 THEN 0
    ELSE Earliest[n - 1] + Min({RETRY_CAP, Max({RETRY_FIRST, Earliest[n - 1]})})
BacksOff ==
    \A s \in Src :
        failure[s].kind = "definite" => failure[s].blocked >= Earliest[failure[s].tries - 1]

\* Every source has its turn again and again, although others always make
\* progress, always fail or hang now and then (worker.py:477-479).
NoSourceStarves == \A s \in Src : []<><<Run(s) \/ Redrive(s)>>_vars
=============================================================================
