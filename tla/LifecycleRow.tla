---------------------------- MODULE LifecycleRow ----------------------------
(***************************************************************************)
(* One row of any kind under the lifecycle core, with an owner that holds  *)
(* the row's lock and settles each event inline (reconciler.settle): the   *)
(* event, the command it causes and the answer are one step.  The kind is  *)
(* left open: repeatable or not, with or without a recovery deadline of    *)
(* the row, a deadline of the request and operator actions.  The executor  *)
(* is outside: it launches, ends and reports each attempt when it likes,   *)
(* late and repeatedly, but it never reports what is not so.               *)
(***************************************************************************)
EXTENDS LifecycleCore

CONSTANTS
    Irreversible,  \* adapter.irreversible: a repeat would be seen
    Actions,       \* the operator actions the kind advertises
    Deadlines,     \* the deadlines a row or its request may be given
    Leases,        \* the leases an executor takes
    Delays,        \* the delays the bounded backoff may choose
    MaxAttempts    \* bound on the attempts of the row

ASSUME RowAssumption ==
    /\ Irreversible \in BOOLEAN
    /\ Actions \subseteq {"resume", "retire", "stop"}
    /\ Deadlines \subseteq Timer
    /\ Leases \subseteq 1 .. MaxDelay
    /\ Delays \subseteq 1 .. MaxDelay
    /\ MaxAttempts \in Nat \ {0}

VARIABLES
    row,       \* the persisted Lifecycle row
    request,   \* the request-owned deadline (the recovery_deadline hook)
    world,     \* what each attempt really did
    talking    \* the executor still renews and reports

vars == <<row, request, world, talking>>

Attempts == 1 .. MaxAttempts
\* An attempt was not issued; may still launch; never will; runs; has
\* established its effect; ran and ceased.
World == {"unissued", "pending", "declined", "active", "established", "stopped"}

TypeOK ==
    /\ row \in Row /\ row.attempt <= MaxAttempts
    /\ request \in Timer
    /\ world \in [Attempts -> World]
    /\ talking \in BOOLEAN

\* What may be observed, or claimed by a report, of an attempt.
Evidence(w) ==
    CASE w = "declined"    -> {"none", "unknown"}
      [] w = "established" -> {"established", "unknown"}
      [] w = "stopped"     -> {"stopped", "unknown"}
      [] OTHER             -> {"unknown"}

\* What a confirmed stop leaves behind.
AfterStop(w) ==
    CASE w = "pending"                   -> "declined"
      [] w \in {"active", "established"} -> "stopped"
      [] OTHER                           -> w

adapter(delay) == [irreversible |-> Irreversible, actions |-> Actions,
                   deadline |-> request, delay |-> delay]

Here == IF row.attempt = 0 THEN "unissued" ELSE world[row.attempt]

\* settle: a stop is confirmed only when nothing of the attempt is left.
Settle(e) ==
    \E delay \in Delays, observation \in Evidence(Here), stopped \in BOOLEAN :
        LET a    == adapter(delay)
            stop == transition(row, e, a).command = "stop"
        IN  /\ row' = settle(row, e, a, observation, stopped).row
            /\ world' = IF stop /\ stopped /\ row.attempt > 0
                        THEN [world EXCEPT ![row.attempt] = AfterStop(@)] ELSE world
            /\ UNCHANGED <<request, talking>>

(***************************************************************************)
(* Events.                                                                 *)
(***************************************************************************)
Claim ==
    \E lease \in Leases :
        LET n == row.attempt + 1
            claimed == transition(row, [kind |-> "claimed", attempt |-> n, fence |-> n,
                                        lease_deadline |-> lease], adapter(1)).row
        IN  /\ n \in Attempts /\ claimed.attempt = n
            /\ row' = claimed
            /\ world' = [world EXCEPT ![n] = "pending"]
            /\ UNCHANGED <<request, talking>>

Heartbeat ==
    /\ talking /\ row.attempt > 0 /\ Here \in {"pending", "active"}
    /\ \E lease \in Leases :
           row' = transition(row, [kind |-> "heartbeat", fence |-> row.attempt,
                                   lease_deadline |-> lease], adapter(1)).row
    /\ UNCHANGED <<request, world, talking>>

\* The outcomes an executor may report of an attempt, with what it says of the
\* effect; a definite failure is not retryable.
Said(outcome, retryable, effect) ==
    [outcome |-> outcome, retryable |-> retryable, effect |-> effect]

Reportable(w) ==
    {Said("unknown", FALSE, NoEffect)} \cup
    CASE w = "declined"    -> {Said("failed", retryable, "none") : retryable \in BOOLEAN}
      [] w = "active"      -> {Said("failed", TRUE, NoEffect)}
      [] w = "established" -> {Said("done", FALSE, NoEffect)}
      [] w = "stopped"     -> {Said("failed", FALSE, "stopped"),
                               Said("failed", TRUE, NoEffect),
                               Said("cancelled", FALSE, NoEffect)}
      [] OTHER             -> {}

\* A report, on time, late or repeated, of any attempt under its own fence.
Report(a) ==
    /\ talking /\ a <= row.attempt
    /\ \E report \in Reportable(world[a]) :
           Settle([kind |-> "reported", fence |-> a, outcome |-> report.outcome,
                   retryable |-> report.retryable, effect |-> report.effect])

Lapse == row.lease_deadline = 0 /\ Settle([kind |-> "lease-lapsed"])

CancelRequested == Settle([kind |-> "cancel-requested"])

Operator == \E name \in Actions : Settle([kind |-> "operator-action", name |-> name])

\* The reconciler hands a row that has reached its clock a tick.
Tick ==
    /\ row.state \notin Terminal /\ row.next_action_at <= 0
    /\ Settle([kind |-> "tick"])

(***************************************************************************)
(* The executor and the clock.                                             *)
(***************************************************************************)
Moves(w) ==
    CASE w = "pending"     -> {"declined", "active"}
      [] w = "active"      -> {"established", "stopped"}
      [] w = "established" -> IF Irreversible THEN {} ELSE {"stopped"}
      [] OTHER             -> {}

Execute(a) ==
    /\ \E w \in Moves(world[a]) : world' = [world EXCEPT ![a] = w]
    /\ UNCHANGED <<row, request, talking>>

\* The executor, or the way from it to the owner, is lost for good.
FallSilent ==
    /\ talking /\ talking' = FALSE
    /\ UNCHANGED <<row, request, world>>

Elapse ==
    /\ row' = [row EXCEPT !.lease_deadline = Elapsed(@), !.next_action_at = Elapsed(@),
                          !.recovery_deadline = Elapsed(@)]
    /\ request' = Elapsed(request)
    /\ UNCHANGED <<world, talking>>

\* A row just submitted, or one adopted from before the core that waits for an
\* operator after an attempt of which nothing may be known any more.
NewRow(state, attempt, effect, deadline) ==
    [state |-> state, attempt |-> attempt, fence |-> attempt,
     lease_deadline |-> NoTime, next_action_at |-> NoTime,
     recovery_deadline |-> deadline, observe_count |-> 0,
     cancel_requested |-> FALSE, effect |-> effect]

Submitted ==
    /\ world = [a \in Attempts |-> "unissued"]
    /\ \E deadline \in Deadlines : row = NewRow("queued", 0, "none", deadline)

Adopted ==
    \E w \in World \ {"unissued"}, deadline \in Deadlines :
        /\ world = [a \in Attempts |-> IF a = 1 THEN w ELSE "unissued"]
        /\ \E effect \in Evidence(w) : row = NewRow("needs-operator", 1, effect, deadline)

Init ==
    /\ Submitted \/ Adopted
    /\ request \in Deadlines
    /\ talking = TRUE

Next ==
    \/ Claim \/ Heartbeat \/ Lapse \/ CancelRequested \/ Operator \/ Tick
    \/ FallSilent \/ Elapse
    \/ \E a \in Attempts : Report(a) \/ Execute(a)

Spec == Init /\ [][Next]_vars

(***************************************************************************)
(* Safety.                                                                 *)
(***************************************************************************)
\* Rules 2 and 3: no irreversible attempt is issued again unless every earlier
\* one is known never to have launched.
NoBlindReplay ==
    Irreversible /\ "resume" \notin Actions =>
        \A a \in Attempts : a < row.attempt => world[a] = "declined"

\* A row succeeds only on an effect that was really established.
SuccessIsReal ==
    row.state = "succeeded" =>
        Here = "established" \/ (Here = "stopped" /\ ~Irreversible)

\* An ended row is never touched again: late reports, ticks, cancels and
\* operators find it as it ended (its deadlines alone run out).
EndedIsFinal == [][row.state \in Terminal => row' = [row EXCEPT
                     !.recovery_deadline = row'.recovery_deadline,
                     !.lease_deadline = row'.lease_deadline]]_vars

\* Rule 4, "the request is monotonic": a cancel is never forgotten, and a row
\* it was requested of is never issued again.
CancelIsMonotonic ==
    [][row.cancel_requested => row'.cancel_requested /\ row'.attempt = row.attempt]_vars

(***************************************************************************)
(* Liveness: the clock runs, a row at its clock is ticked and a lapsed     *)
(* lease is noticed; nothing is assumed of the executor.                   *)
(***************************************************************************)
FairSpec == Spec /\ WF_vars(Tick) /\ WF_vars(Lapse) /\ WF_vars(Elapse)

\* Rule 4, "a cancel always completes", whether or not a stop is ever confirmed.
CancelCompletes == row.cancel_requested /\ ~talking ~> row.state \in Terminal

\* Rule 3: past its deadline a row of a silent executor ends, also when nothing
\* is ever learnt of its effect.
EndsPastDeadline ==
    (row.recovery_deadline = 0 \/ request = 0) /\ ~talking ~> row.state \in Terminal

\* Rules 1 to 4 never leave a row to a person: one adopted as waiting for an
\* operator is decided again on its first tick.
ParkedIsReevaluated ==
    row.state = "needs-operator" ~> row.state # "needs-operator"

\* The clock is enough to finish a row whose executor is silent: its cancel
\* completes, it ends past its deadline, and it is never left to a person
\* (rules 1 to 4 of transition).
ClockSuffices == CancelCompletes /\ EndsPastDeadline /\ ParkedIsReevaluated
=============================================================================
