----------------------------- MODULE AgentOrder -----------------------------
(***************************************************************************)
(* One order of the node-scoped agent queue: the stored order with its     *)
(* current attempt and parent job, the requests of its Spark (claim,       *)
(* heartbeat, result), the worker's sweeps and its reconciler pass, the    *)
(* requests that withdraw the order, and the executor on the Spark.        *)
(*                                                                         *)
(* Every controller handler is one transaction under the node, parent and  *)
(* order locks, so it is one action.  The reconciler pass is not: it reads *)
(* committed rows, decides, re-reads under the locks and saves only if the *)
(* order is still what it decided from (same_order), so its steps          *)
(* interleave with everything else.                                        *)
(***************************************************************************)
EXTENDS LifecycleCore

CONSTANTS
    Kinds,            \* the kinds of order explored
    MaxAttempts,      \* bound on the attempts of the order
    LEASE,            \* CLAIM_LEASE_SECONDS
    PROGRESSING,      \* PROGRESSING_LEASE, what reported progress earns
    RECOVERY_BUDGET,  \* AGENT_ORDER_RECOVERY_BUDGET
    START_BUDGET,     \* the readiness budget a start binds at its first claim
    STALL_WINDOW,     \* START_STALL_WINDOW, how long progress extends it
    JOB_BOUND,        \* a job's timeout and stop grace, counted from its lease
    RETENTION,        \* custody of undelivered job output, from the lease
    CANCEL_WINDOW,    \* SUPERSEDED_CANCELLATION_SECONDS
    WAIT_STEP,        \* the poll interval of a wait for a healthy GPU
    Delays,           \* the delays the bounded backoff may choose
    Prompt            \* a lapsed lease is swept before the next clock step

ASSUME OrderAssumption ==
    /\ Kinds \subseteq {"job", "start", "transfer"}
    /\ MaxAttempts \in Nat \ {0}
    /\ {LEASE, PROGRESSING, RECOVERY_BUDGET, START_BUDGET, STALL_WINDOW, JOB_BOUND,
        RETENTION, CANCEL_WINDOW, WAIT_STEP} \subseteq 1 .. MaxDelay
    /\ {PROGRESSING + JOB_BOUND, PROGRESSING + RETENTION,
        LEASE + JOB_BOUND, LEASE + RETENTION} \subseteq 1 .. MaxDelay
    /\ Delays \subseteq 1 .. MaxDelay
    /\ Prompt \in BOOLEAN

VARIABLES
    kind,   \* the kind column: "job" (irreversible), "start" or "transfer"
    db,     \* the committed rows: order, its current attempt, its parent job
    node,   \* the Spark as the controller knows it: superseded, gone, away
    exec,   \* what each attempt really did on the Spark
    pass    \* the worker: a reconciler pass in flight, Idle or Down

vars == <<kind, db, node, exec, pass>>

Attempts == 1 .. MaxAttempts
Parked == {"backoff", "observing", "needs-operator"}
IRREVERSIBLE == kind = "job"

\* What an executor may report: the work ended well, ended badly, exited with
\* its output undelivered, ended with a doubtful receipt; it failed before
\* anything launched; it was refused; it was cancelled; it cannot tell; it
\* cannot tell and its authority was denied.
Report == {"done", "exit-failed", "pending", "ending", "not-launched",
           "refused", "cancelled", "unknown", "denied"}
JobReceipt == {"done", "exit-failed", "pending", "ending", "cancelled"}

OrderRow == [state : State, current_attempt : 0 .. MaxAttempts,
             next_action_at : Timer, observe_count : Nat,
             recovery_deadline : Timer, start_deadline : Timer,
             output_delivery_only : BOOLEAN]
AttemptState == {"absent", "running", "lapsed", "reported-unknown",
                 "succeeded", "failed", "cancelled"}
\* stall, run_bound and custody are instants the code derives from the
\* attempt's last progress and from its lease.
AttemptRow == [state : AttemptState, lease_deadline : Timer, stall : Timer,
               run_bound : Timer, custody : Timer, result : Report \cup {"none"}]
\* cancel_deadline is NoTime until the parent carries cancel_requested, then
\* the end of its superseded-cancellation window.
ParentRow == [state : {"live"} \cup Terminal, cancel_deadline : Timer,
              sibling_failed : BOOLEAN]
Db == [order : OrderRow, attempt : AttemptRow, parent : ParentRow]
Node == [superseded : BOOLEAN, gone : BOOLEAN, away : BOOLEAN]

ExecState == {"none", "issued", "delivering", "launched", "exited", "killed",
              "declined"}

Idle == [step |-> "idle"]
Down == [step |-> "down"]
Pass == {Idle, Down} \cup
        [step : {"save", "ask"}, before : Row, after : Row, command : Command,
         moving : BOOLEAN, age : 0 .. MaxDelay, delay : 1 .. MaxDelay]

(***************************************************************************)
(* Facts about the stored order (agent_operation_facts,                    *)
(* agent_operation_states).                                                *)
(***************************************************************************)
MaxOf(a, b) == IF a >= b THEN a ELSE b
MinOf(a, b) == IF a <= b THEN a ELSE b

CancelFlag(s) == s.parent.cancel_deadline # NoTime
ParentEnded(s) == s.parent.state # "live"

\* lapse: the attempt can no longer report; its result is kept.
lapse(att) == [att EXCEPT !.state = "lapsed"]

expire_attempt(s) ==
    [s EXCEPT !.attempt = IF @.state \in {"running", "reported-unknown"}
                          THEN lapse(@) ELSE @]

\* The lease and the two instants counted from it.
Leased(att, t) ==
    [att EXCEPT !.lease_deadline = t,
                !.run_bound = IF kind = "job" THEN t + JOB_BOUND ELSE NoTime,
                !.custody   = IF kind = "job" THEN t + RETENTION ELSE NoTime]

\* Only the current attempt's progress extends the accepted start deadline.
start_deadline(s) ==
    IF s.order.start_deadline = NoTime THEN NoTime
    ELSE MaxOf(s.order.start_deadline, s.attempt.stall)

lapsed_renewal_allowed(s) == start_deadline(s) > 0

attempt_holds_open_launch_budget(s) ==
    s.attempt.state = "running" /\ lapsed_renewal_allowed(s)

attempt_is_live(s) ==
    /\ s.attempt.state = "running"
    /\ s.attempt.lease_deadline > 0 \/ attempt_holds_open_launch_budget(s)

\* Bug: an attempt holds its order whatever its lease.
Bug_attempt_holds_order(s, superseded) == s.attempt.state = "running"

attempt_holds_order(s, superseded) ==
    IF superseded
    THEN s.attempt.state = "running" /\ s.attempt.lease_deadline > 0
    ELSE attempt_is_live(s)

\* While the Spark is away the window is a whole budget from now, at every
\* read; a job is not in doubt before its own bound.
order_recovery_deadline(s, away) ==
    LET stored == s.order.recovery_deadline IN
    IF stored = NoTime \/ s.order.output_delivery_only THEN stored
    ELSE MaxOf(MaxOf(stored, s.attempt.run_bound),
               IF away THEN RECOVERY_BUDGET ELSE stored)

\* The deadline just read is "a budget from now": a later read names a later
\* instant.
Moving(s, away) ==
    /\ away
    /\ s.order.recovery_deadline # NoTime
    /\ ~s.order.output_delivery_only
    /\ MaxOf(s.order.recovery_deadline, s.attempt.run_bound) <= RECOVERY_BUDGET

retry_scheduled(s) ==
    /\ s.order.state \in {"backoff", "observing"}
    /\ s.order.next_action_at # NoTime
    /\ s.order.observe_count = 0

\* What the attempt's own receipt proves of its process (observe, receipt_effect).
observation(s) ==
    IF kind = "job" /\ s.attempt.result = "pending" THEN "none"
    ELSE IF s.attempt.state = "cancelled"
              \/ (kind = "job" /\ s.attempt.result \in JobReceipt) THEN "stopped"
    ELSE "unknown"

StopConfirmed(s) ==
    ~attempt_is_live(s) /\ ~(IRREVERSIBLE /\ s.order.current_attempt > 0)

(***************************************************************************)
(* AgentOperationAdapter: the row the core decides on, and the projection  *)
(* of a decision onto the stored order.                                    *)
(***************************************************************************)
\* Bug: a job is declared repeatable like the other kinds.
Bug_adapter(delay) ==
    [irreversible |-> FALSE, actions |-> {}, deadline |-> NoTime, delay |-> delay]

adapter(delay) ==
    [irreversible |-> IRREVERSIBLE, actions |-> {}, deadline |-> NoTime,
     delay |-> delay]

CoreState(s) ==
    IF s.order.state \notin {"backoff", "observing"} THEN s.order.state
    ELSE IF retry_scheduled(s) THEN "backoff"
    ELSE IF s.order.next_action_at # NoTime THEN "observing"
    ELSE "needs-operator"

\* The lease as the core sees it: an open launch budget extends it.
CoreLease(s) ==
    IF s.order.state # "running" \/ s.attempt.state # "running" THEN NoTime
    ELSE MaxOf(s.attempt.lease_deadline, start_deadline(s))

lifecycle(s, away) ==
    LET state == CoreState(s) IN
    [state             |-> state,
     attempt           |-> s.order.current_attempt,
     fence             |-> s.order.current_attempt,
     lease_deadline    |-> CoreLease(s),
     next_action_at    |-> IF state = "running" THEN CoreLease(s)
                           ELSE IF state \in {"backoff", "observing"}
                           THEN s.order.next_action_at ELSE NoTime,
     recovery_deadline |-> order_recovery_deadline(s, away),
     observe_count     |-> s.order.observe_count,
     cancel_requested  |-> CancelFlag(s) \/ ParentEnded(s),
     effect            |-> IF state = "succeeded" THEN "established"
                           ELSE IF state = "cancelled" THEN "stopped"
                           ELSE IF s.order.current_attempt = 0 THEN "none"
                           ELSE IF state = "running" THEN "issued" ELSE "unknown"]

OrNow(t) == IF t = NoTime THEN 0 ELSE t

\* The stored state and the clock: a wait without one is due now (lifecycle_wait).
_stored(s, after) ==
    LET never == s.order.current_attempt = 0 IN
    CASE after.state = "queued" /\ never ->
             [state |-> "queued", next_action_at |-> NoTime]
      [] after.state = "backoff" /\ never ->
             [state |-> "queued", next_action_at |-> 0]
      [] after.state \in {"queued", "backoff"} /\ ~never ->
             [state |-> "backoff", next_action_at |-> OrNow(after.next_action_at)]
      [] after.state = "observing" ->
             [state |-> "observing", next_action_at |-> OrNow(after.next_action_at)]
      [] after.state = "needs-operator" ->
             [state |-> "needs-operator", next_action_at |-> 0]
      [] OTHER ->
             [state |-> after.state, next_action_at |-> NoTime]

apply(s, before, after) ==
    LET stored == _stored(s, after)
        left == before.state = "running" /\ s.attempt.state = "running"
                  /\ after.state \notin {"running", "succeeded", "failed"}
        over == after.state \in Terminal /\ s.attempt.state = "reported-unknown"
    IN  [s EXCEPT
            !.order.state = stored.state,
            !.order.next_action_at = stored.next_action_at,
            !.order.observe_count =
                IF after.state = "observing" THEN after.observe_count ELSE 0,
            !.order.recovery_deadline =
                IF @ = NoTime /\ s.order.current_attempt > 0
                     /\ after.state \in {"observing", "backoff"}
                THEN RECOVERY_BUDGET ELSE @,
            !.attempt = IF left \/ over THEN lapse(@) ELSE @]

ApplyDecision(s, before, after) ==
    IF before = after THEN s ELSE apply(s, before, after)

\* The circumstances of one transaction: is the Spark away, which delay does
\* the backoff choose, did the attempt copy more bytes than any before it.
Circumstances(away) ==
    [away : {away}, delay : Delays,
     advanced : IF kind = "transfer" THEN BOOLEAN ELSE {FALSE}]

\* The recovery window is stored at the first uncertainty; a transfer that
\* copies bytes restarts it, and so does time its Spark was away.
FirstUncertainty(e) ==
    \/ e.kind = "lease-lapsed"
    \/ e.kind = "reported" /\ (e.outcome = "unknown" \/ (e.outcome = "failed" /\ e.retryable))

AnchorRecovery(s, e, c) ==
    [s EXCEPT !.order.recovery_deadline =
        IF @ = NoTime
        THEN IF FirstUncertainty(e) THEN RECOVERY_BUDGET ELSE NoTime
        ELSE IF c.advanced /\ e.kind \in {"lease-lapsed", "reported"}
        THEN RECOVERY_BUDGET
        ELSE order_recovery_deadline(s, c.away)]

\* The inline settle: both steps of reconciler.settle under the caller's locks.
Decided(s, before, d) ==
    [db |-> ApplyDecision(s, before, d.row), row |-> d.row, command |-> d.command]

Decide(s, r, e, c) == Decided(s, r, transition(r, e, adapter(c.delay)))

Answer(s, command) ==
    Observed(IF command = "observe" THEN observation(s)
             ELSE IF StopConfirmed(s) THEN "stopped" ELSE "unknown")

Asks(d) == d.command \in {"observe", "stop"}

Answered(first, c) ==
    IF Asks(first)
    THEN Decide(first.db, first.row, Answer(first.db, first.command), c).db
    ELSE first.db

Anchored(s, e, c) == Answered(Decide(s, lifecycle(s, c.away), e, c), c)

Settle(s, e, c) == Anchored(AnchorRecovery(s, e, c), e, c)

CancelRequested == [kind |-> "cancel-requested"]
LeaseLapsed == [kind |-> "lease-lapsed"]
Tick == [kind |-> "tick"]
Reported(outcome, fence, retryable, effect) ==
    [kind |-> "reported", outcome |-> outcome, fence |-> fence,
     retryable |-> retryable, effect |-> effect]

(***************************************************************************)
(* The parent job follows its orders in the same transaction.  The other   *)
(* orders of the job are seen only as "one of them failed".                *)
(***************************************************************************)
Verdict(s) ==
    LET failed == s.parent.sibling_failed \/ s.order.state = "failed" IN
    IF retry_scheduled(s) /\ ~s.parent.sibling_failed /\ ~CancelFlag(s) THEN "live"
    ELSE IF failed /\ s.order.state \in Terminal \cup Parked THEN "failed"
    ELSE IF s.order.state \in Terminal THEN s.order.state
    ELSE "live"

set_parent_state(s, state) ==
    IF ParentEnded(s) THEN s ELSE [s EXCEPT !.parent.state = state]

\* A failed job abandons a transfer still parked for a retry it cannot run.
_aggregate_parent(s, c) ==
    LET verdict == Verdict(s)
        next == set_parent_state(s, verdict)
    IN  IF verdict = "failed" /\ kind = "transfer" /\ s.order.state \in Parked
        THEN Settle(next, CancelRequested, c) ELSE next

\* Bug: the parent is left to a later pass.
Bug_SettleAndAggregate(s, e, c) == Settle(s, e, c)

SettleAndAggregate(s, e, c) == _aggregate_parent(Settle(s, e, c), c)

end_unobserved_order(s, c) ==
    SettleAndAggregate(expire_attempt(s), CancelRequested, c)

(***************************************************************************)
(* Requests of the Spark.  Claim, heartbeat and result record a contact,   *)
(* so the Spark is not away in the transaction they run in.                *)
(***************************************************************************)
Present == [node EXCEPT !.away = FALSE]
AwayNow == node.away /\ ~node.gone

\* Bug: a Spark keeps its claims after it was revoked.
Bug_ClaimAuthority == ~node.superseded /\ ~CancelFlag(db) /\ ~ParentEnded(db)

\* The conditions every claim needs: current intent, a live parent without a
\* cancel flag, an enrolled Spark.
ClaimAuthority ==
    ~node.superseded /\ ~node.gone /\ ~CancelFlag(db) /\ ~ParentEnded(db)

AttemptReady(att) ==
    \/ att.state \in {"failed", "reported-unknown"}
    \/ att.state = "lapsed" /\ att.lease_deadline = 0

_claim_predicate(s) ==
    \/ /\ s.order.state = "queued"
       /\ s.order.current_attempt = 0
       /\ s.order.recovery_deadline = NoTime \/ s.order.next_action_at <= 0
    \/ /\ s.order.state = "running"
       /\ s.attempt.state = "running" /\ s.attempt.lease_deadline = 0
    \/ /\ retry_scheduled(s)
       /\ s.order.next_action_at = 0
       /\ AttemptReady(s.attempt)

SpentStartBudget ==
    /\ kind = "start"
    /\ db.order.state \in {"running"} \cup Parked
    /\ db.order.current_attempt > 0
    /\ start_deadline(db) = 0
    /\ ~(db.order.state = "running" /\ db.attempt.state = "running"
           /\ db.attempt.lease_deadline > 0)

\* _fail_spent_start_budgets: the first thing a claim request does.
ClaimFailsSpentBudget ==
    /\ ~node.gone /\ SpentStartBudget
    /\ \E c \in Circumstances(AwayNow) :
         db' = SettleAndAggregate(
                   [db EXCEPT !.attempt.state = "failed", !.attempt.result = "refused"],
                   Reported("failed", 0, FALSE, NoEffect), c)
    /\ node' = Present
    /\ UNCHANGED <<kind, exec, pass>>

\* The claim meets its own order still running under a lapsed lease.
ClaimLapsedRunning ==
    /\ ClaimAuthority /\ ~SpentStartBudget /\ _claim_predicate(db)
    /\ db.order.state = "running"
    /\ ~attempt_holds_open_launch_budget(db)
    /\ \E c \in Circumstances(FALSE) :
         db' = SettleAndAggregate(expire_attempt(db), LeaseLapsed, c)
    /\ node' = Present
    /\ UNCHANGED <<kind, exec, pass>>

\* A restart-safe order parked without a retry is scheduled again, never issued
\* by the same request.
ClaimParkedRecovery ==
    /\ ClaimAuthority /\ ~SpentStartBudget /\ ~IRREVERSIBLE
    /\ db.order.state \in Parked /\ ~retry_scheduled(db)
    /\ db.order.current_attempt > 0
    /\ \/ db.attempt.state = "lapsed" /\ db.attempt.lease_deadline = 0
       \/ db.attempt.state \in {"failed", "reported-unknown"}
            /\ db.attempt.result \in {"not-launched", "unknown"}
    /\ \E c \in Circumstances(FALSE) :
         db' = SettleAndAggregate(db, Reported("unknown", 0, FALSE, NoEffect), c)
    /\ node' = Present
    /\ UNCHANGED <<kind, exec, pass>>

\* The order a claim is about to issue: its previous attempt is fenced, and a
\* first start binds its readiness budget.
Dispatchable(s) ==
    [expire_attempt(s) EXCEPT !.order.start_deadline =
        IF kind = "start" /\ s.order.current_attempt = 0 /\ @ = NoTime
        THEN START_BUDGET ELSE @]

\* gpu_health_wait with an unhealthy GPU.
GpuWait(s, c) ==
    LET deadline == IF s.order.recovery_deadline # NoTime
                    THEN s.order.recovery_deadline
                    ELSE IF s.order.start_deadline # NoTime
                    THEN s.order.start_deadline ELSE RECOVERY_BUDGET
        bound == [s EXCEPT !.order.recovery_deadline = deadline]
    IN  IF deadline = 0 THEN end_unobserved_order(bound, c)
        ELSE [bound EXCEPT !.order.next_action_at = MinOf(WAIT_STEP, deadline)]

ClaimGpuWait ==
    /\ kind \in {"job", "start"} /\ ~db.order.output_delivery_only
    /\ ClaimAuthority /\ ~SpentStartBudget /\ _claim_predicate(db)
    /\ db.order.state # "running"
    /\ \E c \in Circumstances(FALSE) : db' = GpuWait(Dispatchable(db), c)
    /\ node' = Present
    /\ UNCHANGED <<kind, exec, pass>>

NewAttempt == Leased([state |-> "running", lease_deadline |-> NoTime,
                      stall |-> NoTime, run_bound |-> NoTime, custody |-> NoTime,
                      result |-> "none"], LEASE)

\* Bug: a retry of a job always runs it.
Bug_Issued(s) == "issued"

\* An order whose job exited with its output undelivered only delivers it.
Issued(s) == IF s.order.output_delivery_only THEN "delivering" ELSE "issued"

\* start_attempt: an order past its recovery deadline is decided instead.
ClaimStart ==
    /\ ClaimAuthority /\ ~SpentStartBudget /\ _claim_predicate(db)
    /\ db.order.state # "running"
    /\ LET s == Dispatchable(db)
           r == lifecycle(s, FALSE)
           n == r.attempt + 1
           claimed == transition(r, [kind |-> "claimed", attempt |-> n, fence |-> n,
                                     lease_deadline |-> LEASE], adapter(1)).row
       IN  IF order_recovery_deadline(s, FALSE) = 0
           THEN /\ \E c \in Circumstances(FALSE) :
                      db' = SettleAndAggregate(s, Tick, c)
                /\ exec' = exec
           ELSE /\ claimed.state = "running" /\ n <= MaxAttempts
                /\ db' = [s EXCEPT !.order.state = "running",
                                   !.order.current_attempt = n,
                                   !.order.next_action_at = NoTime,
                                   !.order.observe_count = 0,
                                   !.attempt = NewAttempt]
                /\ exec' = [exec EXCEPT ![n] = Issued(s)]
    /\ node' = Present
    /\ UNCHANGED <<kind, pass>>

\* _active: the exact current attempt under a live parent, with a lease or an
\* open launch budget.
_active ==
    /\ ~node.gone /\ ~ParentEnded(db)
    /\ db.order.state = "running" /\ db.attempt.state = "running"
    /\ db.attempt.lease_deadline > 0 \/ lapsed_renewal_allowed(db)
    /\ node.superseded => CancelFlag(db)

\* A renewal may be coalesced away, and progress earns the longer lease.
Heartbeat ==
    /\ _active
    /\ IF node.superseded
       THEN IF db.parent.cancel_deadline = 0
            THEN \E c \in Circumstances(FALSE) : db' = end_unobserved_order(db, c)
            ELSE db' = [db EXCEPT !.attempt = Leased(@,
                            MinOf(db.parent.cancel_deadline, MaxOf(@.lease_deadline, LEASE)))]
       ELSE \E renewed \in {db.attempt,
                           Leased(db.attempt, MaxOf(db.attempt.lease_deadline, LEASE)),
                           [Leased(db.attempt, MaxOf(db.attempt.lease_deadline, PROGRESSING))
                               EXCEPT !.stall = IF kind = "start" THEN STALL_WINDOW ELSE @]} :
                db' = [db EXCEPT !.attempt = renewed]
    /\ node' = Present
    /\ UNCHANGED <<kind, exec, pass>>

(***************************************************************************)
(* Results.                                                                *)
(***************************************************************************)
WireState(report) ==
    CASE report = "done"                               -> "succeeded"
      [] report = "cancelled"                          -> "cancelled"
      [] report \in {"pending", "ending", "unknown", "denied"} -> "reported-unknown"
      [] OTHER                                         -> "failed"

\* Bug: the undelivered exit does not turn the order into a delivery.
Bug_record_report(s, report) ==
    [s EXCEPT !.attempt.state = WireState(report), !.attempt.result = report]

\* record_report, and the first undelivered exit turns the order into the
\* delivery of its output, with the custody of the bytes as its deadline.
record_report(s, report) ==
    LET r == [s EXCEPT !.attempt.state = WireState(report), !.attempt.result = report]
    IN  IF report # "pending" THEN r
        ELSE [r EXCEPT !.order.output_delivery_only = TRUE,
                       !.order.recovery_deadline =
                           IF s.order.output_delivery_only THEN @ ELSE RETENTION]

_report_event(s, report) ==
    LET fence == s.order.current_attempt IN
    CASE report = "done"      -> Reported("done", fence, FALSE, NoEffect)
      [] report = "cancelled" -> Reported("cancelled", fence, FALSE, NoEffect)
      [] report = "pending"   -> Reported("failed", fence, TRUE, "none")
      [] OTHER ->
    CASE kind = "start" /\ start_deadline(s) = 0 ->
             Reported("failed", fence, FALSE, NoEffect)
      [] OTHER ->
    CASE report \in {"unknown", "ending"} ->
             Reported("unknown", fence, FALSE, NoEffect)
      [] report = "not-launched" ->
             Reported("failed", fence, ~CancelFlag(s),
                      IF kind = "job" THEN "none" ELSE NoEffect)
      [] OTHER -> Reported("failed", fence, FALSE, NoEffect)

Recorded(s, report, c) ==
    SettleAndAggregate(record_report(s, report), _report_event(s, report), c)

\* What an executor in the given state truthfully reports.  It reports a
\* cancellation only of an order that was withdrawn.
Withdrawn == CancelFlag(db) \/ ParentEnded(db) \/ node.superseded \/ node.gone

Truthful(x) ==
    CASE x \in {"issued", "launched"} -> {"unknown", "denied"}
      [] x = "declined"   -> {"not-launched", "refused", "unknown"}
                                 \cup (IF Withdrawn THEN {"cancelled"} ELSE {})
      [] x = "killed"     -> {"cancelled", "unknown"}
      [] x = "delivering" -> {"done", "exit-failed", "pending", "not-launched",
                              "refused", "unknown"}
      [] x = "exited"     -> IF kind = "job"
                             THEN {"done", "exit-failed", "pending", "ending", "unknown"}
                             ELSE {"done", "not-launched", "refused", "unknown"}
      [] OTHER            -> {}

Reports == IF db.order.current_attempt = 0 THEN {}
           ELSE Truthful(exec[db.order.current_attempt])

\* _finish: a superseded order takes nothing but its cancellation.
ReportResult(report) ==
    /\ _active
    /\ node.superseded => report = "cancelled"
    /\ \E c \in Circumstances(FALSE) :
         db' = IF node.superseded /\ db.parent.cancel_deadline = 0
               THEN end_unobserved_order(db, c)
               ELSE Recorded(db, report, c)
    /\ node' = Present
    /\ UNCHANGED <<kind, exec, pass>>

Adoptable ==
    CASE kind = "job"      -> Report \ {"unknown", "denied"}
      [] kind = "start"    -> {"done", "exit-failed", "not-launched", "refused"}
      [] kind = "transfer" -> {"done"}

adopt_observation_receipt(s, report) ==
    /\ report \in Adoptable
    /\ report = "pending" => s.attempt.custody > 0
    /\ ~node.gone /\ ~node.superseded
    /\ ~ParentEnded(s) /\ ~CancelFlag(s)
    /\ s.order.state \in {"running"} \cup Parked
    /\ s.attempt.state \in {"running", "lapsed", "reported-unknown"}
    /\ \/ s.attempt.result = "none"
       \/ s.attempt.state = "reported-unknown"
       \/ s.attempt.state = "lapsed" /\ s.attempt.result = report

AggregatedIfLive(s, c) == IF ParentEnded(s) THEN s ELSE _aggregate_parent(s, c)

\* An attempt that can no longer report is fenced before its evidence is kept.
LapsedByLateResult(s, c) ==
    IF s.attempt.state # "running"
         \/ ~(s.attempt.lease_deadline = 0 \/ node.superseded) THEN s
    ELSE IF s.order.state # "running" THEN expire_attempt(s)
    ELSE AggregatedIfLive(
             Settle(expire_attempt(s),
                    IF ParentEnded(s) THEN CancelRequested ELSE LeaseLapsed, c), c)

\* Evidence is kept once; other evidence, or evidence of an attempt that may
\* still report, is refused and the transaction rolled back.
Retained(late, report) ==
    IF late.attempt.state = "lapsed" /\ late.attempt.result \in {"none", report}
    THEN [late EXCEPT !.attempt.result = report]
    ELSE db

\* record_late_result: never a renewed contact, the Spark may still be away.
LateResult(report) ==
    /\ ~node.gone
    /\ db.attempt.state # WireState(report) \/ db.attempt.result # report
    /\ \E c \in Circumstances(AwayNow) :
         LET confirmed ==
                 /\ report = "cancelled" /\ node.superseded /\ CancelFlag(db)
                 /\ db.order.state \in {"running"} \cup Parked
                 /\ db.attempt.state \in {"running", "lapsed"}
                 /\ db.attempt.result = "none"
         IN  db' = IF adopt_observation_receipt(db, report)
                   THEN Recorded(db, report, c)
                   ELSE IF confirmed
                   THEN SettleAndAggregate(record_report(db, report),
                            Reported("cancelled", 0, FALSE, NoEffect), c)
                   ELSE Retained(LapsedByLateResult(db, c), report)
    /\ UNCHANGED <<kind, node, exec, pass>>

(***************************************************************************)
(* The worker: sweeps (one transaction each) and the reconciler pass.      *)
(***************************************************************************)
HasRetainedReceipt ==
    /\ pass # Down
    /\ db.order.state \in Parked
    /\ db.attempt.state = "lapsed" /\ db.attempt.result # "none"
    /\ adopt_observation_receipt(db, db.attempt.result)

\* A retained receipt settles the order it belongs to.
SweepAdopts ==
    /\ HasRetainedReceipt
    /\ \E c \in Circumstances(AwayNow) : db' = Recorded(db, db.attempt.result, c)
    /\ UNCHANGED <<kind, node, exec, pass>>

\* A running order whose attempt no longer holds it.
DeadRunning ==
    db.order.state = "running" /\ ~attempt_holds_order(db, node.superseded)

HasDeadRunning == pass # Down /\ DeadRunning

\* _reconcile_dead_running_operation.
SweepDead ==
    /\ HasDeadRunning
    /\ \E c \in Circumstances(AwayNow) :
         db' = SettleAndAggregate(expire_attempt(db),
                   IF node.superseded THEN CancelRequested ELSE LeaseLapsed, c)
    /\ UNCHANGED <<kind, node, exec, pass>>

HasGoneTarget == pass # Down /\ node.gone /\ db.order.state \notin Terminal

SweepGone ==
    /\ HasGoneTarget
    /\ \E c \in Circumstances(FALSE) : db' = end_unobserved_order(db, c)
    /\ UNCHANGED <<kind, node, exec, pass>>

\* What the pass looks at: parked_orders, and any row at its persisted clock
\* (the due-wait backstop redrives it).
Due(s) ==
    \/ s.order.next_action_at = 0
    \/ /\ s.order.state \in Parked
       /\ \/ s.order.next_action_at = NoTime
          \/ s.order.recovery_deadline = 0 /\ s.order.observe_count = 0

Decides(r, d) == d.row # r \/ Asks(d)

HasDueRow ==
    /\ pass = Idle /\ Due(db)
    /\ \E delay \in Delays :
         LET r == lifecycle(db, AwayNow) IN Decides(r, transition(r, Tick, adapter(delay)))

\* The row is read and the core decides; nothing is locked.
PassRead ==
    /\ HasDueRow
    /\ \E delay \in Delays :
         LET r == lifecycle(db, AwayNow)
             d == transition(r, Tick, adapter(delay))
         IN  /\ Decides(r, d)
             /\ pass' = [step |-> IF d.row # r THEN "save" ELSE "ask",
                         before |-> r, after |-> d.row, command |-> d.command,
                         moving |-> Moving(db, AwayNow), age |-> 0, delay |-> delay]
    /\ UNCHANGED <<kind, db, node, exec>>

\* The row of an earlier read in terms of now.
Aged(t, age) == IF t <= 0 THEN t ELSE MaxOf(t - age, 0)
AgedRow(r, age) ==
    [r EXCEPT !.lease_deadline = Aged(@, age), !.next_action_at = Aged(@, age),
              !.recovery_deadline = Aged(@, age)]

\* same_order leaves the lease out.
same_order(left, right) ==
    [left EXCEPT !.lease_deadline = NoTime] = [right EXCEPT !.lease_deadline = NoTime]

\* Bug: the row is saved over whatever is stored by then.
Bug_StillDecided == ~pass.moving

StillDecided ==
    /\ same_order(lifecycle(db, AwayNow), AgedRow(pass.before, pass.age))
    /\ ~pass.moving /\ ~Moving(db, AwayNow)

\* _OrderStore._save: re-read under the locks, apply and aggregate, or give up
\* to the next pass.
PassSave ==
    /\ pass.step = "save"
    /\ IF StillDecided
       THEN /\ LET s == apply(db, AgedRow(pass.before, pass.age), AgedRow(pass.after, pass.age))
               IN  IF s = db THEN db' = db
                   ELSE \E c \in Circumstances(AwayNow) : db' = _aggregate_parent(s, c)
            /\ pass' = IF Asks(pass) THEN [pass EXCEPT !.step = "ask"] ELSE Idle
       ELSE db' = db /\ pass' = Idle
    /\ UNCHANGED <<kind, node, exec>>

AfterAnswer(d) ==
    IF d.row = pass.after THEN Idle
    ELSE [pass EXCEPT !.step = "save", !.before = pass.after,
                      !.after = d.row, !.command = d.command]

\* The command is answered from the rows of that moment; the core decides on
\* the row it decided before, and the next save compares again.
PassAsk ==
    /\ pass.step = "ask"
    /\ LET answer ==
               IF pass.command = "stop"
               THEN IF StopConfirmed(db) THEN "stopped" ELSE "unknown"
               ELSE IF db.order.current_attempt # pass.after.attempt THEN "unknown"
               ELSE observation(db)
           d == transition(pass.after, Observed(answer), adapter(pass.delay))
       IN  pass' = AfterAnswer(d)
    /\ UNCHANGED <<kind, db, node, exec>>

\* The worker stops anywhere, also inside a pass, and starts again.
WorkerStop ==
    /\ pass # Down /\ pass' = Down
    /\ UNCHANGED <<kind, db, node, exec>>

WorkerStart ==
    /\ pass = Down /\ pass' = Idle
    /\ UNCHANGED <<kind, db, node, exec>>

(***************************************************************************)
(* Requests that withdraw the order.                                       *)
(***************************************************************************)
Flagged(s) ==
    [s EXCEPT !.parent.cancel_deadline = CANCEL_WINDOW,
              !.parent.state = IF s.order.state \in Terminal THEN "cancelled" ELSE @]

\* RecipeOperationService.cancel.
RequestCancel ==
    /\ kind \in {"job", "start"}
    /\ ~ParentEnded(db) /\ ~CancelFlag(db)
    /\ \E c \in Circumstances(AwayNow) :
         db' = Flagged(IF db.order.state = "queued" /\ db.order.current_attempt = 0
                       THEN Settle(db, Reported("cancelled", 0, FALSE, NoEffect), c)
                       ELSE db)
    /\ UNCHANGED <<kind, node, exec, pass>>

\* abandon_idempotent_job_in_session: refused while an order runs.
AbandonTransfer ==
    /\ kind = "transfer"
    /\ db.order.state \in {"queued"} \cup Parked
    /\ \E c \in Circumstances(AwayNow) :
         db' = set_parent_state(Settle(db, CancelRequested, c), "cancelled")
    /\ UNCHANGED <<kind, node, exec, pass>>

\* An order being observed keeps its clock.
withdraw_retry(s) ==
    IF s.order.observe_count > 0 THEN s ELSE [s EXCEPT !.order.next_action_at = NoTime]

SupersededParent(s) ==
    IF s.order.state \in {"running"} \cup Parked
    THEN [s EXCEPT !.parent.cancel_deadline = IF @ = NoTime THEN CANCEL_WINDOW ELSE @]
    ELSE set_parent_state(s, IF s.order.state = "failed" \/ s.parent.sibling_failed
                             THEN "failed" ELSE "cancelled")

EndedIfNeverRan(s, c) ==
    IF s.order.state = "queued" /\ s.order.current_attempt = 0
    THEN Settle(s, CancelRequested, c) ELSE s

\* request_superseded_workload_cancellation_in_session: parked transfers are
\* abandoned, an order that never ran ends, any other is flagged.
Superseded(s, c) ==
    LET parked == kind = "transfer" /\ s.order.state \in Parked
                    /\ s.order.current_attempt > 0
        abandoned == IF parked THEN Settle(s, CancelRequested, c) ELSE s
    IN  IF ParentEnded(s) THEN abandoned
        ELSE SupersededParent(EndedIfNeverRan(withdraw_retry(abandoned), c))

Supersede ==
    /\ ~node.superseded
    /\ node' = [node EXCEPT !.superseded = TRUE]
    /\ \E c \in Circumstances(AwayNow) : db' = Superseded(db, c)
    /\ UNCHANGED <<kind, exec, pass>>

\* A claim of newer intent meets this older order in its way: a cancellation
\* window still open blocks that claim, a closed one ends this order.
SuccessorClaims ==
    /\ kind \in {"job", "start"}
    /\ node.superseded /\ ~node.gone
    /\ db.order.current_attempt > 0
    /\ DeadRunning \/ (db.order.state \in Parked /\ CancelFlag(db))
    /\ CancelFlag(db) => db.parent.cancel_deadline = 0
    /\ \E c \in Circumstances(FALSE) :
         db' = SettleAndAggregate(IF CancelFlag(db) THEN db ELSE expire_attempt(db),
                                  CancelRequested, c)
    /\ node' = Present
    /\ UNCHANGED <<kind, exec, pass>>

\* Another order of the same job fails, and the job is aggregated.
SiblingFails ==
    /\ kind # "job" /\ ~ParentEnded(db) /\ ~db.parent.sibling_failed
    /\ \E c \in Circumstances(AwayNow) :
         db' = _aggregate_parent([db EXCEPT !.parent.sibling_failed = TRUE], c)
    /\ UNCHANGED <<kind, node, exec, pass>>

(***************************************************************************)
(* The Spark and its executor, and the clock.                              *)
(***************************************************************************)
Revoke ==
    /\ ~node.gone /\ node' = [node EXCEPT !.gone = TRUE]
    /\ UNCHANGED <<kind, db, exec, pass>>

Depart ==
    /\ ~node.away /\ node' = [node EXCEPT !.away = TRUE]
    /\ UNCHANGED <<kind, db, exec, pass>>

Contact ==
    /\ node.away /\ ~node.gone /\ node' = Present
    /\ UNCHANGED <<kind, db, exec, pass>>

Launch(a) ==
    /\ exec[a] = "issued" /\ exec' = [exec EXCEPT ![a] = "launched"]
    /\ UNCHANGED <<kind, db, node, pass>>

Decline(a) ==
    /\ exec[a] = "issued" /\ exec' = [exec EXCEPT ![a] = "declined"]
    /\ UNCHANGED <<kind, db, node, pass>>

Exit(a) ==
    /\ exec[a] = "launched" /\ exec' = [exec EXCEPT ![a] = "exited"]
    /\ UNCHANGED <<kind, db, node, pass>>

Kill(a) ==
    /\ exec[a] = "launched" /\ Withdrawn
    /\ exec' = [exec EXCEPT ![a] = "killed"]
    /\ UNCHANGED <<kind, db, node, pass>>

LaterOrder(order) ==
    [order EXCEPT !.next_action_at = Elapsed(@), !.recovery_deadline = Elapsed(@),
                  !.start_deadline = Elapsed(@)]
LaterAttempt(att) ==
    [att EXCEPT !.lease_deadline = Elapsed(@), !.stall = Elapsed(@),
                !.run_bound = Elapsed(@), !.custody = Elapsed(@)]
Later(s) ==
    [s EXCEPT !.order = LaterOrder(@), !.attempt = LaterAttempt(@),
              !.parent.cancel_deadline = Elapsed(@)]

LaterPass ==
    IF pass \in {Idle, Down} THEN pass
    ELSE [pass EXCEPT !.age = MinOf(@ + 1, MaxDelay)]

ClockRuns == (Prompt => ~DeadRunning) /\ <<Later(db), LaterPass>> # <<db, pass>>

\* One step of the clock.
Elapse ==
    /\ ClockRuns
    /\ db' = Later(db) /\ pass' = LaterPass
    /\ UNCHANGED <<kind, node, exec>>

NewOrder ==
    [order   |-> [state |-> "queued", current_attempt |-> 0,
                  next_action_at |-> NoTime, observe_count |-> 0,
                  recovery_deadline |-> NoTime, start_deadline |-> NoTime,
                  output_delivery_only |-> FALSE],
     attempt |-> [state |-> "absent", lease_deadline |-> NoTime,
                  stall |-> NoTime, run_bound |-> NoTime,
                  custody |-> NoTime, result |-> "none"],
     parent  |-> [state |-> "live", cancel_deadline |-> NoTime,
                  sibling_failed |-> FALSE]]

\* The row an earlier release left behind: its ingress kept the receipt of a
\* finished transfer on the lapsed attempt and did not settle the order.
KeptByOldIngress ==
    [NewOrder EXCEPT
        !.order   = [@ EXCEPT !.state = "backoff", !.current_attempt = 1,
                              !.next_action_at = WAIT_STEP,
                              !.recovery_deadline = RECOVERY_BUDGET],
        !.attempt = [@ EXCEPT !.state = "lapsed", !.lease_deadline = 0, !.result = "done"]]

Init ==
    /\ kind \in Kinds
    /\ \/ /\ db = NewOrder
          /\ exec = [a \in Attempts |-> "none"]
       \/ /\ kind = "transfer" /\ db = KeptByOldIngress
          /\ exec = [a \in Attempts |-> IF a = 1 THEN "exited" ELSE "none"]
    /\ node = [superseded |-> FALSE, gone |-> FALSE, away |-> FALSE]
    /\ pass = Idle

Claim == \/ ClaimFailsSpentBudget \/ ClaimLapsedRunning \/ ClaimParkedRecovery
         \/ ClaimGpuWait \/ ClaimStart
Sweep == SweepAdopts \/ SweepDead \/ SweepGone
PassStep == PassRead \/ PassSave \/ PassAsk
Withdraw == RequestCancel \/ AbandonTransfer \/ Supersede \/ SuccessorClaims
Executor == \E a \in Attempts : Launch(a) \/ Decline(a) \/ Exit(a) \/ Kill(a)

Next ==
    \/ Claim \/ Heartbeat
    \/ \E report \in Reports : ReportResult(report) \/ LateResult(report)
    \/ Sweep \/ PassStep \/ WorkerStop \/ WorkerStart
    \/ Withdraw \/ SiblingFails
    \/ Revoke \/ Depart \/ Contact \/ Executor \/ Elapse

Spec == Init /\ [][Next]_vars

TypeOK ==
    /\ kind \in Kinds /\ db \in Db /\ node \in Node
    /\ exec \in [Attempts -> ExecState]
    /\ pass \in Pass

(***************************************************************************)
(* Safety.                                                                 *)
(***************************************************************************)
Ran == {"launched", "exited", "killed"}

\* A user's one-shot job runs at most once, whatever leases lapse, Sparks leave
\* and return, results come late and reconciler passes are interrupted.
AtMostOneLaunch ==
    kind = "job" =>
        \A a, b \in Attempts : exec[a] \in Ran /\ exec[b] \in Ran => a = b

\* A job is never issued while an earlier attempt of it may still launch or run.
NoOverlap ==
    kind = "job" =>
        \A a \in Attempts : a < db.order.current_attempt =>
            exec[a] \in {"declined", "delivering", "exited"}

\* A job order issues another attempt only when every earlier one never
\* launched, or to deliver the output of the one that exited.
ReissueIsProven ==
    kind = "job" =>
        \A a \in Attempts : a < db.order.current_attempt =>
            \/ exec[a] \in {"declined", "delivering"}
            \/ exec[a] = "exited" /\ db.order.output_delivery_only

\* An attempt holds the order exactly while the order runs: no ended or parked
\* order leaves a live claim behind, no running order is without one.
ClaimMatchesOrder == (db.order.state = "running") <=> (db.attempt.state = "running")

\* The parent job ends in the transaction that ends its order, and never
\* reports a success its order does not have.
ParentFollowsOrder ==
    /\ db.order.state \in Terminal => ParentEnded(db)
    /\ db.parent.state = "succeeded" => db.order.state = "succeeded"

\* An order succeeds only when its work really finished: no lost, stale or
\* replayed answer makes a success.
SuccessIsReal ==
    db.order.state = "succeeded" =>
        exec[db.order.current_attempt] \in {"exited", "delivering"}

\* Once ended, an order keeps its outcome: late results, sweeps, stale passes
\* and cancels change nothing.
EndedStaysEnded ==
    [][db.order.state \in Terminal => db'.order.state = db.order.state]_vars

\* No attempt is issued once the order is cancelled, superseded, its job has
\* ended or its Spark is revoked.
WithdrawnIsNotIssued ==
    [][Withdrawn => db'.order.current_attempt = db.order.current_attempt]_vars

(***************************************************************************)
(* Liveness.  The worker's tasks run periodically, the worker is started   *)
(* again when it stops, and the clock advances; nothing is assumed of the  *)
(* Spark, of its executor or of people.  The disjunctions are weak         *)
(* fairness with the condition that enables the action written out: TLC    *)
(* evaluates that far faster than the ENABLED of these actions.            *)
(***************************************************************************)
Fairness ==
    /\ WF_vars(WorkerStart) /\ WF_vars(Elapse)
    /\ []<>(~HasRetainedReceipt) \/ []<><<SweepAdopts>>_vars
    /\ []<>(~HasDeadRunning)     \/ []<><<SweepDead>>_vars
    /\ []<>(~HasGoneTarget)      \/ []<><<SweepGone>>_vars
    /\ []<>(~HasDueRow)          \/ []<><<PassRead>>_vars
    /\ []<>(pass.step # "save")  \/ []<><<PassSave>>_vars
    /\ []<>(pass.step # "ask")   \/ []<><<PassAsk>>_vars

FairSpec == Spec /\ Fairness

\* The worker does not stop for ever again and again.
StaysUp == <>[](pass # Down)
\* The agent stops renewing: no lease is live for ever.
FallsSilent == <>[](db.attempt.lease_deadline <= 0)
\* The Spark is not away for ever, nor leaving for ever again and again.
Returns == <>[](~node.away)

Cancelling == CancelFlag(db) \/ node.gone \/ ParentEnded(db)

\* A cancellation is never taken back while its order is open.
CancelStands ==
    [][Cancelling /\ db.order.state \notin Terminal => Cancelling']_vars

\* Rule 4, "a cancel always completes": the order of a cancelled job, of a job
\* that ended without it and of a revoked Spark ends, whatever the executor does.
\* As a cancellation stands, this is that cancelling leads to an end.
CancelCompletes ==
    StaysUp /\ FallsSilent /\ Returns =>
        []<>(Cancelling => db.order.state \in Terminal)

\* An issued order is not left running or observed for ever once its Spark is
\* silent: it is retried or it ends.
NothingHangs ==
    StaysUp /\ FallsSilent /\ Returns =>
        []<>(db.order.state \notin {"running", "observing"}
               \/ db.order.current_attempt = 0)

\* The rows of the order, its attempt and its parent agree with each other and
\* with what was executed, in every committed state (every handler's own
\* transaction).
RowsAgree == TypeOK /\ ClaimMatchesOrder /\ ParentFollowsOrder /\ SuccessIsReal

\* The worker's sweeps and passes are enough: a cancel completes, and an order
\* of a silent Spark is retried or ends (reconcile_orders).
Concludes == CancelStands /\ CancelCompletes /\ NothingHangs
=============================================================================
