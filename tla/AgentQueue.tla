----------------------------- MODULE AgentQueue -----------------------------
(***************************************************************************)
(* The orders of one Spark beside each other: which of them a poll picks,  *)
(* which other order keeps it back, and what the poll does with the orders *)
(* it finds in its way.  AgentOrder has one order in full; here an order   *)
(* keeps only what the queue decides from.  Its lapsed leases, reports and *)
(* cancellations are decided by the same lifecycle core.                   *)
(*                                                                         *)
(* Every handler is one transaction under the Spark's locks and therefore  *)
(* one action.  The executors on the Spark, its restarts and the clock run *)
(* beside them.                                                            *)
(***************************************************************************)
EXTENDS LifecycleCore, FiniteSets, FiniteSetsExt

CONSTANTS
    Orders,        \* 1 .. n: the orders in the order of their creation
    Plans,         \* what may be ordered: [Orders -> [kind, intent, target]];
                   \* intent 0: none
    MaxIntent,     \* bound on the Spark's workload intents
    MaxRestarts,   \* bound on the restarts of its agent
    LEASE,         \* CLAIM_LEASE_SECONDS
    START_BUDGET,  \* the readiness budget a start binds
    CANCEL_WINDOW, \* SUPERSEDED_CANCELLATION_SECONDS
    RECOVERY,      \* AGENT_ORDER_RECOVERY_BUDGET
    FENCE,         \* AGENT_UPGRADE_RECOVERY_FENCE
    WAIT_STEP,     \* the delay of a retry, and of a wait for disk or GPU
    Unfit          \* the kinds whose poll may find the disk full or the GPU unhealthy

Kinds == {"upgrade", "build", "build-cleanup", "transfer", "start", "job", "stop",
          "probe"}

ASSUME QueueAssumption ==
    /\ Orders = 1 .. Cardinality(Orders)
    /\ Plans \subseteq [Orders -> [kind : Kinds, intent : 0 .. MaxIntent,
                                   target : STRING]]
    /\ {LEASE, START_BUDGET, CANCEL_WINDOW, RECOVERY, FENCE, WAIT_STEP}
           \subseteq 1 .. MaxDelay
    /\ MaxRestarts \in Nat /\ MaxIntent \in Nat \ {0}
    /\ Unfit \subseteq Kinds
    /\ \A p \in Plans : Cardinality({o \in Orders : p[o].kind = "upgrade"}) <= 1

VARIABLES
    plan,     \* the kind, intent and target column of each order
    q,        \* the committed order rows of this Spark
    intent,   \* the Spark's workload_intent_ordinal
    exec,     \* the orders whose executor runs on the Spark
    restarts  \* restarts of the agent so far

vars == <<plan, q, intent, exec, restarts>>

Kind(o) == plan[o].kind
Intent(o) == plan[o].intent
Parked == {"backoff", "observing", "needs-operator"}
RunningOrParked == {"running"} \cup Parked

_MUTATING_OPERATIONS == Kinds \ {"probe"}
_WORKLOAD_INTENT_OPERATIONS == {"transfer", "start", "job", "stop"}
CLEANUP_KINDS == {"stop"}
OFF_LANE_OPERATIONS == {"build"}
RESTART_REISSUE_OPERATIONS == Kinds \ {"job", "upgrade"}
IRREVERSIBLE(o) == Kind(o) = "job"

\* issued: current_attempt > 0.  cancel is NoTime until the parent carries
\* cancel_requested, then the rest of its cancellation window.  orphan: the
\* parent job ended without this order.
OrderRow == [state : State \cup {"absent"}, issued : BOOLEAN,
             attempt : {"absent", "running", "lapsed", "unknown", "failed", "over"},
             lease : Timer, budget : Timer, due : Timer, looks : Nat,
             recovery : Timer, cancel : Timer, orphan : BOOLEAN]

\* Every row is well formed, only existing orders execute, and the counters
\* stay within their bounds.
TypeOK ==
    /\ plan \in Plans
    /\ q \in [Orders -> OrderRow]
    /\ intent \in 1 .. MaxIntent
    /\ exec \subseteq {o \in Orders : q[o].issued}
    /\ restarts \in 0 .. MaxRestarts

Absent == [state |-> "absent", issued |-> FALSE, attempt |-> "absent",
           lease |-> NoTime, budget |-> NoTime, due |-> NoTime, looks |-> 0,
           recovery |-> NoTime, cancel |-> NoTime, orphan |-> FALSE]

Init ==
    /\ plan \in Plans
    /\ q = [o \in Orders |-> Absent]
    /\ intent = 1
    /\ exec = {}
    /\ restarts = 0

(***************************************************************************)
(* One order: who holds it, and what the core makes of an event.           *)
(***************************************************************************)
attempt_holds_open_launch_budget(x) == x.attempt = "running" /\ x.budget > 0

attempt_is_live(x) ==
    x.attempt = "running" /\ (x.lease > 0 \/ attempt_holds_open_launch_budget(x))

attempt_holds_order(x, superseded) ==
    IF superseded THEN x.attempt = "running" /\ x.lease > 0 ELSE attempt_is_live(x)

retry_scheduled(x) ==
    x.state \in {"backoff", "observing"} /\ x.due # NoTime /\ x.looks = 0

expire_attempt(x) ==
    IF x.attempt \in {"running", "unknown"} THEN [x EXCEPT !.attempt = "lapsed"] ELSE x

adapter(o) ==
    [irreversible |-> IRREVERSIBLE(o), actions |-> {}, deadline |-> NoTime,
     delay |-> IF Kind(o) = "upgrade" THEN FENCE ELSE WAIT_STEP]

CoreState(x) ==
    IF x.state \notin {"backoff", "observing"} THEN x.state
    ELSE IF retry_scheduled(x) THEN "backoff"
    ELSE IF x.due # NoTime THEN "observing" ELSE "needs-operator"

CoreLease(x) ==
    IF x.state # "running" \/ x.attempt # "running" THEN NoTime
    ELSE IF x.budget > x.lease THEN x.budget ELSE x.lease

CoreEffect(x, state) ==
    IF ~x.issued THEN "none" ELSE IF state = "running" THEN "issued" ELSE "unknown"

\* The row the core decides on (AgentOperationAdapter.lifecycle); the attempts
\* are one number, an order is claimed again or it is not.
lifecycle(x, state) ==
    [state |-> state, attempt |-> IF x.issued THEN 1 ELSE 0, fence |-> 0,
     lease_deadline |-> CoreLease(x),
     next_action_at |-> IF state = "running" THEN CoreLease(x)
                        ELSE IF state \in {"backoff", "observing"} THEN x.due ELSE NoTime,
     recovery_deadline |-> x.recovery, observe_count |-> x.looks,
     cancel_requested |-> x.cancel # NoTime \/ x.orphan,
     effect |-> CoreEffect(x, state)]

OrNow(t) == IF t = NoTime THEN 0 ELSE t

\* The decision on the stored order.  An attempt that left its order running
\* is fenced; a retried upgrade keeps its lease until the dpkg fence is over.
apply(o, x, before, after) ==
    LET waits == after.state \in {"backoff", "observing"}
        again == after.state = "queued" \/ waits
        left == before.state = "running" /\ x.attempt = "running" /\ after.state # "running"
        fenced == Kind(o) = "upgrade" /\ after.state = "backoff"
    IN  [x EXCEPT
            !.state = IF after.state \in {"queued", "backoff"}
                      THEN IF x.issued THEN "backoff" ELSE "queued" ELSE after.state,
            !.due = IF again /\ x.issued THEN OrNow(after.next_action_at) ELSE NoTime,
            !.looks = IF after.state = "observing" THEN after.observe_count ELSE 0,
            !.recovery = IF @ = NoTime /\ x.issued /\ waits THEN RECOVERY ELSE @,
            !.attempt = IF left \/ (fenced /\ @ = "running") THEN "lapsed" ELSE @,
            !.lease = IF fenced /\ @ < OrNow(after.next_action_at)
                      THEN OrNow(after.next_action_at) ELSE @]

\* Nothing but its outcome is read of an order that ended.
Over(x, state) == [Absent EXCEPT !.state = state, !.issued = x.issued]

FirstUncertainty(e) ==
    \/ e.kind = "lease-lapsed"
    \/ e.kind = "reported" /\ (e.outcome = "unknown" \/ (e.outcome = "failed" /\ e.retryable))

Anchored(x, e) ==
    [x EXCEPT !.recovery = IF @ = NoTime /\ FirstUncertainty(e) THEN RECOVERY ELSE @]

Applied(o, x, before, d) ==
    IF d.row = before THEN x
    ELSE IF d.row.state \in Terminal THEN Over(x, d.row.state)
    ELSE apply(o, x, before, d.row)

\* The value of an expression, computed once.
The(S) == CHOOSE v \in S : TRUE

\* A stop is confirmed once no attempt is live, unless what ran cannot be seen.
SettledFrom(o, x, before, e) ==
    The({Applied(o, x, r, settle(r, e, adapter(o), "unknown", ~(IRREVERSIBLE(o) /\ x.issued))) :
            r \in {before}})

\* AgentOperationAdapter.settle: the window of the first uncertainty is stored,
\* then the core decides.
Settle(o, x, e) ==
    The({SettledFrom(o, y, lifecycle(y, CoreState(y)), e) : y \in {Anchored(x, e)}})

CancelRequested == [kind |-> "cancel-requested"]
LeaseLapsed == [kind |-> "lease-lapsed"]
Tick == [kind |-> "tick"]
Reported(outcome, retryable) ==
    [kind |-> "reported", outcome |-> outcome, fence |-> 0, retryable |-> retryable,
     effect |-> NoEffect]

end_unobserved_order(o, x) == Settle(o, expire_attempt(x), CancelRequested)

(***************************************************************************)
(* Two orders: what may not overlap, and what a newer one makes of an      *)
(* older one in its way.                                                   *)
(***************************************************************************)

\* A build conflicts only with its own build identity and with an upgrade.
mutations_conflict(a, b) ==
    /\ {Kind(a), Kind(b)} \subseteq _MUTATING_OPERATIONS
    /\ "build" \in {Kind(a), Kind(b)} =>
          \/ "upgrade" \in {Kind(a), Kind(b)}
          \/ /\ {Kind(a), Kind(b)} \subseteq {"build", "build-cleanup"}
             /\ plan[a].target = plan[b].target

SupersededAt(o, ordinal) ==
    Kind(o) \notin CLEANUP_KINDS /\ Intent(o) # 0 /\ ordinal # 0 /\ Intent(o) < ordinal

\* A later exact Stop of the run succeeded: what its start left is over.
_exact_service_stop_receipt_covers_start(s, o, h) ==
    /\ Intent(h) # 0 /\ Kind(o) = "start"
    /\ \E p \in Orders : /\ Kind(p) = "stop" /\ s[p].state = "succeeded"
                         /\ plan[p].target = plan[o].target
                         /\ Intent(o) < Intent(p) /\ Intent(p) <= Intent(h)

_superseded_cancellation_state(s, o, h) ==
    IF /\ {Kind(o), Kind(h)} \subseteq _WORKLOAD_INTENT_OPERATIONS
       /\ s[o].issued /\ SupersededAt(o, Intent(h)) /\ s[o].cancel # NoTime
    THEN IF s[o].cancel > 0 THEN "block" ELSE "cancelled"
    ELSE "not-applicable"

\* Bug: an order of an older intent is never in the way.
Bug_Standing(s, o, h) ==
    IF \/ o = h \/ s[o].state \notin RunningOrParked
       \/ ~mutations_conflict(h, o) \/ SupersededAt(o, Intent(h)) THEN "clear"
    ELSE IF attempt_is_live(s[o]) THEN "block" ELSE "dead"

\* What the poll that wants h makes of another order: it is clear of it, it
\* blocks it, its cancellation is over, or it is dead and has to be decided.
Standing(s, o, h) ==
    IF \/ o = h \/ s[o].state \notin RunningOrParked
       \/ ~mutations_conflict(h, o)
       \/ _exact_service_stop_receipt_covers_start(s, o, h) THEN "clear"
    ELSE IF /\ s[o].state = "running"
            /\ attempt_holds_order(s[o], SupersededAt(o, Intent(h))) THEN "block"
    ELSE IF _superseded_cancellation_state(s, o, h) # "not-applicable"
    THEN _superseded_cancellation_state(s, o, h)
    ELSE IF s[o].state = "running" THEN "dead" ELSE "clear"

_reconcile_dead_running_operation(o, x, superseded) ==
    Settle(o, expire_attempt(x), IF superseded THEN CancelRequested ELSE LeaseLapsed)

\* The rows once the orders in the way of h are decided.
Decided(s, h) ==
    [o \in Orders |->
        CASE Standing(s, o, h) = "cancelled" -> Settle(o, s[o], CancelRequested)
          [] Standing(s, o, h) = "dead" ->
                 _reconcile_dead_running_operation(o, s[o], SupersededAt(o, Intent(h)))
          [] OTHER -> s[o]]

Blocking(s, h) == {o \in Orders : Standing(s, o, h) = "block"}
Dead(s, h) == {o \in Orders : Standing(s, o, h) = "dead"}

\* A profile's Stop names the job orders it removes; here, by their target.
_profile_stop_covers_jobrun_mutations(h, blocking) ==
    \A o \in blocking : Kind(o) = "job" /\ plan[o].target = plan[h].target

stop_cleans_superseded(s, h, blocking) ==
    /\ Kind(h) = "stop" /\ Intent(h) # 0
    /\ IF \E o \in blocking : Kind(o) = "job"
       THEN _profile_stop_covers_jobrun_mutations(h, blocking)
       ELSE \A o \in blocking :
              /\ Kind(o) \in {"start", "stop"} /\ Intent(o) # 0 /\ Intent(o) < Intent(h)
              /\ plan[o].target = plan[h].target /\ s[o].cancel # NoTime

(***************************************************************************)
(* The poll.  Its prefix fails spent starts, chooses the head and takes an *)
(* activation receipt; what it then does with the head is one disjunct per *)
(* way out.                                                                *)
(***************************************************************************)
SpentStartBudget(o, x) ==
    /\ Kind(o) = "start" /\ x.issued /\ x.state \in RunningOrParked /\ x.budget = 0
    /\ ~(x.state = "running" /\ x.attempt = "running" /\ x.lease > 0)

_fail_spent_start_budgets(s) ==
    [o \in Orders |->
        IF SpentStartBudget(o, s[o])
        THEN Settle(o, [s[o] EXCEPT !.attempt = "failed"], Reported("failed", FALSE))
        ELSE s[o]]

CurrentIntent(o) == Intent(o) \in {0, intent} \/ Kind(o) \in CLEANUP_KINDS

AttemptReady(x) ==
    x.attempt \in {"failed", "unknown"} \/ (x.attempt = "lapsed" /\ x.lease <= 0)

_claim_predicate(o, x) ==
    /\ CurrentIntent(o) /\ x.cancel = NoTime
    /\ \/ x.state = "queued" /\ ~x.issued /\ (x.recovery = NoTime \/ x.due <= 0)
       \/ x.state = "running" /\ x.attempt = "running" /\ x.lease <= 0
       \/ /\ retry_scheduled(x) /\ AttemptReady(x)
          /\ IF Kind(o) = "upgrade" THEN x.lease <= 0 ELSE x.due <= 0

\* The live orders that run beside the lane.
Beside(s) == {b \in Orders : /\ Kind(b) \in OFF_LANE_OPERATIONS
                             /\ s[b].state = "running" /\ attempt_is_live(s[b])}

\* Claimable and not held by an order beside the lane.
Claimable(s) ==
    {o \in Orders : /\ _claim_predicate(o, s[o])
                    /\ \A b \in Beside(s) : ~mutations_conflict(o, b)}

ParkedBuild(s, o) == Kind(o) = "build" /\ s[o].state = "backoff"

\* _first_claimable_id: the oldest, and a parked build after all others.
IsHead(s, h) ==
    /\ h \in Claimable(s)
    /\ \A o \in Claimable(s) \ {h} :
          IF ParkedBuild(s, h) = ParkedBuild(s, o) THEN h < o ELSE ParkedBuild(s, o)

\* The Spark reports the activated package, and its order is done.
Acknowledged(s, u) ==
    IF u = 0 THEN s
    ELSE [s EXCEPT ![u] = Settle(u, [@ EXCEPT !.attempt = IF @ = "failed" THEN @ ELSE "over"],
                                 Reported("done", FALSE))]

Acknowledgeable(s) ==
    {u \in Orders : /\ Kind(u) = "upgrade" /\ s[u].issued
                    /\ s[u].state \in RunningOrParked
                    /\ s[u].attempt \in {"running", "lapsed", "unknown", "failed"}}

\* A restart-safe order parked without a retry, whose executor is over or fenced.
_parked_retry_evidence(o, x) ==
    /\ Kind(o) \in RESTART_REISSUE_OPERATIONS /\ x.issued
    /\ x.state \in Parked /\ ~retry_scheduled(x)
    /\ AttemptReady(x)

NewAttempt(x) ==
    [x EXCEPT !.state = "running", !.issued = TRUE, !.attempt = "running",
              !.lease = LEASE, !.due = NoTime, !.looks = 0]

\* The previous attempt is fenced; a first start binds its readiness budget.
Dispatchable(o, x) ==
    [expire_attempt(x) EXCEPT
        !.budget = IF Kind(o) = "start" /\ ~x.issued /\ @ = NoTime THEN START_BUDGET ELSE @]

Within(t, deadline) == IF deadline # NoTime /\ deadline < t THEN deadline ELSE t

\* No candidate: the oldest parked order that may run again is scheduled; it
\* is never issued by the same request.
Recoverable(s) ==
    {o \in Orders : /\ CurrentIntent(o) /\ s[o].cancel = NoTime /\ ~s[o].orphan
                    /\ _parked_retry_evidence(o, s[o])}

NoCandidate(s, t) ==
    /\ q' = IF Recoverable(s) = {} THEN t
            ELSE LET o == Min(Recoverable(s))
                 IN  [t EXCEPT ![o] = Settle(o, @, Reported("unknown", FALSE))]
    /\ UNCHANGED exec

\* _claim_has_authority: the parent job still offers this order.
_claim_has_authority(x) == ~x.orphan

Refused(t) == q' = t /\ UNCHANGED exec

\* The head is no longer claimable, or its job ended.
HeadRefused(t, h) ==
    /\ ~_claim_predicate(h, t[h]) \/ ~_claim_has_authority(t[h])
    /\ Refused(t)

Offered(t, h) == _claim_predicate(h, t[h]) /\ _claim_has_authority(t[h])

\* Another order is in the way, or was and has just been decided.
HeadWaits(t, h) ==
    \/ Dead(t, h) # {} /\ Blocking(t, h) = {}
    \/ Blocking(t, h) # {} /\ ~stop_cleans_superseded(t, h, Blocking(t, h))

HeadBlocked(t, h) == Offered(t, h) /\ HeadWaits(t, h) /\ Refused(Decided(t, h))

\* The head itself still runs, within its launch budget or past its lease.
HeadLapsed(t, h) ==
    /\ Offered(t, h) /\ ~HeadWaits(t, h) /\ t[h].state = "running"
    /\ Refused(IF attempt_holds_open_launch_budget(t[h]) THEN Decided(t, h)
               ELSE [Decided(t, h) EXCEPT ![h] = Settle(h, expire_attempt(@), LeaseLapsed)])

Ready(t, h) == Offered(t, h) /\ ~HeadWaits(t, h) /\ t[h].state # "running"

\* A parked build needs its disk again before it runs again.
HeadLacksDisk(t, h) ==
    /\ Kind(h) \in Unfit /\ Ready(t, h) /\ Kind(h) = "build"
    /\ t[h].issued /\ t[h].recovery # 0
    /\ Refused([Decided(t, h) EXCEPT ![h] =
           [expire_attempt(@) EXCEPT !.due = Within(WAIT_STEP, t[h].recovery)]])

\* gpu_health_wait with an unhealthy GPU: the wait has a deadline of its own.
GpuWait(o, x, deadline) ==
    IF deadline = 0 THEN end_unobserved_order(o, [x EXCEPT !.recovery = 0])
    ELSE [x EXCEPT !.recovery = deadline, !.due = Within(WAIT_STEP, deadline)]

GpuDeadline(x) == IF x.recovery # NoTime THEN x.recovery
                  ELSE IF x.budget # NoTime THEN x.budget ELSE RECOVERY

HeadLacksGpu(t, h) ==
    /\ Kind(h) \in Unfit /\ Ready(t, h) /\ Kind(h) \in {"build", "start", "job"}
    /\ Refused([Decided(t, h) EXCEPT ![h] =
           GpuWait(h, Dispatchable(h, @), GpuDeadline(Dispatchable(h, @)))])

\* start_attempt: an order past its recovery deadline is decided instead.
HeadExpired(t, h) ==
    /\ Ready(t, h) /\ t[h].recovery = 0
    /\ Refused([Decided(t, h) EXCEPT ![h] = Settle(h, Dispatchable(h, @), Tick)])

HeadIssued(t, h) ==
    /\ Ready(t, h) /\ t[h].recovery # 0
    /\ q' = [Decided(t, h) EXCEPT ![h] = NewAttempt(Dispatchable(h, @))]
    /\ exec' = exec \cup {h}

\* Bug: the agent polls while an order of its lane runs.
Bug_LaneFree == TRUE

\* The agent polls while no executor of its lane runs.
LaneFree == \A o \in exec : Kind(o) \in OFF_LANE_OPERATIONS

HeadDecided(t, h) ==
    \/ HeadRefused(t, h)   \/ HeadBlocked(t, h)  \/ HeadLapsed(t, h)
    \/ HeadLacksDisk(t, h) \/ HeadLacksGpu(t, h) \/ HeadExpired(t, h) \/ HeadIssued(t, h)

\* s: the rows the head is chosen from; t: with the activation receipt taken.
PollOf(s, t) ==
    \/ Claimable(s) = {} /\ NoCandidate(s, t)
    \/ \E h \in Orders : IsHead(s, h) /\ HeadDecided(t, h)

Poll ==
    /\ LaneFree
    /\ \E s \in {_fail_spent_start_budgets(q)} :
         \E t \in {Acknowledged(s, u) : u \in {0} \cup Acknowledgeable(s)} : PollOf(s, t)
    /\ UNCHANGED <<plan, intent, restarts>>

(***************************************************************************)
(* Heartbeats and results.                                                 *)
(***************************************************************************)
Superseded(o) == SupersededAt(o, intent)

_active(o) ==
    /\ q[o].state = "running" /\ attempt_is_live(q[o]) /\ ~q[o].orphan
    /\ Superseded(o) => q[o].cancel # NoTime

\* A superseded order is renewed up to the end of its cancellation window only.
Heartbeat(o) ==
    /\ o \in exec /\ _active(o)
    /\ q' = [q EXCEPT ![o] =
           IF ~Superseded(o) THEN [@ EXCEPT !.lease = LEASE]
           ELSE IF @.cancel = 0 THEN end_unobserved_order(o, @)
           ELSE [@ EXCEPT !.lease = Within(LEASE, q[o].cancel)]]
    /\ UNCHANGED <<plan, intent, exec, restarts>>

\* What an executor may say.  An upgrade hands its package over and restarts.
Outcomes(o) ==
    IF Kind(o) = "upgrade" THEN {"unknown", "again"}
    ELSE {"done", "failed", "again", "unknown"}
            \cup (IF Superseded(o) \/ q[o].cancel # NoTime THEN {"cancelled"} ELSE {})

Recorded(o, x, outcome) ==
    Settle(o, [x EXCEPT !.attempt = CASE outcome \in {"done", "cancelled"}  -> "over"
                                      [] outcome \in {"failed", "again"}    -> "failed"
                                      [] OTHER                              -> "unknown"],
           CASE outcome = "again" ->
                    Reported("failed", x.cancel = NoTime /\ ~(Kind(o) = "start" /\ x.budget = 0))
             [] outcome = "unknown" /\ Kind(o) = "start" /\ x.budget = 0 ->
                    Reported("failed", FALSE)
             [] OTHER -> Reported(outcome, FALSE))

ReportResult(o, outcome) ==
    /\ _active(o) /\ (Superseded(o) => outcome = "cancelled")
    /\ q' = [q EXCEPT ![o] = IF Superseded(o) /\ @.cancel = 0
                             THEN end_unobserved_order(o, @)
                             ELSE Recorded(o, @, outcome)]

\* Evidence that settles its order after the lease: a success, and a definite
\* failure of a runtime order.
adopt_observation_receipt(o, outcome) ==
    /\ outcome = "done" \/ (Kind(o) \in {"start", "stop", "job"} /\ outcome \in {"failed", "again"})
    /\ ~Superseded(o) /\ CurrentIntent(o)
    /\ Kind(o) \in _WORKLOAD_INTENT_OPERATIONS => Intent(o) = intent
    /\ q[o].state \in RunningOrParked /\ q[o].attempt \in {"running", "lapsed", "unknown"}
    /\ ~q[o].orphan /\ q[o].cancel = NoTime

CancellationConfirmed(o, outcome) ==
    /\ outcome = "cancelled" /\ Superseded(o) /\ q[o].cancel # NoTime
    /\ q[o].state \in RunningOrParked /\ q[o].attempt \in {"running", "lapsed"}

LapsedByLateResult(o, x) ==
    IF x.attempt # "running" \/ ~(x.lease <= 0 \/ Superseded(o)) THEN x
    ELSE IF x.state # "running" THEN expire_attempt(x)
    ELSE Settle(o, expire_attempt(x), LeaseLapsed)

\* record_late_result.
LateResult(o, outcome) ==
    /\ ~(_active(o) /\ (Superseded(o) => outcome = "cancelled"))
    /\ q' = [q EXCEPT ![o] =
           IF adopt_observation_receipt(o, outcome) \/ CancellationConfirmed(o, outcome)
           THEN Recorded(o, @, outcome)
           ELSE LapsedByLateResult(o, @)]

\* An executor ends and its result arrives, in time or late.
ExecutorEnds(o) ==
    /\ o \in exec
    /\ exec' = exec \ {o}
    /\ \E outcome \in Outcomes(o) : ReportResult(o, outcome) \/ LateResult(o, outcome)
    /\ UNCHANGED <<plan, intent, restarts>>

(***************************************************************************)
(* The worker's sweeps and pass, the requests, the Spark and the clock.    *)
(***************************************************************************)
DeadRunning(o) == q[o].state = "running" /\ ~attempt_holds_order(q[o], Superseded(o))

SweepDead(o) ==
    /\ DeadRunning(o)
    /\ q' = [q EXCEPT ![o] = _reconcile_dead_running_operation(o, @, Superseded(o))]
    /\ UNCHANGED <<plan, intent, exec, restarts>>

\* What the reconciler pass looks at, and the backstop at a persisted clock.
Due(x) ==
    \/ x.due = 0
    \/ x.state \in Parked /\ (x.due = NoTime \/ (x.recovery = 0 /\ x.looks = 0))

\* Bug: the pass leaves orders whose parent ended to their retry.
Bug_PassDecides(o) ==
    /\ Due(q[o]) /\ ~q[o].orphan
    /\ q' = [q EXCEPT ![o] = Settle(o, @, Tick)]
    /\ UNCHANGED <<plan, intent, exec, restarts>>

PassDecides(o) ==
    /\ Due(q[o])
    /\ q' = [q EXCEPT ![o] = Settle(o, @, Tick)]
    /\ UNCHANGED <<plan, intent, exec, restarts>>

\* A new order, under the current intent or under none.
Enqueue(o) ==
    /\ q[o].state = "absent" /\ \A p \in 1 .. o - 1 : q[p].state # "absent"
    /\ Intent(o) \in {0, intent}
    /\ q' = [q EXCEPT ![o].state = "queued"]
    /\ UNCHANGED <<plan, intent, exec, restarts>>

NeverRan(x) == x.state = "queued" /\ ~x.issued

withdraw_retry(x) == IF x.looks > 0 THEN x ELSE [x EXCEPT !.due = NoTime]

\* request_superseded_workload_cancellation_in_session on one order: a parked
\* transfer is abandoned, what never ran ends, anything else gets its window.
Withdrawn(o, x) ==
    IF Kind(o) = "transfer" /\ x.state \in Parked /\ x.issued
    THEN Settle(o, x, CancelRequested)
    ELSE IF x.orphan THEN x
    ELSE IF NeverRan(x) THEN Settle(o, x, CancelRequested)
    ELSE IF x.state \in RunningOrParked
    THEN [withdraw_retry(x) EXCEPT !.cancel = IF @ = NoTime THEN CANCEL_WINDOW ELSE @]
    ELSE x

NewIntent ==
    /\ intent < MaxIntent
    /\ \A o \in Orders : q[o].state = "absent" => Intent(o) \notin 1 .. intent
    /\ intent' = intent + 1
    /\ q' = [o \in Orders |-> IF SupersededAt(o, intent + 1) /\ q[o].state # "absent"
                              THEN Withdrawn(o, q[o]) ELSE q[o]]
    /\ UNCHANGED <<plan, exec, restarts>>

\* RecipeOperationService.cancel.
RequestCancel(o) ==
    /\ Kind(o) \in {"start", "job"}
    /\ q[o].state \in {"queued"} \cup RunningOrParked
    /\ q[o].cancel = NoTime /\ ~q[o].orphan
    /\ q' = [q EXCEPT ![o] =
           IF NeverRan(@) THEN Settle(o, @, Reported("cancelled", FALSE))
           ELSE [@ EXCEPT !.cancel = CANCEL_WINDOW]]
    /\ UNCHANGED <<plan, intent, exec, restarts>>

\* Another order of the same job failed while this one is parked: the job has
\* failed without it.
SiblingFails(o) ==
    /\ Kind(o) \in {"start", "stop", "transfer"} /\ q[o].state \in Parked /\ ~q[o].orphan
    /\ q' = [q EXCEPT ![o] =
           IF Kind(o) = "transfer" THEN Settle(o, [@ EXCEPT !.orphan = TRUE], CancelRequested)
           ELSE [@ EXCEPT !.orphan = TRUE]]
    /\ UNCHANGED <<plan, intent, exec, restarts>>

AgentRestart ==
    /\ restarts < MaxRestarts /\ exec # {}
    /\ restarts' = restarts + 1 /\ exec' = {}
    /\ UNCHANGED <<plan, q, intent>>

Older(x) ==
    [x EXCEPT !.lease = Elapsed(@), !.budget = Elapsed(@), !.due = Elapsed(@),
              !.recovery = Elapsed(@), !.cancel = Elapsed(@)]

ClockTicks ==
    /\ q' = [o \in Orders |-> Older(q[o])]
    /\ q' # q
    /\ UNCHANGED <<plan, intent, exec, restarts>>

Next ==
    \/ Poll \/ NewIntent \/ AgentRestart \/ ClockTicks
    \/ \E o \in Orders :
          \/ Enqueue(o) \/ Heartbeat(o) \/ ExecutorEnds(o) \/ SweepDead(o)
          \/ PassDecides(o) \/ RequestCancel(o) \/ SiblingFails(o)

Spec == Init /\ [][Next]_vars

\* The agent polls, executors end, the worker sweeps and passes, time goes on.
Worker == \E o \in Orders : SweepDead(o) \/ PassDecides(o)

Fairness ==
    /\ WF_vars(Poll) /\ WF_vars(Worker) /\ WF_vars(ClockTicks)
    /\ WF_vars(\E o \in Orders : ExecutorEnds(o))

FairSpec == Spec /\ Fairness

(***************************************************************************)
(* Properties.                                                             *)
(***************************************************************************)
MayReport(o) ==
    q[o].state = "running" /\ attempt_holds_order(q[o], Superseded(o))

\* A probe reads, and a build works in a tree of its own: it meets its cleanup,
\* a build of the same tree, and the upgrade that replaces the agent.
Exclusive(a, b) ==
    /\ "probe" \notin {Kind(a), Kind(b)}
    /\ \/ "build" \notin {Kind(a), Kind(b)} \/ "upgrade" \in {Kind(a), Kind(b)}
       \/ /\ {Kind(a), Kind(b)} \subseteq {"build", "build-cleanup"}
          /\ plan[a].target = plan[b].target

\* The two overlaps the claim allows: a Stop that cleans up what is cancelled
\* or a job it names, and anything after a Stop that ended the start's run.
Allowed(older, newer) ==
    \/ /\ Kind(newer) = "stop" /\ plan[older].target = plan[newer].target
       /\ \/ Kind(older) = "job"
          \/ Intent(older) < Intent(newer) /\ q[older].cancel # NoTime
    \/ \E p \in Orders : /\ Kind(older) = "start" /\ Kind(p) = "stop"
                         /\ q[p].state = "succeeded" /\ Intent(older) < Intent(p)
                         /\ plan[p].target = plan[older].target

\* "nothing may overlap it": two orders that conflict on their Spark never both
\* have an attempt that can still report its effect, but for those two overlaps
\* (the conflict check of _claim_once).
NoOverlap ==
    \A a, b \in Orders :
        a # b /\ MayReport(a) /\ MayReport(b) /\ Exclusive(a, b)
            => Allowed(a, b) \/ Allowed(b, a)

\* Once a Stop of a run has succeeded, nothing that an older intent asked of
\* the run executes on the Spark any more, now or later: neither the start the
\* Stop was let past while its lease was live, nor a retry of it
\* (stop_cleans_superseded and the agent's one lane).
StoppedStaysStopped ==
    \A o, p \in Orders :
        /\ Kind(p) = "stop" /\ q[p].state = "succeeded"
        /\ Kind(o) \in {"start", "job"} /\ plan[o].target = plan[p].target
        /\ Intent(o) < Intent(p)
        => o \notin exec

\* No queued order waits forever, whatever stands before it in the queue: an
\* order that died running, a cancellation nobody confirms, a retry whose job
\* is over, a build that waits for disk, an install behind its fence (#811).
NoOrderStarves ==
    \A o \in Orders : []<>(q[o].state # "queued")

\* Orders and attempts are well formed, and orders that conflict never overlap
\* on their Spark (_claim_once).
OneAtATime == TypeOK /\ NoOverlap
=============================================================================
