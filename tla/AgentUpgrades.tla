--------------------------- MODULE AgentUpgrades ---------------------------
(***************************************************************************)
(* Fleet upgrades of the Spark agent: rollouts, the order each Spark gets, *)
(* the poll that issues it, the Spark that installs it and the evidence    *)
(* that ends it (agent_upgrades/, lifecycle/agent_upgrade.py,              *)
(* agent_jobs/claim_notes.py, claim.py, claim_authority.py, retry.py and   *)
(* observation_receipts.py).                                               *)
(*                                                                         *)
(* A rollout asks every Spark to run one package.  An order is dispatched  *)
(* at once to a Spark that is online and still runs the rollback source of *)
(* the plan.  The helper installs the candidate, which must be confirmed   *)
(* within its activation window, or the source is restored.                *)
(*                                                                         *)
(* A poll is held open by a handler of the Controller, which repeats what  *)
(* the request said of the Spark until it ends, whatever becomes of it.    *)
(*                                                                         *)
(* The Spark's helper and watchdog are the ones of PackageActivation, here *)
(* reduced to what the Controller can tell apart: armed, acknowledged or   *)
(* rolled back.  Builds are numbers, 0 is what every Spark runs at first.  *)
(* Orders are decided by the shared core (LifecycleCore).  Times count     *)
(* down; NoTime is "not set" and 0 is "passed".                            *)
(***************************************************************************)
EXTENDS LifecycleCore, FiniteSets, Sequences

CONSTANTS
    Sparks,
    Package,     \* Package[r]: the build rollout r asks for
    LEASE,       \* of an attempt
    WINDOW,      \* from a claim to its activation deadline
    FENCE,       \* AGENT_UPGRADE_RECOVERY_FENCE
    RECOVERY,    \* AGENT_ORDER_RECOVERY_BUDGET
    MaxFaults,   \* lost answers, dark or revoked Sparks, bad candidates
    MaxOrphans   \* bound on the handlers without a Spark at one time

Rollouts == DOMAIN Package
Builds == {0} \cup {Package[r] : r \in Rollouts}

ASSUME UpgradeAssumption ==
    /\ IsFiniteSet(Sparks) /\ Sparks # {}
    /\ Rollouts = 1 .. Cardinality(Rollouts) /\ Builds \ {0} \subseteq Nat \ {0}
    /\ {LEASE, WINDOW, FENCE, RECOVERY} \subseteq 1 .. MaxDelay
    /\ WINDOW < FENCE /\ FENCE <= RECOVERY
    /\ {MaxFaults, MaxOrphans} \subseteq Nat

VARIABLES
    roll,        \* the rollouts (jobs of kind agent-upgrade)
    ord,         \* ord[r][n]: the order of rollout r for Spark n
    node,        \* what a Spark runs, and what the Controller knows of it
    poll,        \* the Spark's long poll: none, open, or held over a tick
    orphan,      \* the handler of a long poll whose Spark is gone
    claim,       \* the claim the agent executes or keeps in its journal
    act,         \* the helper's activation transaction and its receipt
    undone,      \* history: the packages the watchdog took back
    faults

vars == <<roll, ord, node, poll, orphan, claim, act, undone, faults>>

RunningOrParked == {"running", "backoff"}

\* by: the rollout that superseded this one, 0 for none.
RollRow == [state : {"absent", "planned", "queued"} \cup Terminal, by : {0} \cup Rollouts,
            source : [Sparks -> Builds], targets : SUBSET Sparks, skipped : SUBSET Sparks]

\* over: how long the lease of a running order has been over, up to the fence.
OrderRow == [state : {"absent", "queued", "running", "backoff"} \cup Terminal,
             issued : BOOLEAN,
             attempt : {"absent", "running", "lapsed", "unknown", "failed", "rolled-back"},
             lease : Timer, over : 0 .. FENCE, due : Timer, recovery : Timer]

\* left: the rest of the activation window.  fresh: the receipt names the
\* order's latest claim (attempt_nonce).
TypeOK ==
    /\ roll \in [Rollouts -> RollRow]
    /\ ord \in [Rollouts -> [Sparks -> OrderRow]]
    /\ node \in [Sparks -> [build : Builds, known : Builds, online : BOOLEAN, active : BOOLEAN]]
    /\ poll \in [Sparks -> {"none", "open", "held"}]
    /\ orphan \in [Sparks -> [at : {"none", "open", "held"}, build : Builds,
                              of : {0} \cup Rollouts, fresh : BOOLEAN,
                              phase : {"none", "acknowledged", "rolled-back"}]]
    /\ claim \in [Sparks -> [of : {0} \cup Rollouts, executing : BOOLEAN, left : Timer]]
    /\ act \in [Sparks -> [of : {0} \cup Rollouts, fresh : BOOLEAN, left : Timer,
                           phase : {"none", "armed", "acknowledged", "rolled-back"}]]
    /\ undone \in [Sparks -> SUBSET Builds]
    /\ faults \in 0 .. MaxFaults

NoOrder == [state |-> "absent", issued |-> FALSE, attempt |-> "absent", lease |-> NoTime,
            over |-> 0, due |-> NoTime, recovery |-> NoTime]
NoHandler == [at |-> "none", build |-> 0, of |-> 0, fresh |-> FALSE, phase |-> "none"]
NoClaim == [of |-> 0, executing |-> FALSE, left |-> NoTime]

Init ==
    /\ roll = [r \in Rollouts |-> [state |-> "absent", by |-> 0, source |-> [n \in Sparks |-> 0],
                                   targets |-> {}, skipped |-> {}]]
    /\ ord = [r \in Rollouts |-> [n \in Sparks |-> NoOrder]]
    /\ node = [n \in Sparks |-> [build |-> 0, known |-> 0, online |-> TRUE, active |-> TRUE]]
    /\ poll = [n \in Sparks |-> "none"] /\ orphan = [n \in Sparks |-> NoHandler]
    /\ claim = [n \in Sparks |-> NoClaim]
    /\ act = [n \in Sparks |-> [of |-> 0, fresh |-> FALSE, left |-> NoTime, phase |-> "none"]]
    /\ undone = [n \in Sparks |-> {}]
    /\ faults = 0

(***************************************************************************)
(* One order, as the core decides it.                                      *)
(***************************************************************************)
adapter == [irreversible |-> FALSE, actions |-> {}, deadline |-> NoTime, delay |-> FENCE]

\* AgentOperationAdapter.lifecycle: an order whose rollout ended is cancelled.
lifecycle(x, ended) ==
    [state |-> x.state, attempt |-> IF x.issued THEN 1 ELSE 0, fence |-> 0,
     lease_deadline |-> IF x.state = "running" /\ x.attempt = "running" THEN x.lease ELSE NoTime,
     next_action_at |-> IF x.state = "running" THEN x.lease ELSE x.due,
     recovery_deadline |-> x.recovery, observe_count |-> 0, cancel_requested |-> ended,
     effect |-> IF ~x.issued THEN "none"
                ELSE IF x.state = "running" THEN "issued" ELSE "unknown"]

AtLeast(t, u) == IF t < u THEN u ELSE t

\* The retried upgrade's attempt keeps its lease until the fence elapses.
_fence_upgrade_attempt(x, not_before) ==
    [x EXCEPT !.attempt = IF @ = "running" THEN "lapsed" ELSE @,
              !.lease = AtLeast(@, not_before)]

\* Nothing but its outcome is read of an order that ended.
apply(x, after) ==
    CASE after.state \in Terminal -> [NoOrder EXCEPT !.state = after.state, !.issued = x.issued]
      [] after.state = "backoff"  ->
             _fence_upgrade_attempt([x EXCEPT !.state = "backoff", !.over = 0,
                                              !.due = after.next_action_at],
                                    after.next_action_at)
      [] after.state = "queued"   -> [x EXCEPT !.due = IF x.issued THEN 0 ELSE NoTime]

Uncertain(e) ==
    \/ e.kind = "lease-lapsed"
    \/ e.kind = "reported" /\ (e.outcome = "unknown" \/ (e.outcome = "failed" /\ e.retryable))

Anchored(x, e) ==
    [x EXCEPT !.recovery = IF @ = NoTime /\ Uncertain(e) THEN RECOVERY ELSE @]

The(S) == CHOOSE v \in S : TRUE

\* The window is a whole budget from now while the Spark is away.
Away(n) == ~node[n].online /\ node[n].active
order_recovery_deadline(x, n) ==
    [x EXCEPT !.recovery = IF @ # NoTime /\ Away(n) THEN RECOVERY ELSE @]

Decided(x, before, d) == IF d.row = before THEN x ELSE apply(x, d.row)

\* AgentOperationAdapter.settle.  A stop is confirmed at once: no attempt of a
\* restart-safe kind is waited for.
Settled(x, e, before) ==
    The({Decided(x, before, d) : d \in {settle(before, e, adapter, "unknown", TRUE)}})

Settle(x, e, ended) == The({Settled(y, e, lifecycle(y, ended)) : y \in {Anchored(x, e)}})

CancelRequested == [kind |-> "cancel-requested"]
LeaseLapsed == [kind |-> "lease-lapsed"]
Tick == [kind |-> "tick"]
Reported(outcome, retryable) ==
    [kind |-> "reported", outcome |-> outcome, fence |-> 0, retryable |-> retryable,
     effect |-> NoEffect]

\* A helper acknowledgement, and a failure, are reopened and wait for the fence.
schedule_agent_upgrade_retry(x, attempt, ended) ==
    Settle([x EXCEPT !.attempt = attempt], Reported("failed", TRUE), ended)

agent_upgrade_in_flight(x) ==
    /\ x.issued
    /\ \/ x.state = "running" /\ (x.lease > 0 \/ x.over < FENCE)
       \/ x.state = "backoff" /\ x.lease > 0 /\ x.attempt \in {"lapsed", "unknown"}

(***************************************************************************)
(* One rollout: dispatch, defer, or conclude.  s holds the rows of the     *)
(* transaction, nd the Sparks as it reads them.                            *)
(***************************************************************************)
RolloutEnded(s, r) == s.roll[r].state \in Terminal

SetOrder(s, r, n, x) == [s EXCEPT !.ord[r][n] = x]

_at_target(nd, r, n) == nd[n].known = Package[r]

Waiting(s, r, n) == s.ord[r][n].state = "queued" /\ ~s.ord[r][n].issued

\* The targets whose dispatch is still open: no order yet, or one never tried.
OpenTargets(s, r) ==
    {n \in s.roll[r].targets \ s.roll[r].skipped :
        s.ord[r][n].state = "absent" \/ Waiting(s, r, n)}

\* Already current, or never able to take the package.
Drifted(s, nd, r) == {n \in OpenTargets(s, r) : _at_target(nd, r, n) \/ ~nd[n].active}

Fresh(s, nd, r) ==
    {n \in OpenTargets(s, r) \ Drifted(s, nd, r) : s.ord[r][n].state = "absent"}

Deferred(s, nd, r) == {n \in Fresh(s, nd, r) : ~nd[n].online}

\* The Sparks whose order is queued: they still run their rollback source.
_enqueue_node(s, nd, r) ==
    {n \in Fresh(s, nd, r) \ Deferred(s, nd, r) : nd[n].known = s.roll[r].source[n]}

NotQueued(s, nd, r) == (Fresh(s, nd, r) \ Deferred(s, nd, r)) \ _enqueue_node(s, nd, r)

_dispatch(s, nd, r) ==
    [s EXCEPT
        !.roll[r].skipped = @ \cup Drifted(s, nd, r) \cup NotQueued(s, nd, r),
        !.ord[r] = [n \in Sparks |->
            IF n \in Drifted(s, nd, r) /\ Waiting(s, r, n)
            THEN Settle(@[n], CancelRequested, FALSE)
            ELSE IF n \in _enqueue_node(s, nd, r) THEN [NoOrder EXCEPT !.state = "queued"]
            ELSE @[n]]]

States(s, r) == {s.ord[r][n].state : n \in Sparks}

Live(s, r) ==
    "queued" \in States(s, r) \/ \E n \in Sparks : agent_upgrade_in_flight(s.ord[r][n])

\* Bug: a parked order does not keep its rollout open.
Bug_Concluded(s, r, deferred) ==
    IF Live(s, r) THEN "queued"
    ELSE IF s.roll[r].by # 0 THEN "cancelled"
    ELSE IF deferred # {} THEN "queued"
    ELSE IF "failed" \in States(s, r) THEN "failed" ELSE "succeeded"

\* What the orders make of their rollout once nothing was dispatched.
Concluded(s, r, deferred) ==
    IF Live(s, r) THEN "queued"
    ELSE IF s.roll[r].by # 0 THEN "cancelled"
    ELSE IF deferred # {} \/ States(s, r) \cap RunningOrParked # {} THEN "queued"
    ELSE IF "failed" \in States(s, r) THEN "failed" ELSE "succeeded"

ConcludedRow(s, r, deferred) == [s EXCEPT !.roll[r].state = Concluded(s, r, deferred)]

Dispatched(s, nd, r) ==
    The({IF _enqueue_node(s, nd, r) # {} THEN t ELSE ConcludedRow(t, r, Deferred(s, nd, r)) :
            t \in {_dispatch(s, nd, r)}})

_advance(s, nd, r) ==
    IF s.roll[r].state # "queued" THEN s
    ELSE IF s.roll[r].by # 0 THEN ConcludedRow(s, r, {})
    ELSE Dispatched(s, nd, r)

\* An order of the rollout is decided, and the rollout follows.
Resolve(s, nd, r, n, x) == The({_advance(t, nd, r) : t \in {SetOrder(s, r, n, x)}})

Commit(s) == roll' = s.roll /\ ord' = s.ord
Rows == [roll |-> roll, ord |-> ord]

\* Op(s, r) changes the rows of rollout r alone; it runs for each r of R.
Gather(s, R, f) ==
    [roll |-> [r \in Rollouts |-> IF r \in R THEN f[r].roll[r] ELSE s.roll[r]],
     ord  |-> [r \in Rollouts |-> IF r \in R THEN f[r].ord[r] ELSE s.ord[r]]]
Each(s, R, Op(_, _)) == The({Gather(s, R, f) : f \in {[r \in R |-> Op(s, r)]}})

ActiveRollouts(s) == {r \in Rollouts : s.roll[r].state = "queued"}

(***************************************************************************)
(* The operator's requests.                                                *)
(***************************************************************************)
\* The plan of a request is read before its transaction: the Sparks that are
\* not there yet, each with the build it is known to run as rollback source.
preview(r) ==
    /\ roll[r].state = "absent" /\ \A p \in 1 .. r - 1 : roll[p].state # "absent"
    /\ roll' = [roll EXCEPT ![r] =
           [state |-> "planned", by |-> 0, source |-> [n \in Sparks |-> node[n].known],
            targets |-> {n \in Sparks : node[n].active /\ ~_at_target(node, r, n)},
            skipped |-> {}]]
    /\ UNCHANGED <<ord, node, poll, orphan, claim, act, undone, faults>>

\* Every other active rollout is superseded; what it has not running is withdrawn.
_supersede_older(s, nd, r) ==
    LET Superseded(t, o) ==
            _advance([t EXCEPT !.roll[o].by = r,
                               !.ord[o] = [n \in Sparks |->
                                   IF @[n].state \in {"queued", "backoff"}
                                   THEN Settle(@[n], CancelRequested, FALSE) ELSE @[n]]], nd, o)
    IN  Each(s, ActiveRollouts(s) \ {r}, Superseded)

Accepted(r) ==
    [Rows EXCEPT !.roll[r].state = IF roll[r].targets = {} THEN "succeeded" ELSE "queued"]

Apply(r) ==
    /\ roll[r].state = "planned"
    /\ Commit(_advance(_supersede_older(Accepted(r), node, r), node, r))
    /\ UNCHANGED <<node, poll, orphan, claim, act, undone, faults>>

\* resume: parked orders get a fresh fence, a rollout without any is advanced.
resume(r) ==
    /\ roll[r].state = "queued"
    /\ Commit(IF "backoff" \in States(Rows, r)
              THEN [Rows EXCEPT !.ord[r] = [n \in Sparks |->
                       IF @[n].state = "backoff"
                       THEN schedule_agent_upgrade_retry(order_recovery_deadline(@[n], n), @[n].attempt, FALSE)
                       ELSE @[n]]]
              ELSE _advance(Rows, node, r))
    /\ faults < MaxFaults /\ faults' = faults + 1
    /\ UNCHANGED <<node, poll, orphan, claim, act, undone>>

Healed ==
    LET Heal(t, r) == _advance(t, node, r) IN Each(Rows, ActiveRollouts(Rows), Heal)
heal_rollouts ==
    /\ Commit(Healed)
    /\ UNCHANGED <<node, poll, orphan, claim, act, undone, faults>>

(***************************************************************************)
(* The Spark's poll.  Its handler first advances the rollouts by what is   *)
(* known of the Spark, then records the contact and tries to claim, again  *)
(* and again until an order is issued or the poll times out: for a Spark   *)
(* that is gone too, with the build and the receipt its request carried.   *)
(***************************************************************************)
\* Bug: any contact proves the install.
Bug__settle_at_target(s, nd, r, n) ==
    IF s.ord[r][n].state = "backoff"
    THEN SetOrder(s, r, n, Settle(s.ord[r][n], Reported("done", FALSE), FALSE)) ELSE s

\* An attempted order whose Spark reports the target build is done.
_settle_at_target(s, nd, r, n) ==
    IF s.ord[r][n].state = "backoff" /\ _at_target(nd, r, n)
    THEN SetOrder(s, r, n, Settle(s.ord[r][n], Reported("done", FALSE), FALSE)) ELSE s

\* _retry_parked finds none: every parked order here has its next action.
advance_node(s, nd, n) ==
    LET Advanced(t, r) == _advance(_settle_at_target(t, nd, r, n), nd, r)
    IN  Each(s, {r \in ActiveRollouts(s) : n \in s.roll[r].targets}, Advanced)

Current(receipt) == receipt.of # 0 /\ receipt.fresh
Receipted(n) == Current(act[n])

\* issue_package_activation_grant: the order still wants the armed candidate.
issue_package_activation_grant(n) ==
    /\ act[n].phase = "armed" /\ Receipted(n) /\ act[n].left > 0
    /\ node[n].active /\ node[n].online
    /\ ord[act[n].of][n].state \in RunningOrParked
    /\ node[n].build = Package[act[n].of]

Idle(n) == poll[n] = "none" /\ ~claim[n].executing

\* acknowledge: before each poll the candidate asks to be confirmed.
Acknowledge(n) ==
    /\ Idle(n) /\ issue_package_activation_grant(n)
    /\ act' = [act EXCEPT ![n].phase = "acknowledged", ![n].left = NoTime]
    /\ UNCHANGED <<roll, ord, node, poll, orphan, claim, undone, faults>>

\* The agent polls after its acknowledgement, or after that failed: refused,
\* not reached (a fault), or nothing to acknowledge.
Poll(n) ==
    /\ node[n].active /\ node[n].online /\ Idle(n)
    /\ IF issue_package_activation_grant(n)
       THEN faults < MaxFaults /\ faults' = faults + 1 ELSE UNCHANGED faults
    /\ poll' = [poll EXCEPT ![n] = "open"]
    /\ Commit(advance_node(Rows, node, n))
    /\ UNCHANGED <<node, orphan, claim, act, undone>>

\* _record_contact: from here on nd[n].known is the build of the request.
_record_contact(n, build) == [node EXCEPT ![n].known = build]

\* The same terminal receipt is reported until the next install.
Renoted(x) == x.state = "backoff" /\ x.attempt = "rolled-back"

\* _reconcile_agent_upgrade: the receipt the poll carries, for the order whose
\* latest claim it names.
Noted(nd, n, phase, r, x) ==
    \/ phase = "rolled-back" /\ nd[n].known = roll[r].source[n] /\ ~Renoted(x)
    \/ phase = "acknowledged" /\ _at_target(nd, r, n)

Reconciled(s, phase, r, x) ==
    IF phase = "rolled-back" THEN schedule_agent_upgrade_retry(x, "rolled-back", RolloutEnded(s, r))
    ELSE Settle(x, Reported("done", FALSE), FALSE)

_reconcile_agent_upgrade(s, nd, n, receipt) ==
    IF /\ Current(receipt) /\ s.ord[receipt.of][n].state \in {"queued"} \cup RunningOrParked
       /\ Noted(nd, n, receipt.phase, receipt.of, s.ord[receipt.of][n])
    THEN Resolve(s, nd, receipt.of, n,
                 Reconciled(s, receipt.phase, receipt.of, s.ord[receipt.of][n])) ELSE s

_claim_predicate(x) ==
    \/ x.state = "queued"
    \/ x.state \in RunningOrParked /\ x.lease <= 0

IsHead(s, n, h) ==
    /\ _claim_predicate(s.ord[h][n])
    /\ \A r \in 1 .. h - 1 : ~_claim_predicate(s.ord[r][n])

Running(s, n, h) == {r \in Rollouts \ {h} : s.ord[r][n].state = "running"}

\* Orders in the way are waited for, or decided when their lease is over.
Lapsed(s, n, R) == [r \in {o \in R : s.ord[o][n].lease <= 0} |-> LeaseLapsed]

agent_upgrade_in_flight_on_spark(s, n, h) ==
    \E r \in Rollouts \ {h} : agent_upgrade_in_flight(s.ord[r][n])

\* Bug: the order is only refused, and stays the head of its queue.
Bug_SettledBySource(nd, n, h, x) == [r \in {} |-> Tick]

\* Never installed over another build than the rollback source.
SettledBySource(nd, n, h, x) ==
    [r \in {h} |-> IF ~_at_target(nd, h, n) THEN Reported("failed", FALSE)
                   ELSE IF x.issued THEN Reported("done", FALSE) ELSE CancelRequested]

NewAttempt(x) ==
    [x EXCEPT !.state = "running", !.issued = TRUE, !.attempt = "running",
              !.lease = LEASE, !.over = 0, !.due = NoTime]

ReportsSource(nd, n, h) == nd[n].known = roll[h].source[n]

Issuable(s, nd, n, h) ==
    /\ _claim_predicate(s.ord[h][n]) /\ ~RolloutEnded(s, h)
    /\ Running(s, n, h) = {} /\ s.ord[h][n].state # "running"
    /\ ~agent_upgrade_in_flight_on_spark(s, n, h) /\ ReportsSource(nd, n, h)
    /\ s.ord[h][n].recovery # 0

\* The orders the poll decides when it does not issue its head, with the event.
Refusals(s, nd, n, h) ==
    IF ~_claim_predicate(s.ord[h][n]) \/ RolloutEnded(s, h) THEN Lapsed(s, n, {})
    ELSE IF Running(s, n, h) # {} THEN Lapsed(s, n, Running(s, n, h))
    ELSE IF s.ord[h][n].state = "running" THEN Lapsed(s, n, {h})
    ELSE IF agent_upgrade_in_flight_on_spark(s, n, h) THEN Lapsed(s, n, {})
    ELSE IF ~ReportsSource(nd, n, h) THEN SettledBySource(nd, n, h, s.ord[h][n])
    ELSE [r \in {h} |-> Tick]

Refused(s, nd, n, events) ==
    LET Decide(t, r) ==
            Resolve(t, nd, r, n, Settle(t.ord[r][n], events[r], RolloutEnded(t, r)))
    IN  Each(s, DOMAIN events, Decide)

\* issued: the rollout whose order is issued, 0 when there is none.
ClaimOf(s, nd, n, h) ==
    IF h # 0 /\ Issuable(s, nd, n, h)
    THEN [rows |-> SetOrder(s, h, n, NewAttempt(s.ord[h][n])), issued |-> h]
    ELSE [rows |-> The({Refused(s, nd, n, events) :
                          events \in {IF h = 0 THEN Lapsed(s, n, {}) ELSE Refusals(s, nd, n, h)}}),
          issued |-> 0]

_first_claimable_id(s, n) ==
    IF \E h \in Rollouts : IsHead(s, n, h) THEN CHOOSE h \in Rollouts : IsHead(s, n, h) ELSE 0

\* _claim_once of a request with this build and receipt.  The head is picked
\* before the receipt is reconciled and the contact recorded, and decided after.
_claim_once(n, nd, receipt) ==
    The({ClaimOf(s, nd, n, h) : s \in {_reconcile_agent_upgrade(Rows, nd, n, receipt)},
                                h \in {_first_claimable_id(Rows, n)}})

\* A receipt names the latest claim of its order until the order is issued again.
Outdated(receipt, issued) ==
    [receipt EXCEPT !.fresh = @ /\ receipt.of # issued]

Answered(n, issued) ==
    \/ /\ claim' = [claim EXCEPT ![n] = [of |-> issued, executing |-> TRUE, left |-> WINDOW]]
       /\ UNCHANGED faults
    \/ UNCHANGED claim /\ faults < MaxFaults /\ faults' = faults + 1

ClaimIssues(n, issued) ==
    /\ issued # 0
    /\ act' = [act EXCEPT ![n] = Outdated(@, issued)]
    /\ orphan' = [orphan EXCEPT ![n] = Outdated(@, issued)]
    /\ poll' = [poll EXCEPT ![n] = "none"] /\ Answered(n, issued)
    /\ UNCHANGED undone

\* A claim that issues nothing, the last of its poll or not.
ClaimWaits(n, issued) ==
    /\ issued = 0
    /\ \E after \in {"none", poll[n]} : poll' = [poll EXCEPT ![n] = after]
    /\ UNCHANGED <<orphan, claim, act, undone, faults>>

Claim(n) ==
    /\ poll[n] # "none" /\ node[n].active
    /\ node' = _record_contact(n, node[n].build)
    /\ \E c \in {_claim_once(n, node', act[n])} :
          Commit(c.rows) /\ (ClaimIssues(n, c.issued) \/ ClaimWaits(n, c.issued))

\* The handler of a Spark that is gone: what it issues reaches nobody.  A Spark
\* has at most one, the latest.
Orphans(m) == {n \in Sparks \ {m} : orphan[n].at # "none"}
Orphaned(n) ==
    IF poll[n] = "none" \/ Cardinality(Orphans(n)) >= MaxOrphans THEN orphan
    ELSE [orphan EXCEPT ![n] =
             IF act[n].phase \in {"acknowledged", "rolled-back"} /\ Receipted(n)
             THEN [at |-> poll[n], build |-> node[n].build, of |-> act[n].of, fresh |-> TRUE,
                   phase |-> act[n].phase]
             ELSE [NoHandler EXCEPT !.at = poll[n], !.build = node[n].build]]

OrphanClaims(n) ==
    /\ orphan[n].at # "none" /\ node[n].active
    /\ node' = _record_contact(n, orphan[n].build)
    /\ \E c \in {_claim_once(n, node', orphan[n])} :
          /\ Commit(c.rows)
          /\ act' = [act EXCEPT ![n] = Outdated(@, c.issued)]
          /\ orphan' = IF c.issued = 0 THEN orphan ELSE [orphan EXCEPT ![n] = NoHandler]
    /\ UNCHANGED <<poll, claim, undone, faults>>

OrphanEnds(n) ==
    /\ orphan[n].at # "none" /\ orphan' = [orphan EXCEPT ![n] = NoHandler]
    /\ UNCHANGED <<roll, ord, node, poll, claim, act, undone, faults>>

(***************************************************************************)
(* The Spark: executor, helper, watchdog, and the report of the claim.     *)
(***************************************************************************)
\* _active: the call is of an active Spark, about the live attempt of an order
\* whose rollout has not ended.
HoldsAttempt(r, n) ==
    /\ node[n].active /\ ~RolloutEnded(Rows, r)
    /\ ord[r][n].state = "running" /\ ord[r][n].lease > 0

Heartbeat(n) ==
    /\ claim[n].executing /\ node[n].online /\ HoldsAttempt(claim[n].of, n)
    /\ ord' = [ord EXCEPT ![claim[n].of][n].lease = LEASE]
    /\ UNCHANGED <<roll, node, poll, orphan, claim, act, undone, faults>>

\* The install grant of a live attempt; the helper takes it when no other
\* transaction is armed and the installed package is the rollback source.
issue_agent_upgrade_grant(n) ==
    /\ node[n].online /\ claim[n].left > 0
    /\ ord[claim[n].of][n].state = "running" /\ ord[claim[n].of][n].lease > 0

RunsSource(n, r) == node[n].build = roll[r].source[n]

Installable(n) ==
    issue_agent_upgrade_grant(n) /\ act[n].phase # "armed" /\ RunsSource(n, claim[n].of)

HandOff(n) ==
    /\ claim[n].executing /\ Installable(n)
    /\ node' = [node EXCEPT ![n].build = Package[claim[n].of]]
    /\ act' = [act EXCEPT ![n] = [of |-> claim[n].of, fresh |-> TRUE, phase |-> "armed",
                                  left |-> claim[n].left]]
    /\ claim' = [claim EXCEPT ![n].executing = FALSE]
    /\ UNCHANGED <<roll, ord, poll, orphan, undone, faults>>

\* The watchdog restores the source: at the deadline, or for a bad candidate.
\* The agent that polled is stopped, its handler goes on.
RollBack(n) ==
    /\ act[n].phase = "armed"
    /\ IF act[n].left = 0 THEN UNCHANGED faults ELSE faults < MaxFaults /\ faults' = faults + 1
    /\ act' = [act EXCEPT ![n].phase = "rolled-back", ![n].left = NoTime]
    /\ node' = [node EXCEPT ![n].build = roll[act[n].of].source[n]]
    /\ undone' = [undone EXCEPT ![n] = @ \cup {Package[act[n].of]}]
    /\ poll' = [poll EXCEPT ![n] = "none"] /\ orphan' = Orphaned(n)
    /\ claim' = [claim EXCEPT ![n].executing = FALSE]
    /\ UNCHANGED <<roll, ord>>

\* _contact_proves_target: the acknowledged receipt of the latest claim, from a
\* Spark last seen running the target.
_contact_proves_target(n, r) ==
    /\ act[n].of = r /\ Receipted(n) /\ act[n].phase = "acknowledged"
    /\ node[n].active /\ _at_target(node, r, n)

\* Only a proven target ends the order; everything else is retried.
consume_agent_result(x, n, r, outcome) ==
    IF outcome = "succeeded" /\ _contact_proves_target(n, r)
    THEN Settle(x, Reported("done", FALSE), FALSE)
    ELSE IF ~node[n].active THEN Settle(x, Reported("failed", FALSE), FALSE)
    ELSE schedule_agent_upgrade_retry(x, IF outcome = "succeeded" THEN "unknown"
                                         ELSE outcome, FALSE)

\* _upgrade_receipt_current: the late evidence that still decides its order.
_upgrade_receipt_current(n, r, outcome) ==
    \/ outcome = "succeeded" /\ _contact_proves_target(n, r)
    \/ /\ outcome = "rolled-back" /\ act[n].of = r /\ Receipted(n)
       /\ node[n].known = roll[r].source[n]

adopt_observation_receipt(x, n, r, outcome) ==
    /\ x.state \in RunningOrParked /\ x.attempt \in {"running", "lapsed", "unknown"}
    /\ node[n].active /\ ~RolloutEnded(Rows, r) /\ _upgrade_receipt_current(n, r, outcome)

\* A result that arrives in time, one that is adopted late, one only stored.
Decisive(n, r, outcome) ==
    HoldsAttempt(r, n) \/ adopt_observation_receipt(ord[r][n], n, r, outcome)

RecordResult(n, r, outcome) ==
    Commit(IF Decisive(n, r, outcome) \/ ord[r][n].state = "running"
           THEN Resolve(Rows, node, r, n,
                        IF Decisive(n, r, outcome) THEN consume_agent_result(ord[r][n], n, r, outcome)
                        ELSE Settle(ord[r][n], LeaseLapsed, RolloutEnded(Rows, r)))
           ELSE Rows)

\* observe_upgrade: what the restarted agent makes of the helper's receipt.
Observed_upgrade(n) ==
    IF Receipted(n) /\ act[n].of = claim[n].of /\ act[n].phase = "acknowledged"
         /\ node[n].build = Package[claim[n].of] THEN "succeeded"
    ELSE IF Receipted(n) /\ act[n].of = claim[n].of /\ act[n].phase = "rolled-back"
              /\ node[n].build = roll[claim[n].of].source[n] THEN "rolled-back"
    ELSE IF claim[n].left <= 0 THEN "unknown" ELSE "none"

Observable(n) ==
    /\ claim[n].of # 0 /\ ~claim[n].executing /\ node[n].online /\ node[n].active
    /\ Observed_upgrade(n) # "none"

ReportObservation(n) ==
    /\ Observable(n)
    /\ RecordResult(n, claim[n].of, Observed_upgrade(n))
    /\ claim' = [claim EXCEPT ![n] = NoClaim]
    /\ UNCHANGED <<node, poll, orphan, act, undone, faults>>

\* The executor ends without a hand-off: refused, or a fault of its own.
ExecutorFails(n) ==
    /\ claim[n].executing /\ node[n].online /\ node[n].active
    /\ IF Installable(n) THEN faults < MaxFaults /\ faults' = faults + 1 ELSE UNCHANGED faults
    /\ \E outcome \in {"failed", "unknown"} : RecordResult(n, claim[n].of, outcome)
    /\ claim' = [claim EXCEPT ![n] = NoClaim]
    /\ UNCHANGED <<node, poll, orphan, act, undone>>

\* A Spark goes dark, its agent restarted or not, and comes back.
GoesDark(n) ==
    /\ node[n].online /\ faults < MaxFaults /\ faults' = faults + 1
    /\ node' = [node EXCEPT ![n].online = FALSE]
    /\ poll' = [poll EXCEPT ![n] = "none"] /\ orphan' = Orphaned(n)
    /\ \E running \in {claim[n].executing, FALSE} : claim' = [claim EXCEPT ![n].executing = running]
    /\ UNCHANGED <<roll, ord, act, undone>>

Returns(n) ==
    /\ ~node[n].online
    /\ node' = [node EXCEPT ![n].online = TRUE]
    /\ UNCHANGED <<roll, ord, poll, orphan, claim, act, undone, faults>>

\* A revoked Spark never returns: the window runs from there.
Revoked(n) ==
    /\ node[n].active /\ faults < MaxFaults /\ faults' = faults + 1
    /\ node' = [node EXCEPT ![n].active = FALSE]
    /\ poll' = [poll EXCEPT ![n] = "none"] /\ orphan' = [orphan EXCEPT ![n] = NoHandler]
    /\ ord' = [r \in Rollouts |-> [ord[r] EXCEPT ![n].recovery = IF @ # NoTime THEN RECOVERY ELSE @]]
    /\ UNCHANGED <<roll, claim, act, undone>>

(***************************************************************************)
(* The worker's sweep and pass, and the clock.                             *)
(***************************************************************************)
Swept(r, n) ==
    Resolve(Rows, node, r, n,
            Settle(order_recovery_deadline(ord[r][n], n), LeaseLapsed, RolloutEnded(Rows, r)))
SweepDead(r, n) ==
    /\ ord[r][n].state = "running" /\ ord[r][n].lease <= 0
    /\ Commit(Swept(r, n))
    /\ UNCHANGED <<node, poll, orphan, claim, act, undone, faults>>

\* A deadline that moves with every read is never decided by a pass (same_order).
Passed(r, n) == Resolve(Rows, node, r, n, Settle(ord[r][n], Tick, RolloutEnded(Rows, r)))
PassDecides(r, n) ==
    /\ ord[r][n].state = "backoff" /\ ord[r][n].due = 0 /\ ~Away(n)
    /\ Commit(Passed(r, n))
    /\ UNCHANGED <<node, poll, orphan, claim, act, undone, faults>>

Older(x) ==
    [x EXCEPT !.lease = Elapsed(@), !.due = Elapsed(@), !.recovery = Elapsed(@),
              !.over = IF x.state = "running" /\ x.lease = 0 /\ @ < FENCE THEN @ + 1 ELSE @]

\* The watchdog is prompt, and a long poll is answered within a tick.
Prompt ==
    \A n \in Sparks : poll[n] # "held" /\ orphan[n].at # "held" /\ ~(act[n].phase = "armed" /\ act[n].left = 0)

ClockTicks ==
    /\ Prompt
    /\ ord' = [r \in Rollouts |-> [n \in Sparks |-> Older(ord[r][n])]]
    /\ claim' = [n \in Sparks |-> [claim[n] EXCEPT !.left = Elapsed(@)]]
    /\ act' = [n \in Sparks |-> [act[n] EXCEPT !.left = Elapsed(@)]]
    /\ poll' = [n \in Sparks |-> IF poll[n] = "open" THEN "held" ELSE poll[n]]
    /\ orphan' = [n \in Sparks |->
                    [orphan[n] EXCEPT !.at = IF @ = "open" THEN "held" ELSE @]]
    /\ <<ord, claim, act>>' # <<ord, claim, act>>
    /\ UNCHANGED <<roll, node, undone, faults>>

SparkStep(n) ==
    \/ Acknowledge(n) \/ Poll(n) \/ Claim(n)
    \/ OrphanClaims(n) \/ OrphanEnds(n)
    \/ Heartbeat(n) \/ HandOff(n) \/ RollBack(n)
    \/ ReportObservation(n) \/ ExecutorFails(n) \/ GoesDark(n) \/ Returns(n) \/ Revoked(n)

Next ==
    \/ ClockTicks \/ heal_rollouts
    \/ \E r \in Rollouts : preview(r) \/ Apply(r) \/ resume(r)
    \/ \E n \in Sparks : SparkStep(n) \/ \E r \in Rollouts : SweepDead(r, n) \/ PassDecides(r, n)

Spec == Init /\ [][Next]_vars

(***************************************************************************)
(* Sparks poll, come back, execute and observe; a poll is answered; the    *)
(* worker sweeps, passes and heals; a planned request is applied.  This is *)
(* weak fairness, with the condition that enables the action written out,  *)
(* its faults apart.                                                       *)
(***************************************************************************)
SparkWorks(n) ==
    \/ Acknowledge(n) \/ HandOff(n) \/ RollBack(n) \/ ReportObservation(n) \/ ExecutorFails(n)
CanWork(n) ==
    \/ Idle(n) /\ issue_package_activation_grant(n)
    \/ act[n].phase = "armed" /\ act[n].left = 0
    \/ Observable(n)
    \/ claim[n].executing /\ node[n].online /\ (node[n].active \/ Installable(n))

PollEnds(n) == Claim(n) /\ poll'[n] = "none"
CanPoll(n) ==
    /\ node[n].active
    /\ \/ poll[n] # "none"
       \/ node[n].online /\ Idle(n) /\ ~issue_package_activation_grant(n)

Decides(r, n) == SweepDead(r, n) \/ PassDecides(r, n)
CanDecide(r, n) ==
    \/ ord[r][n].state = "running" /\ ord[r][n].lease <= 0 /\ Swept(r, n) # Rows
    \/ /\ ord[r][n].state = "backoff" /\ ord[r][n].due = 0 /\ ~Away(n)
       /\ Passed(r, n) # Rows

Fairness ==
    /\ WF_vars(ClockTicks)
    /\ []<>(\A r \in Rollouts : roll[r].state # "planned")
           \/ []<><<\E r \in Rollouts : Apply(r)>>_vars
    /\ []<>(Healed = Rows) \/ []<><<heal_rollouts>>_vars
    /\ []<>(\A r \in Rollouts, n \in Sparks : ~CanDecide(r, n))
           \/ []<><<\E r \in Rollouts, n \in Sparks : Decides(r, n)>>_vars
    /\ \A n \in Sparks :
          /\ []<>(~CanPoll(n)) \/ []<><<Poll(n) \/ PollEnds(n)>>_vars
          /\ []<>(~CanWork(n)) \/ []<><<SparkWorks(n)>>_vars
          /\ WF_vars(OrphanEnds(n)) /\ WF_vars(Returns(n))

FairSpec == Spec /\ Fairness

(***************************************************************************)
(* Properties.                                                             *)
(***************************************************************************)
CountedDone(r, n) == ord'[r][n].state = "succeeded" /\ ord[r][n].state # "succeeded"

\* "A successful contact alone does not cancel the watchdog or advance the
\* canary.  The acknowledged root receipt is the final activation gate": an order
\* is counted done only while its Spark runs the package it asks for, which an
\* acknowledged candidate does and one that was merely heard of may not
\* (_settle_at_target, docs/spark-package-upgrade-recovery.md).
DoneRunsTarget ==
    [][\A r \in Rollouts, n \in Sparks :
          CountedDone(r, n) => node'[n].build = Package[r]]_vars

\* An order is counted done only while its Spark runs the package, unless the
\* watchdog has taken that very package back from it: no other report, receipt or
\* contact, in whatever order they arrive, from the Spark or from the handler of
\* a poll it has left, ends an order whose package does not run
\* (_contact_proves_target, _settle_at_target, the claim).
DoneRunsOrUndone ==
    [][\A r \in Rollouts, n \in Sparks :
          CountedDone(r, n) => node'[n].build = Package[r] \/ Package[r] \in undone[n]]_vars

\* A rollout that succeeded left no Spark behind: every target has an order
\* that is over and did not fail, or was skipped; and one that failed has
\* nothing running or waiting for a retry (_advance).
EndedRolloutIsSettled ==
    TypeOK /\
    \A r \in Rollouts : roll[r].state \in {"succeeded", "failed"} =>
        \A n \in roll[r].targets :
            /\ ord[r][n].state \in Terminal \cup {"absent"}
            /\ ord[r][n].state = "absent" => n \in roll[r].skipped
            /\ roll[r].state = "succeeded" => ord[r][n].state # "failed"

\* Every accepted rollout ends: it does not stay queued, and leaves the queue
\* only for an outcome.
RolloutConcludes ==
    /\ \A r \in Rollouts : []<>(roll[r].state # "queued")
    /\ [][\A r \in Rollouts :
             roll[r].state = "queued" => roll'[r].state \in {"queued"} \cup Terminal]_vars
=============================================================================
