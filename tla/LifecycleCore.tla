--------------------------- MODULE LifecycleCore ---------------------------
(***************************************************************************)
(* The one transition function of the shared lifecycle core                *)
(* (control/src/vonk_control/lifecycle/core.py) as operators on a row.     *)
(*                                                                         *)
(* Instants are kept as countdowns: a timer is the number of clock steps   *)
(* until the instant, 0 once it has passed and NoTime where the code has   *)
(* None.  "x is None or x <= now" is then x <= 0.  The bounded backoff     *)
(* with its jitter, the kind's retry fence and a Retry-After only choose a *)
(* delay, so the delay is an input (a.delay).  retry_count, reason and the *)
(* request key change nothing but that delay and texts: they are left out. *)
(*                                                                         *)
(* A definition named Bug_X is a plausible slip in the definition X that   *)
(* follows it; the model checker must notice it.  No specification uses it.*)
(***************************************************************************)
EXTENDS Integers

CONSTANTS
    OBSERVE_BUDGET,          \* looks at the backoff rate before a row is lost
    LOST_OBSERVATION_BOUND,  \* unknown looks past the deadline that end it
    STOP_BUDGET,             \* stops of a cancelled row before it gives up
    MaxDelay                 \* longest delay, lease or deadline in clock steps

ASSUME BudgetsAssumption ==
    /\ OBSERVE_BUDGET \in Nat \ {0}
    /\ LOST_OBSERVATION_BOUND \in Nat \ {0}
    /\ STOP_BUDGET \in Nat \ {0}
    /\ MaxDelay \in Nat \ {0}

NoTime == -1
Timer == NoTime .. MaxDelay

\* The clock moves on by one step.
Elapsed(t) == IF t > 0 THEN t - 1 ELSE t

Terminal == {"succeeded", "failed", "cancelled"}
State == {"queued", "running", "backoff", "observing", "needs-operator"}
             \cup Terminal
Effect == {"none", "issued", "established", "stopped", "unknown"}
Command == {"none", "observe", "stop", "execute", "residue"}
NoEffect == "unsaid"         \* a report that claims nothing about the effect

Row == [state : State, attempt : Nat, fence : Nat, lease_deadline : Timer,
        next_action_at : Timer, recovery_deadline : Timer,
        observe_count : Nat, cancel_requested : BOOLEAN, effect : Effect]

\* What the core asks of a kind: can a repeat be seen, which operator actions
\* does the row advertise, the optional request-owned deadline, the next delay.
Adapter == [irreversible : BOOLEAN, actions : SUBSET {"resume", "retire", "stop"},
            deadline : Timer, delay : 1 .. MaxDelay]

Decision(r, c) == [row |-> r, command |-> c]

(***************************************************************************)
(* Predicates.                                                             *)
(***************************************************************************)

_stale(r, e) ==
    /\ e.kind \in {"reported", "heartbeat"}
    /\ e.fence # 0
    /\ r.fence # 0
    /\ e.fence # r.fence

Dropped(r, e) == r.state \in Terminal \/ _stale(r, e)

never_executed(r) == r.attempt = 0 \/ r.effect = "none"

\* Bug: an effect nobody saw is taken for one that never was.
Bug_SafeAfter(r, a, effect) == r.attempt = 0 \/ effect # "established"

SafeAfter(r, a, effect) == r.attempt = 0 \/ effect = "none" \/ ~a.irreversible

blind_retry_is_safe(r, a) == SafeAfter(r, a, r.effect)

Deadline(r, a) ==
    IF r.recovery_deadline # NoTime THEN r.recovery_deadline ELSE a.deadline

(***************************************************************************)
(* Builders.                                                               *)
(***************************************************************************)

Capped(t, deadline) == IF deadline # NoTime /\ deadline < t THEN deadline ELSE t

\* Bug: ending a row rebuilds it without its cancel request.
Bug_Ended(r, state, effect) ==
    [r EXCEPT !.state = state, !.effect = effect, !.cancel_requested = FALSE,
              !.next_action_at = NoTime, !.lease_deadline = NoTime]

Ended(r, state, effect) ==
    [r EXCEPT !.state = state, !.effect = effect,
              !.next_action_at = NoTime, !.lease_deadline = NoTime]

_retry(r, a, effect) ==
    Decision([r EXCEPT !.state = "backoff", !.observe_count = 0,
                       !.next_action_at = Capped(a.delay, Deadline(r, a)),
                       !.lease_deadline = NoTime, !.effect = effect], "none")

Look(r) == IF r.observe_count < OBSERVE_BUDGET
           THEN r.observe_count + 1 ELSE r.observe_count

_observe(r, a) ==
    Decision([r EXCEPT !.state = "observing", !.observe_count = Look(r),
                       !.next_action_at = Capped(a.delay, r.recovery_deadline),
                       !.lease_deadline = NoTime,
                       !.effect = IF @ = "none" THEN "unknown" ELSE @], "observe")

_uncertain(r, a, claimed) ==
    LET effect == IF claimed = NoEffect THEN r.effect ELSE claimed IN
    IF r.recovery_deadline # 0 /\ SafeAfter(r, a, effect)
    THEN _retry(r, a, effect)
    ELSE _observe(r, a)

\* Bug: a look past the deadline is not counted.
Bug__lost(r, a, command, observed) ==
    Decision([r EXCEPT !.state = "observing", !.observe_count = OBSERVE_BUDGET,
                       !.next_action_at = a.delay,
                       !.lease_deadline = NoTime, !.effect = "unknown"], command)

\* looked: the unknown looks past the row's own deadline, this one included.
_lost(r, a, command, observed) ==
    LET before == IF r.observe_count > OBSERVE_BUDGET
                  THEN r.observe_count - OBSERVE_BUDGET ELSE 0
        looked == IF observed THEN before + 1 ELSE before
        counted == [r EXCEPT !.observe_count = OBSERVE_BUDGET + looked]
    IN  IF looked >= LOST_OBSERVATION_BOUND
        THEN Decision(Ended(counted, "failed", "unknown"), "residue")
        ELSE Decision([counted EXCEPT !.state = "observing",
                           !.next_action_at = a.delay,
                           !.lease_deadline = NoTime, !.effect = "unknown"], command)

_unknown_after_observation(r, a, command) ==
    IF blind_retry_is_safe(r, a) THEN _retry(r, a, r.effect)
    ELSE IF r.observe_count >= OBSERVE_BUDGET THEN _lost(r, a, command, FALSE)
    ELSE Decision([r EXCEPT !.state = "observing",
                       !.next_action_at = Capped(a.delay, r.recovery_deadline)], "none")

(***************************************************************************)
(* Cancel (rule 4).  observed is NoEffect when nothing was just proved.    *)
(***************************************************************************)

_advance_cancel(r, a, observed, issue_stop) ==
    IF observed \in {"stopped", "none"} \/ (observed = NoEffect /\ never_executed(r))
    THEN Decision(Ended(r, "cancelled",
                        IF observed = NoEffect THEN "none" ELSE observed), "none")
    ELSE IF r.observe_count >= STOP_BUDGET
    THEN Decision(Ended(r, "cancelled", "unknown"), "residue")
    ELSE Decision([r EXCEPT !.state = "observing",
                       !.observe_count = IF issue_stop THEN @ + 1 ELSE @,
                       !.next_action_at = Capped(a.delay, r.recovery_deadline),
                       !.lease_deadline = NoTime,
                       !.effect = IF observed = NoEffect THEN "unknown" ELSE observed],
                  IF issue_stop THEN "stop" ELSE "none")

_cancel(r, a) ==
    IF r.cancel_requested /\ r.state = "observing"
    THEN Decision(r, "none")
    ELSE _advance_cancel([r EXCEPT !.cancel_requested = TRUE], a, NoEffect, TRUE)

(***************************************************************************)
(* Events.                                                                 *)
(***************************************************************************)

_claimed(r, e) ==
    IF \/ ~(r.state = "queued" \/ (r.state = "backoff" /\ r.next_action_at <= 0))
       \/ r.cancel_requested
       \/ e.attempt <= r.attempt
    THEN Decision(r, "none")
    ELSE Decision([r EXCEPT !.state = "running", !.attempt = e.attempt,
                       !.fence = e.fence, !.lease_deadline = e.lease_deadline,
                       !.next_action_at = e.lease_deadline,
                       !.effect = "issued", !.observe_count = 0], "none")

_heartbeat(r, e) ==
    IF r.state # "running"
         \/ (r.lease_deadline # NoTime /\ e.lease_deadline <= r.lease_deadline)
    THEN Decision(r, "none")
    ELSE Decision([r EXCEPT !.lease_deadline = e.lease_deadline,
                            !.next_action_at = e.lease_deadline], "none")

_end(r, state, claimed, default) ==
    Decision(Ended(r, state, IF claimed = NoEffect THEN default ELSE claimed), "none")

\* Bug: what is not a failure is a success.
Bug__reported(r, e, a) ==
    IF e.outcome = "failed" /\ e.retryable THEN _uncertain(r, a, e.effect)
    ELSE _end(r, IF e.outcome \in {"failed", "cancelled"} THEN e.outcome ELSE "succeeded",
              e.effect, "established")

_reported(r, e, a) ==
    IF e.outcome = "done" THEN _end(r, "succeeded", e.effect, "established")
    ELSE IF e.outcome = "cancelled" THEN _end(r, "cancelled", e.effect, "stopped")
    ELSE IF e.outcome = "failed" /\ ~e.retryable
    THEN _end(r, "failed", e.effect, r.effect)
    ELSE IF r.cancel_requested
    THEN _advance_cancel(r, a,
             IF e.effect \in {"stopped", "none"} THEN e.effect ELSE NoEffect,
             r.state # "observing")
    ELSE _uncertain(r, a, e.effect)

_lapsed(r, a) ==
    IF r.state # "running" THEN Decision(r, "none")
    ELSE IF r.cancel_requested THEN _advance_cancel(r, a, NoEffect, TRUE)
    ELSE _uncertain(r, a, NoEffect)

_observed(r, e, a) ==
    IF r.cancel_requested THEN _advance_cancel(r, a, e.effect, FALSE)
    ELSE IF r.state \notin {"observing", "needs-operator"} THEN Decision(r, "none")
    ELSE IF Deadline(r, a) = 0 /\ e.effect # "established"
    THEN IF e.effect = "unknown" /\ ~blind_retry_is_safe(r, a)
         THEN _lost(r, a, "none", TRUE)
         ELSE Decision(Ended(r, "failed", e.effect),
                       IF e.effect = "unknown" THEN "residue" ELSE "none")
    ELSE IF e.effect = "established"
    THEN Decision([r EXCEPT !.state = "succeeded", !.effect = "established",
                            !.next_action_at = NoTime], "none")
    ELSE IF e.effect = "stopped" /\ ~blind_retry_is_safe(r, a)
    THEN Decision(Ended(r, "failed", "stopped"), "none")
    ELSE IF e.effect \in {"none", "stopped"} THEN _retry(r, a, "none")
    ELSE _unknown_after_observation(r, a, "none")

_operator(r, e, a) ==
    IF e.name \notin a.actions THEN Decision(r, "none")
    ELSE IF e.name = "stop"
    THEN IF r.cancel_requested THEN Decision(r, "none")
         ELSE _advance_cancel([r EXCEPT !.cancel_requested = TRUE], a, NoEffect, TRUE)
    ELSE IF r.state \notin {"needs-operator", "observing"} THEN Decision(r, "none")
    ELSE IF e.name = "resume"
    THEN Decision([r EXCEPT !.state = "queued", !.observe_count = 0,
                            !.next_action_at = NoTime], "none")
    ELSE Decision([r EXCEPT !.state = "failed", !.effect = "unknown",
                            !.next_action_at = NoTime], "none")

_reevaluate_parked(r, a) ==
    IF r.effect = "established"
    THEN _observed([r EXCEPT !.state = "observing"],
                   [kind |-> "observed", effect |-> "established"], a)
    ELSE IF r.effect = "stopped" /\ ~a.irreversible THEN _retry(r, a, "none")
    ELSE IF blind_retry_is_safe(r, a) THEN _retry(r, a, r.effect)
    ELSE IF r.observe_count >= OBSERVE_BUDGET THEN _lost(r, a, "observe", FALSE)
    ELSE _observe(r, a)

_tick(r, a) ==
    IF r.next_action_at > 0 THEN Decision(r, "none")
    ELSE IF r.cancel_requested THEN _advance_cancel(r, a, NoEffect, TRUE)
    ELSE IF r.recovery_deadline = 0 /\ r.state # "running" THEN _observe(r, a)
    ELSE IF r.state \in {"queued", "backoff"}
    THEN Decision([r EXCEPT !.state = "queued", !.next_action_at = NoTime], "execute")
    ELSE IF r.state = "running"
    THEN IF r.lease_deadline > 0
         THEN Decision([r EXCEPT !.next_action_at = r.lease_deadline], "none")
         ELSE _lapsed(r, a)
    ELSE IF r.state = "observing"
    THEN IF r.observe_count >= OBSERVE_BUDGET
         THEN _unknown_after_observation(r, a, "observe")
         ELSE Decision([r EXCEPT !.observe_count = @ + 1,
                            !.next_action_at = Capped(a.delay, r.recovery_deadline)],
                       "observe")
    ELSE _reevaluate_parked(r, a)

\* A request-owned deadline (the adapter's recovery_deadline hook) has passed.
PastRequestDeadline(r, e, a) ==
    a.deadline = 0 /\ ~r.cancel_requested /\ e.kind # "cancel-requested"

AfterRequestDeadline(r, e, a) ==
    IF e.kind # "observed"
    THEN Decision([r EXCEPT !.state = "observing", !.next_action_at = 0,
                       !.lease_deadline = NoTime, !.observe_count = Look(r),
                       !.effect = "unknown"], "observe")
    ELSE IF e.effect = "unknown" /\ ~blind_retry_is_safe(r, a)
    THEN _lost(r, a, "none", TRUE)
    ELSE Decision(Ended(r, IF e.effect = "established" THEN "succeeded" ELSE "failed",
                        e.effect),
                  IF e.effect = "unknown" THEN "residue" ELSE "none")

transition(r, e, a) ==
    CASE Dropped(r, e)                         -> Decision(r, "none")
      [] OTHER ->
    CASE PastRequestDeadline(r, e, a)          -> AfterRequestDeadline(r, e, a)
      [] OTHER ->
    CASE e.kind = "cancel-requested" -> _cancel(r, a)
      [] e.kind = "submitted"        ->
             Decision(IF r.state = "queued" /\ r.attempt = 0
                      THEN [r EXCEPT !.effect = "none"] ELSE r, "none")
      [] e.kind = "claimed"          -> _claimed(r, e)
      [] e.kind = "heartbeat"        -> _heartbeat(r, e)
      [] e.kind = "reported"         -> _reported(r, e, a)
      [] e.kind = "lease-lapsed"     -> _lapsed(r, a)
      [] e.kind = "observed"         -> _observed(r, e, a)
      [] e.kind = "operator-action"  -> _operator(r, e, a)
      [] e.kind = "tick"             -> _tick(r, a)

(***************************************************************************)
(* reconciler.settle with an answer that is read at once: the event, then  *)
(* the answer of the command it caused.  An answer never causes another    *)
(* command that answers, so two steps are the whole loop.                  *)
(***************************************************************************)
Observed(effect) == [kind |-> "observed", effect |-> effect]

settle(r, e, a, observation, stopped) ==
    LET d == transition(r, e, a) IN
    CASE d.command = "observe" -> transition(d.row, Observed(observation), a)
      [] d.command = "stop"    ->
             transition(d.row, Observed(IF stopped THEN "stopped" ELSE "unknown"), a)
      [] OTHER                 -> d
=============================================================================
