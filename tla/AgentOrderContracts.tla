------------------------ MODULE AgentOrderContracts -------------------------
(***************************************************************************)
(* The inductive invariant of one order of the agent queue, and what the   *)
(* lifecycle core means for the stored rows: where a decision may leave a  *)
(* row (TransitionSeats), what storing that decision commits               *)
(* (DecideContract), what settling one event and following it at the       *)
(* parent commits, when the rows a handler commits are sound, and that the *)
(* claims and the heartbeats of the Spark commit such rows.                *)
(***************************************************************************)
EXTENDS AgentOrder, LifecycleCoreProofs

\* An attempt that launches nothing any more, and one whose work finished.
Over == {"declined", "delivering", "exited"}
Finished == {"exited", "delivering"}

LEASE_BOUND == MaxOf(LEASE, PROGRESSING)

\* The clock column belongs to waits; only an order that never ran is queued;
\* a lease is at most the longest one granted.
Columns(s) ==
    /\ s.order.state \in {"running"} \cup Terminal => s.order.next_action_at = NoTime
    /\ s.order.state = "queued" => s.order.current_attempt = 0
    /\ s.attempt.lease_deadline <= LEASE_BOUND

\* ClaimMatchesOrder and ParentFollowsOrder of any rows, and the half of the
\* second that settling keeps.
LiveTogether(s) == s.order.state = "running" <=> s.attempt.state = "running"
ParentOk(s) ==
    /\ s.order.state \in Terminal => ParentEnded(s)
    /\ s.parent.state = "succeeded" => s.order.state = "succeeded"
NoFalseSuccess(s) == s.parent.state = "succeeded" => s.order.state = "succeeded"

\* The receipt kept on the current attempt is what its executor did.
Evidence(s, result) ==
    /\ result # "none" => s.order.current_attempt > 0
    /\ result \in {"done", "pending"} => exec[s.order.current_attempt] \in Finished
    /\ result = "not-launched" => exec[s.order.current_attempt] \in Over
ReceiptIsTrue(s) == Evidence(s, s.attempt.result)

\* An order succeeded only with an attempt that finished.
SuccessIsFinished(s) ==
    s.order.state = "succeeded" =>
      s.order.current_attempt > 0 /\ exec[s.order.current_attempt] \in Finished

\* A job waits for another attempt only when its current one is over.
RetryIsProven(s) ==
    kind = "job" /\ s.order.current_attempt > 0 /\ retry_scheduled(s)
      => exec[s.order.current_attempt] \in Over

\* The rows agree with each other and with what the executor did.
Sound(s) ==
    /\ s \in Db /\ Columns(s) /\ LiveTogether(s) /\ ParentOk(s)
    /\ ReceiptIsTrue(s) /\ SuccessIsFinished(s) /\ RetryIsProven(s)

\* What a reconciler pass carries from its unlocked read to its save: a row
\* that waits, a decision about the same attempt that neither runs nor
\* succeeds, and a retry of a job only of a row that was ready or of an
\* attempt that is over.
CarriedIsProven ==
    pass \notin {Idle, Down} =>
      /\ pass.before.state \notin {"running"} \cup Terminal
      /\ pass.after.state \notin {"running", "succeeded"}
      /\ pass.after.effect # "established"
      /\ pass.after.attempt = pass.before.attempt
      /\ pass.before.attempt <= db.order.current_attempt
      /\ pass.before.state = "observing" => pass.before.observe_count > 0
      /\ pass.after.state = "observing" => pass.after.observe_count > 0
      /\ pass.step = "ask" => pass.after.state = "observing"
      /\ Asks(pass) => pass.after.state = "observing"
      /\ kind = "job" /\ pass.before.attempt > 0 =>
           /\ pass.after.effect = "none" => exec[pass.before.attempt] \in Over
           /\ pass.after.state \in Ready
                => pass.before.state \in Ready \/ exec[pass.before.attempt] \in Over

Inv == TypeOK /\ Sound(db) /\ CarriedIsProven /\ NoOverlap

(***************************************************************************)
(* Where a decision of the core leaves a row.                              *)
(***************************************************************************)
\* A row that is decided on does not run, and one being observed was looked at.
Seated(x) == x.state # "running" /\ (x.state = "observing" => x.observe_count > 0)

\* The looks a row is given are counted from one.
LEMMA LookCounts ==
  ASSUME NEW r \in Row
  PROVE  Look(r) > 0
BY BudgetsAssumption DEF Look, Row

\* Ended and retried rows are seated.
LEMMA EndedSeated ==
  ASSUME NEW r \in Row, NEW state \in Terminal, NEW effect
  PROVE  Seated(Ended(r, state, effect))
BY DEF Seated, Ended, Terminal, Row

\* _retry parks the row in backoff.
LEMMA RetrySeated ==
  ASSUME NEW r \in Row, NEW a, NEW effect
  PROVE  Seated(_retry(r, a, effect).row)
BY Zenon DEF Seated, _retry, Decision, Row

\* _observe parks the row in observing and counts the look.
LEMMA ObserveSeated ==
  ASSUME NEW r \in Row, NEW a
  PROVE  Seated(_observe(r, a).row)
BY Zenon, LookCounts DEF Seated, _observe, Decision, Row

\* _lost counts its looks beyond the budget.
LEMMA LostSeated ==
  ASSUME NEW r \in Row, NEW a, NEW command, NEW observed \in BOOLEAN
  PROVE  Seated(_lost(r, a, command, observed).row)
<1> DEFINE before == IF r.observe_count > OBSERVE_BUDGET
                     THEN r.observe_count - OBSERVE_BUDGET ELSE 0
           looked == IF observed THEN before + 1 ELSE before
           n == OBSERVE_BUDGET + looked
           counted == [r EXCEPT !.observe_count = n]
           waiting == [counted EXCEPT !.state = "observing", !.next_action_at = a.delay,
                                      !.lease_deadline = NoTime, !.effect = "unknown"]
<1>1. n \in Nat /\ n > 0
  BY BudgetsAssumption DEF Row
<1>2. _lost(r, a, command, observed) \in
        {Decision(Ended(counted, "failed", "unknown"), "residue"), Decision(waiting, command)}
  BY DEF _lost
<1> HIDE DEF n
<1>3. counted \in Row
  BY <1>1 DEF Row
<1>4. Seated(waiting)
  BY <1>1 DEF Seated, Row
<1>5. Seated(Ended(counted, "failed", "unknown"))
  BY <1>3, EndedSeated DEF Terminal
<1> HIDE DEF counted, waiting
<1>6. QED
  BY <1>2, <1>4, <1>5 DEF Decision

\* _unknown_outcome retries, observes or gives the row up.
LEMMA UnknownSeated ==
  ASSUME NEW r \in Row, NEW a, NEW command, r.observe_count > 0
  PROVE  Seated(_unknown_after_observation(r, a, command).row)
<1> DEFINE waiting == [r EXCEPT !.state = "observing",
                         !.next_action_at = Capped(a.delay, r.recovery_deadline)]
<1>1. Seated(waiting)
  BY DEF Seated, Row
<1>2. _unknown_after_observation(r, a, command) \in
        {_retry(r, a, r.effect), _lost(r, a, command, FALSE), Decision(waiting, "none")}
  BY DEF _unknown_after_observation
<1>3. Seated(_retry(r, a, r.effect).row) /\ Seated(_lost(r, a, command, FALSE).row)
  BY Zenon, RetrySeated, LostSeated
<1>4. Seated(Decision(waiting, "none").row)
  BY <1>1 DEF Decision
<1>5. QED
  BY Zenon, <1>2, <1>3, <1>4

\* _uncertain retries what did not happen and observes the rest.
LEMMA UncertainSeated ==
  ASSUME NEW r \in Row, NEW a, NEW claimed
  PROVE  Seated(_uncertain(r, a, claimed).row)
<1>1. \E effect : _uncertain(r, a, claimed) \in {_retry(r, a, effect), _observe(r, a)}
  BY DEF _uncertain
<1>2. QED
  BY <1>1, RetrySeated, ObserveSeated

\* A stop is counted; the answer to one belongs to a row that was stopped.
LEMMA AdvanceCancelSeated ==
  ASSUME NEW r \in Row, NEW a, NEW observed, NEW issue_stop \in BOOLEAN,
         issue_stop \/ r.observe_count > 0
  PROVE  LET x == _advance_cancel(r, a, observed, issue_stop).row IN
         Seated(x) /\ x.state \in {"observing", "cancelled"}
<1> DEFINE n == IF issue_stop THEN r.observe_count + 1 ELSE r.observe_count
           effect == IF observed = NoEffect THEN "unknown" ELSE observed
           waiting == [r EXCEPT !.state = "observing", !.observe_count = n,
                         !.next_action_at = Capped(a.delay, r.recovery_deadline),
                         !.lease_deadline = NoTime, !.effect = effect]
           told == IF observed = NoEffect THEN "none" ELSE observed
           command == IF issue_stop THEN "stop" ELSE "none"
<1>1. _advance_cancel(r, a, observed, issue_stop) \in
        {Decision(Ended(r, "cancelled", told), "none"),
         Decision(Ended(r, "cancelled", "unknown"), "residue"), Decision(waiting, command)}
  BY DEF _advance_cancel
<1>2. n > 0
  BY DEF Row
<1> HIDE DEF n, effect
<1>3. Seated(waiting) /\ waiting.state = "observing"
  BY <1>2 DEF Seated, Row
<1>4. \A e : Seated(Ended(r, "cancelled", e)) /\ Ended(r, "cancelled", e).state = "cancelled"
  BY Zenon, EndedSeated DEF Terminal, Ended, Row
<1> HIDE DEF waiting
<1>5. QED
  BY <1>1, <1>3, <1>4 DEF Decision

\* The events the queue feeds the core: a report is of the attempt the row
\* names or of no attempt, and an answer is for a row being observed.
OrderEvent(r, e) ==
    /\ WellFormed(e)
    /\ e.kind \in {"cancel-requested", "lease-lapsed", "reported", "observed", "tick"}
    /\ e.kind = "reported" => e.fence \in {0, r.fence}
    /\ e.kind = "observed" => r.state = "observing"
    /\ r.state = "running" => e.kind \in {"cancel-requested", "lease-lapsed", "reported"}

\* _cancel_requested ends an idle row and stops an issued one.
LEMMA CancelSeated ==
  ASSUME NEW r \in Row, NEW a, r.state = "observing" => r.observe_count > 0
  PROVE  LET x == _cancel(r, a).row IN
         Seated(x) /\ x.state \in {"observing", "cancelled"}
<1> DEFINE flagged == [r EXCEPT !.cancel_requested = TRUE]
<1>1. flagged \in Row
  BY Zenon DEF Row
<1>2. CASE r.cancel_requested /\ r.state = "observing"
  BY <1>2 DEF _cancel, Decision, Seated
<1>3. CASE ~(r.cancel_requested /\ r.state = "observing")
  <2>1. _cancel(r, a) = _advance_cancel(flagged, a, NoEffect, TRUE)
    BY Zenon, <1>3 DEF _cancel
  <2> HIDE DEF flagged
  <2>2. QED
    BY Zenon, <1>1, <2>1, AdvanceCancelSeated
<1>4. QED
  BY <1>2, <1>3

\* _reported never leaves the row at the executor.
LEMMA ReportedSeated ==
  ASSUME NEW r \in Row, NEW a, NEW e, r.state = "observing" => r.observe_count > 0
  PROVE  Seated(_reported(r, e, a).row)
<1> DEFINE proof == IF e.effect \in {"stopped", "none"} THEN e.effect ELSE NoEffect
           issue == r.state # "observing"
<1>1. \A state \in Terminal : \A default : Seated(_end(r, state, e.effect, default).row)
  BY EndedSeated DEF _end, Decision
<1>2. Seated(_advance_cancel(r, a, proof, issue).row)
  BY Zenon, AdvanceCancelSeated
<1>3. Seated(_uncertain(r, a, e.effect).row)
  BY ZenonT(60), UncertainSeated
<1>4. \/ \E state \in Terminal : \E default :
           _reported(r, e, a) = _end(r, state, e.effect, default)
      \/ _reported(r, e, a) = _advance_cancel(r, a, proof, issue)
      \/ _reported(r, e, a) = _uncertain(r, a, e.effect)
  BY DEF _reported, Terminal
<1>5. QED
  BY ZenonT(60), <1>1, <1>2, <1>3, <1>4

\* _lease_lapsed takes the row from the executor it lost.
LEMMA LapsedSeated ==
  ASSUME NEW r \in Row, NEW a, r.state = "observing" => r.observe_count > 0
  PROVE  Seated(_lapsed(r, a).row)
<1>1. Seated(_advance_cancel(r, a, NoEffect, TRUE).row)
  BY Zenon, AdvanceCancelSeated
<1>2. QED
  BY Zenon, <1>1, UncertainSeated DEF _lapsed, Decision, Seated

\* _observed ends, retries or looks again.
LEMMA ObservedSeated ==
  ASSUME NEW r \in Row, NEW a, NEW e, r.state = "observing", r.observe_count > 0
  PROVE  Seated(_observed(r, e, a).row)
<1> DEFINE won == [r EXCEPT !.state = "succeeded", !.effect = "established",
                            !.next_action_at = NoTime]
           command == IF e.effect = "unknown" THEN "residue" ELSE "none"
<1>1. Seated(won)
  BY DEF Seated, Row
<1>2. \A effect : Seated(Ended(r, "failed", effect))
  BY EndedSeated DEF Terminal
<1>3. /\ Seated(_advance_cancel(r, a, e.effect, FALSE).row)
      /\ Seated(_lost(r, a, "none", TRUE).row)
      /\ Seated(_retry(r, a, "none").row)
      /\ Seated(_unknown_after_observation(r, a, "none").row)
  BY Zenon, AdvanceCancelSeated, LostSeated, RetrySeated, UnknownSeated
<1>4. _observed(r, e, a) \in
        {_advance_cancel(r, a, e.effect, FALSE), _lost(r, a, "none", TRUE),
         Decision(Ended(r, "failed", e.effect), command), Decision(won, "none"),
         Decision(Ended(r, "failed", "stopped"), "none"), _retry(r, a, "none"),
         _unknown_after_observation(r, a, "none")}
  BY DEF _observed
<1> HIDE DEF won, command
<1>5. /\ Seated(Decision(won, "none").row)
      /\ Seated(Decision(Ended(r, "failed", e.effect), command).row)
      /\ Seated(Decision(Ended(r, "failed", "stopped"), "none").row)
  BY <1>1, <1>2 DEF Decision
<1>6. QED
  BY Zenon, <1>3, <1>4, <1>5

\* _tick leaves a parked row parked.
LEMMA TickSeated ==
  ASSUME NEW r \in Row, NEW a, r.state \notin {"running"} \cup Terminal,
         r.state = "observing" => r.observe_count > 0
  PROVE  Seated(_tick(r, a).row)
<1> DEFINE due == [r EXCEPT !.state = "queued", !.next_action_at = NoTime]
           looked == [r EXCEPT !.observe_count = @ + 1,
                               !.next_action_at = Capped(a.delay, r.recovery_deadline)]
           found == [r EXCEPT !.state = "observing"]
           established == [kind |-> "observed", effect |-> "established"]
<1>1. Seated(r) /\ Seated(due)
  BY DEF Seated, Row
<1>2. r.state = "observing" => Seated(looked)
  BY DEF Seated, Row
<1>3. /\ Seated(_advance_cancel(r, a, NoEffect, TRUE).row)
      /\ Seated(_observe(r, a).row)
      /\ \A effect : Seated(_retry(r, a, effect).row)
      /\ Seated(_lost(r, a, "observe", FALSE).row)
      /\ r.state = "observing" => Seated(_unknown_after_observation(r, a, "observe").row)
  BY Zenon, AdvanceCancelSeated, ObserveSeated, LostSeated, RetrySeated, UnknownSeated
<1>4. CASE r.state = "needs-operator" /\ ~r.cancel_requested
  <2>1. Seated(_observed(found, established, a).row)
    <3>1. /\ found.cancel_requested = r.cancel_requested /\ found.state = "observing"
          /\ established.effect = "established"
      BY DEF Row
    <3> DEFINE won == [found EXCEPT !.state = "succeeded", !.effect = "established",
                                    !.next_action_at = NoTime]
    <3>2. _observed(found, established, a) = Decision(won, "none")
      BY Zenon, <1>4, <3>1 DEF _observed
    <3>3. Seated(won)
      BY DEF Seated, Row
    <3> HIDE DEF won
    <3>4. QED
      BY <3>2, <3>3 DEF Decision
  <2>2. Seated(_reevaluate_parked(r, a).row)
    BY Zenon, <1>3, <2>1 DEF _reevaluate_parked
  <2> HIDE DEF due, looked
  <2>3. _tick(r, a) \in {Decision(r, "none"), _observe(r, a), _reevaluate_parked(r, a)}
    BY <1>4 DEF _tick
  <2>4. Seated(Decision(r, "none").row)
    BY <1>1 DEF Decision
  <2>5. QED
    BY <1>3, <2>2, <2>3, <2>4
<1>5. CASE ~(r.state = "needs-operator" /\ ~r.cancel_requested)
  <2>1. \/ _tick(r, a) \in {Decision(r, "none"), _advance_cancel(r, a, NoEffect, TRUE),
                            _observe(r, a), Decision(due, "execute")}
        \/ /\ r.state = "observing"
           /\ _tick(r, a) \in {_unknown_after_observation(r, a, "observe"),
                               Decision(looked, "observe")}
    BY Zenon, <1>5, Literals DEF _tick, State, Row
  <2> HIDE DEF due, looked
  <2>2. /\ Seated(Decision(r, "none").row) /\ Seated(Decision(due, "execute").row)
        /\ r.state = "observing" => Seated(Decision(looked, "observe").row)
    BY <1>1, <1>2 DEF Decision
  <2>3. QED
    BY Zenon, <1>3, <2>1, <2>2
<1>6. QED
  BY <1>4, <1>5

\* Where any decision about an order leaves its row.
LEMMA TransitionSeats ==
  ASSUME NEW r \in Row, NEW a \in Adapter, a.deadline = NoTime, NEW e, OrderEvent(r, e),
         r.state = "observing" => r.observe_count > 0
  PROVE  LET x == transition(r, e, a).row IN
         /\ Seated(x)
         /\ e.kind = "cancel-requested" /\ r.state \notin Terminal
              => x.state \in {"observing", "cancelled"}
<1>1. ~PastRequestDeadline(r, e, a)
  BY DEF PastRequestDeadline, NoTime
<1>2. CASE r.state \in Terminal
  BY <1>2, TerminalAbsorbs DEF Decision, Seated, Terminal
<1>3. CASE r.state \notin Terminal
  <2>1. ~Dropped(r, e)
    BY <1>3 DEF Dropped, _stale, OrderEvent
  <2>2. CASE e.kind = "cancel-requested"
    BY <1>1, <2>1, <2>2, CancelSeated DEF transition
  <2>3. CASE e.kind = "reported"
    BY <1>1, <2>1, <2>3, ReportedSeated DEF transition
  <2>4. CASE e.kind = "lease-lapsed"
    BY SMTT(60), <1>1, <2>1, <2>4, LapsedSeated DEF transition
  <2>5. CASE e.kind = "observed"
    BY <1>1, <2>1, <2>5, ObservedSeated DEF transition, OrderEvent
  <2>6. CASE e.kind = "tick"
    BY ZenonT(60), <1>1, <1>3, <2>1, <2>6, TickSeated DEF transition, OrderEvent
  <2>7. QED
    BY <2>2, <2>3, <2>4, <2>5, <2>6 DEF OrderEvent
<1>4. QED
  BY <1>2, <1>3

(***************************************************************************)
(* The stored order: the row it is read as, and a decision written to it.  *)
(***************************************************************************)
\* Every window and budget is a positive delay the clock can hold.
LEMMA Constants ==
  /\ LEASE \in 1 .. MaxDelay /\ PROGRESSING \in 1 .. MaxDelay
  /\ RECOVERY_BUDGET \in 1 .. MaxDelay /\ START_BUDGET \in 1 .. MaxDelay
  /\ STALL_WINDOW \in 1 .. MaxDelay /\ RETENTION \in 1 .. MaxDelay
  /\ CANCEL_WINDOW \in 1 .. MaxDelay /\ WAIT_STEP \in 1 .. MaxDelay
  /\ JOB_BOUND \in 1 .. MaxDelay
  /\ LEASE_BOUND \in 1 .. MaxDelay
  /\ LEASE <= LEASE_BOUND /\ PROGRESSING <= LEASE_BOUND
  /\ LEASE_BOUND + JOB_BOUND <= MaxDelay /\ LEASE_BOUND + RETENTION <= MaxDelay
  /\ MaxAttempts \in Nat \ {0} /\ MaxDelay \in Nat \ {0}
BY OrderAssumption, BudgetsAssumption DEF LEASE_BOUND, MaxOf

\* Timers of the stored rows stay timers.
LEMMA TimerMath ==
  /\ \A x, y \in Timer : MaxOf(x, y) \in Timer /\ MinOf(x, y) \in Timer
  /\ \A x \in Timer : OrNow(x) \in Timer
  /\ \A x \in Timer, age \in 0 .. MaxDelay : Aged(x, age) \in Timer
  /\ RECOVERY_BUDGET \in Timer /\ NoTime \in Timer /\ 0 \in Timer
BY Constants DEF MaxOf, MinOf, OrNow, Aged, Timer, NoTime

\* The columns of well-typed rows.
LEMMA DbFields ==
  ASSUME NEW s \in Db
  PROVE  /\ s.order \in OrderRow /\ s.attempt \in AttemptRow /\ s.parent \in ParentRow
         /\ s.order.state \in State /\ s.order.current_attempt \in 0 .. MaxAttempts
         /\ s.order.next_action_at \in Timer /\ s.order.observe_count \in Nat
         /\ s.order.recovery_deadline \in Timer /\ s.order.start_deadline \in Timer
         /\ s.order.output_delivery_only \in BOOLEAN
         /\ s.attempt.state \in AttemptState /\ s.attempt.lease_deadline \in Timer
         /\ s.attempt.stall \in Timer /\ s.attempt.run_bound \in Timer
         /\ s.attempt.custody \in Timer /\ s.attempt.result \in Report \cup {"none"}
         /\ s.parent.state \in {"live"} \cup Terminal /\ s.parent.cancel_deadline \in Timer
         /\ s.parent.sibling_failed \in BOOLEAN
BY ZenonT(60) DEF Db, OrderRow, AttemptRow, ParentRow

\* lifecycle_wait: how the stored state is read.
LEMMA CoreStateFacts ==
  ASSUME NEW s \in Db
  PROVE  /\ CoreState(s) \in State
         /\ CoreState(s) \in Terminal <=> s.order.state \in Terminal
         /\ CoreState(s) \in Terminal => CoreState(s) = s.order.state
         /\ CoreState(s) = "running" <=> s.order.state = "running"
         /\ CoreState(s) = "queued" <=> s.order.state = "queued"
         /\ CoreState(s) = "backoff" => retry_scheduled(s)
         /\ CoreState(s) = "observing" => s.order.observe_count > 0
         /\ s.order.state \in Parked
              => CoreState(s) \in {"backoff", "observing", "needs-operator"}
BY DbFields DEF CoreState, retry_scheduled, State, Terminal, Parked

\* The deadlines read from the rows are timers.
LEMMA DeadlinesAreTimers ==
  ASSUME NEW s \in Db, NEW away \in BOOLEAN
  PROVE  /\ start_deadline(s) \in Timer /\ CoreLease(s) \in Timer
         /\ order_recovery_deadline(s, away) \in Timer
<1>1. start_deadline(s) \in Timer
  BY DbFields, TimerMath DEF start_deadline
<1>2. CoreLease(s) \in Timer
  BY SMTT(60), <1>1, DbFields, TimerMath DEF CoreLease
<1>3. order_recovery_deadline(s, away) \in Timer
  BY SMTT(60), DbFields, TimerMath DEF order_recovery_deadline
<1>4. QED
  BY <1>1, <1>2, <1>3

\* The row of the core that an order is.
LEMMA LifecycleFields ==
  ASSUME NEW s \in Db, NEW away \in BOOLEAN
  PROVE  LET r == lifecycle(s, away) IN
         /\ r \in Row /\ r.state = CoreState(s)
         /\ r.attempt = s.order.current_attempt /\ r.fence = s.order.current_attempt
         /\ r.observe_count = s.order.observe_count
         /\ r.effect = "established" <=> s.order.state = "succeeded"
         /\ r.effect = "none" => s.order.current_attempt = 0
<1> DEFINE state == CoreState(s)
           clock == IF state = "running" THEN CoreLease(s)
                    ELSE IF state \in {"backoff", "observing"}
                    THEN s.order.next_action_at ELSE NoTime
           deadline == order_recovery_deadline(s, away)
           lease == CoreLease(s)
           cancel == CancelFlag(s) \/ ParentEnded(s)
           effect == IF state = "succeeded" THEN "established"
                     ELSE IF state = "cancelled" THEN "stopped"
                     ELSE IF s.order.current_attempt = 0 THEN "none"
                     ELSE IF state = "running" THEN "issued" ELSE "unknown"
<1>1. state \in State /\ (state = "succeeded" <=> s.order.state = "succeeded")
  BY CoreStateFacts DEF Terminal
<1>2. clock \in Timer /\ deadline \in Timer /\ lease \in Timer /\ cancel \in BOOLEAN
  BY SMTT(60), DbFields, DeadlinesAreTimers, TimerMath DEF CancelFlag, ParentEnded
<1>3. /\ effect \in Effect /\ (effect = "established" <=> state = "succeeded")
      /\ effect = "none" => s.order.current_attempt = 0
  BY Literals
<1>4. s.order.current_attempt \in Nat /\ s.order.observe_count \in Nat
  BY SMTT(60), DbFields, Constants
<1>5. lifecycle(s, away) =
        [state |-> state, attempt |-> s.order.current_attempt,
         fence |-> s.order.current_attempt, lease_deadline |-> lease,
         next_action_at |-> clock, recovery_deadline |-> deadline,
         observe_count |-> s.order.observe_count, cancel_requested |-> cancel,
         effect |-> effect]
  BY ZenonT(60) DEF lifecycle
<1> HIDE DEF state, clock, deadline, lease, cancel, effect
<1>6. QED
  BY SMTT(60), <1>1, <1>2, <1>3, <1>4, <1>5 DEF Row, state

\* The state and the clock a decision is stored as.
LEMMA StoredFields ==
  ASSUME NEW s \in Db, NEW x \in Row, x.state # "running"
  PROVE  /\ _stored(s, x).state \in State /\ _stored(s, x).next_action_at \in Timer
         /\ _stored(s, x).state # "running"
         /\ _stored(s, x).state \in Terminal =>
              x.state = _stored(s, x).state /\ _stored(s, x).next_action_at = NoTime
         /\ x.state \in Terminal => _stored(s, x).state = x.state
         /\ _stored(s, x).state = "queued" => s.order.current_attempt = 0
         /\ s.order.current_attempt = 0 => _stored(s, x).state # "backoff"
         /\ _stored(s, x).state = "backoff" => x.state \in Ready
         /\ _stored(s, x).state = "observing" => x.state = "observing"
<1>1. x.state \in State /\ x.next_action_at \in Timer
  BY DEF Row
<1>2. OrNow(x.next_action_at) \in Timer /\ NoTime \in Timer /\ 0 \in Timer
  BY <1>1, TimerMath
<1> DEFINE never == s.order.current_attempt = 0
<1>3. CASE x.state = "queued" /\ never
  BY <1>1, <1>2, <1>3 DEF _stored, Ready, State, Terminal
<1>4. CASE x.state = "backoff" /\ never
  BY ZenonT(60), <1>1, <1>2, <1>4 DEF _stored, Ready, State, Terminal
<1>5. CASE x.state \in {"queued", "backoff"} /\ ~never
  BY ZenonT(60), <1>1, <1>2, <1>5 DEF _stored, Ready, State, Terminal
<1>6. CASE x.state = "observing"
  BY ZenonT(60), <1>1, <1>2, <1>6 DEF _stored, Ready, State, Terminal
<1>7. CASE x.state = "needs-operator"
  BY ZenonT(60), <1>1, <1>2, <1>7 DEF _stored, Ready, State, Terminal
<1>8. CASE x.state \in Terminal
  BY ZenonT(60), <1>1, <1>2, <1>8 DEF _stored, Ready, State, Terminal
<1>9. QED
  BY ZenonT(60), <1>1, <1>3, <1>4, <1>5, <1>6, <1>7, <1>8 DEF State

\* The fields of an attempt that is fenced off.
LEMMA LapseFields ==
  ASSUME NEW t \in AttemptRow
  PROVE  /\ lapse(t) \in AttemptRow /\ lapse(t).state = "lapsed"
         /\ lapse(t).result = t.result /\ lapse(t).lease_deadline = t.lease_deadline
BY ZenonT(60) DEF lapse, AttemptRow, AttemptState

\* AgentOperationAdapter.apply: what a decision makes of the stored rows.
LEMMA ApplyFields ==
  ASSUME NEW s \in Db, NEW b \in Row, NEW x \in Row, x.state # "running"
  PROVE  LET t == apply(s, b, x) IN
         /\ t \in Db /\ t.parent = s.parent
         /\ t.order.state = _stored(s, x).state
         /\ t.order.next_action_at = _stored(s, x).next_action_at
         /\ t.order.observe_count = IF x.state = "observing" THEN x.observe_count ELSE 0
         /\ t.order.current_attempt = s.order.current_attempt
         /\ t.attempt = IF \/ /\ b.state = "running" /\ s.attempt.state = "running"
                              /\ x.state \notin {"succeeded", "failed"}
                           \/ /\ x.state \in Terminal
                              /\ s.attempt.state = "reported-unknown"
                        THEN lapse(s.attempt) ELSE s.attempt
<1> DEFINE state == _stored(s, x).state
           clock == _stored(s, x).next_action_at
           n == IF x.state = "observing" THEN x.observe_count ELSE 0
           d == IF s.order.recovery_deadline = NoTime /\ s.order.current_attempt > 0
                     /\ x.state \in {"observing", "backoff"}
                THEN RECOVERY_BUDGET ELSE s.order.recovery_deadline
           att == IF \/ /\ b.state = "running" /\ s.attempt.state = "running"
                        /\ x.state \notin {"running", "succeeded", "failed"}
                     \/ /\ x.state \in Terminal
                        /\ s.attempt.state = "reported-unknown"
                  THEN lapse(s.attempt) ELSE s.attempt
<1>1. state \in State /\ clock \in Timer
  BY StoredFields
<1>2. n \in Nat
  BY SMTT(60) DEF Row
<1>3. d \in Timer
  BY ZenonT(60), DbFields, TimerMath
<1>4. att \in AttemptRow
  BY DbFields, LapseFields
<1> DEFINE o == [s.order EXCEPT !.state = state, !.next_action_at = clock,
                               !.observe_count = n, !.recovery_deadline = d]
<1>5. apply(s, b, x) = [s EXCEPT !.order = o, !.attempt = att]
  BY ZenonT(60) DEF apply, Db
<1>6. s.order \in OrderRow
  BY DbFields
<1> HIDE DEF state, clock, n, d, att
<1>7. /\ o \in OrderRow /\ o.state = state /\ o.next_action_at = clock
      /\ o.observe_count = n /\ o.current_attempt = s.order.current_attempt
  BY Zenon, <1>1, <1>2, <1>3, <1>6 DEF OrderRow
<1> HIDE DEF o
<1>8. /\ apply(s, b, x) \in Db /\ apply(s, b, x).parent = s.parent
      /\ apply(s, b, x).order = o /\ apply(s, b, x).attempt = att
  BY Zenon, <1>4, <1>5, <1>7 DEF Db
<1>9. QED
  BY <1>7, <1>8 DEF state, clock, n, att

\* The rules of an order are rules the core accepts.
LEMMA AdapterType ==
  ASSUME NEW delay \in 1 .. MaxDelay
  PROVE  /\ adapter(delay) \in Adapter /\ adapter(delay).deadline = NoTime
         /\ adapter(delay).actions = {}
         /\ adapter(delay).irreversible <=> kind = "job"
BY Zenon, Timers DEF adapter, Adapter, IRREVERSIBLE

\* The rows an order can be decided on: the row of the core is about the stored
\* attempt, and a live attempt is met only by a cancel.
Decidable(s, r, e) ==
    /\ s \in Db /\ Columns(s) /\ r \in Row /\ OrderEvent(r, e)
    /\ r.attempt = s.order.current_attempt
    /\ r.state = "running" <=> s.order.state = "running"
    /\ r.state = "observing" => r.observe_count > 0
    /\ s.attempt.state = "running" => r.state = "running" /\ e.kind = "cancel-requested"

\* What Decide makes of an event: a lawful row, stored as it is, in rows that
\* agree with it.
LawfullyStored(s, r, e, c) ==
    LET d == transition(r, e, adapter(c.delay))
        t == Decide(s, r, e, c).db IN
    /\ Decide(s, r, e, c).row = d.row /\ Decide(s, r, e, c).command = d.command
    /\ d.row \in Row /\ Seated(d.row) /\ d.row.attempt = s.order.current_attempt
    /\ Lawful(r, adapter(c.delay), d, SaysNone(e), SaysEstablished(e))
    /\ t \in Db /\ Columns(t) /\ t.parent = s.parent
    /\ t.order.current_attempt = s.order.current_attempt
    /\ t.attempt \in {s.attempt, lapse(s.attempt)}
    /\ t.attempt.result = s.attempt.result
    /\ t.attempt.state # "running" /\ t.order.state # "running"
    /\ r.state \in Terminal => t = s
    /\ t.order.state = "succeeded" => t = s \/ d.row.state = "succeeded"
    /\ retry_scheduled(t) => t = s \/ d.row.state \in Ready
    /\ d.row # r /\ d.row.state \in Terminal => t.order.state = d.row.state

\* One decision and its projection onto the stored rows.
LEMMA DecideContract ==
  ASSUME NEW s, NEW r, NEW e, NEW c, c.delay \in 1 .. MaxDelay, Decidable(s, r, e)
  PROVE  LawfullyStored(s, r, e, c)
<1> DEFINE a == adapter(c.delay)
           d == transition(r, e, a)
           t == Decide(s, r, e, c).db
<1>1. a \in Adapter /\ a.deadline = NoTime
  BY AdapterType
<1>2. s \in Db /\ r \in Row /\ OrderEvent(r, e) /\ WellFormed(e)
  BY DEF Decidable, OrderEvent
<1>3. Lawful(r, a, d, SaysNone(e), SaysEstablished(e))
  BY ZenonT(60), <1>1, <1>2, TransitionIsLawful
<1>4. d.row \in Row /\ d.row.attempt = s.order.current_attempt
  BY ZenonT(60), <1>3 DEF Lawful, Decidable
<1>5. /\ Seated(d.row)
      /\ e.kind = "cancel-requested" /\ r.state \notin Terminal
           => d.row.state \in {"observing", "cancelled"}
  BY SMTT(60), <1>1, <1>2, TransitionSeats DEF Decidable
<1>6. /\ Decide(s, r, e, c).row = d.row /\ Decide(s, r, e, c).command = d.command
      /\ t = ApplyDecision(s, r, d.row)
  BY DEF Decide, Decided
<1>7. r.state \in Terminal => d.row = r
  BY TerminalAbsorbs DEF Decision
<1> HIDE DEF d, t, a
<1>8. CASE d.row = r
  <2>1. t = s
    BY <1>6, <1>8 DEF ApplyDecision
  <2>2. r.state # "running"
    BY <1>5, <1>8 DEF Seated
  <2>3. QED
    BY ZenonT(60), <1>2, <1>3, <1>4, <1>5, <1>6, <1>8, <2>1, <2>2
       DEF Decidable, LawfullyStored, a, d, t
<1>9. CASE d.row # r
  <2> DEFINE x == d.row
  <2>1. t = apply(s, r, x) /\ x \in Row /\ x.state # "running"
    BY SMTT(60), <1>4, <1>5, <1>6, <1>9 DEF ApplyDecision, Seated
  <2>2. /\ t \in Db /\ t.parent = s.parent
        /\ t.order.state = _stored(s, x).state
        /\ t.order.next_action_at = _stored(s, x).next_action_at
        /\ t.order.observe_count = IF x.state = "observing" THEN x.observe_count ELSE 0
        /\ t.order.current_attempt = s.order.current_attempt
        /\ t.attempt = IF \/ /\ r.state = "running" /\ s.attempt.state = "running"
                             /\ x.state \notin {"succeeded", "failed"}
                          \/ /\ x.state \in Terminal
                             /\ s.attempt.state = "reported-unknown"
                       THEN lapse(s.attempt) ELSE s.attempt
    BY ZenonT(60), <1>2, <2>1, ApplyFields
  <2>3. /\ s.attempt \in AttemptRow /\ lapse(s.attempt).state = "lapsed"
        /\ lapse(s.attempt).result = s.attempt.result
        /\ lapse(s.attempt).lease_deadline = s.attempt.lease_deadline
    BY SMTT(30), <1>2, DbFields, LapseFields
  <2>4. t.attempt.state # "running"
    <3>1. CASE s.attempt.state = "running"
      <4>1. r.state = "running" /\ x.state \in {"observing", "cancelled"}
        BY ZenonT(60), <1>5, <3>1 DEF Decidable, Terminal
      <4>2. QED
        BY ZenonT(60), <2>2, <2>3, <3>1, <4>1
    <3>2. CASE s.attempt.state # "running"
      BY SMTT(60), <2>2, <2>3, <3>2
    <3>3. QED
      BY ZenonT(60), <3>1, <3>2
  <2>5. /\ t.attempt \in {s.attempt, lapse(s.attempt)}
        /\ t.attempt.result = s.attempt.result
        /\ t.attempt.lease_deadline = s.attempt.lease_deadline
    BY ZenonT(60), <2>2, <2>3
  <2>6. Columns(t) /\ t.order.state # "running"
    BY SMTT(60), <1>2, <2>1, <2>2, <2>5, StoredFields DEF Columns, Decidable
  <2>7. t.order.state = "succeeded" => x.state = "succeeded"
    BY ZenonT(60), <1>2, <2>1, <2>2, StoredFields DEF Terminal
  <2>8. retry_scheduled(t) => x.state \in Ready
    BY SMTT(60), <1>2, <1>5, <2>1, <2>2, StoredFields DEF retry_scheduled, Seated
  <2>9. x.state \in Terminal => t.order.state = x.state
    BY ZenonT(60), <1>2, <2>1, <2>2, StoredFields
  <2>10. QED
    BY ZenonT(60), <1>3, <1>4, <1>5, <1>6, <1>7, <1>9, <2>2, <2>4, <2>5, <2>6, <2>7, <2>8, <2>9
       DEF LawfullyStored, a, d, t
<1>10. QED
  BY Zenon, <1>8, <1>9

\* The recovery window is the only column that anchoring moves.
LEMMA AnchorFields ==
  ASSUME NEW s \in Db, NEW e, NEW c, c.away \in BOOLEAN
  PROVE  LET t == AnchorRecovery(s, e, c) IN
         /\ t \in Db /\ t.parent = s.parent /\ t.attempt = s.attempt
         /\ t.order.state = s.order.state
         /\ t.order.next_action_at = s.order.next_action_at
         /\ t.order.observe_count = s.order.observe_count
         /\ t.order.current_attempt = s.order.current_attempt
         /\ retry_scheduled(t) = retry_scheduled(s)
         /\ Columns(s) => Columns(t)
<1> DEFINE old == s.order.recovery_deadline
           v == IF old = NoTime
                THEN IF FirstUncertainty(e) THEN RECOVERY_BUDGET ELSE NoTime
                ELSE IF c.advanced /\ e.kind \in {"lease-lapsed", "reported"}
                THEN RECOVERY_BUDGET ELSE order_recovery_deadline(s, c.away)
           o == [s.order EXCEPT !.recovery_deadline = v]
           t == AnchorRecovery(s, e, c)
<1>1. v \in Timer
  BY TimerMath, DeadlinesAreTimers
<1>2. t = [s EXCEPT !.order = o]
  BY DEF AnchorRecovery, Db
<1> HIDE DEF v, t
<1>3. s.order \in OrderRow
  BY DbFields
<1>4. /\ o \in OrderRow /\ o.state = s.order.state
      /\ o.next_action_at = s.order.next_action_at
      /\ o.observe_count = s.order.observe_count
      /\ o.current_attempt = s.order.current_attempt
  BY <1>1, <1>3 DEF OrderRow
<1> HIDE DEF o
<1>5. t \in Db /\ t.order = o /\ t.parent = s.parent /\ t.attempt = s.attempt
  BY SMTT(60), <1>2, <1>4 DEF Db
<1>6. QED
  BY SMTT(30), <1>4, <1>5 DEF retry_scheduled, Columns, t

\* The rows a handler may settle with an event.
Settleable(s, e) ==
    /\ s \in Db /\ Columns(s) /\ WellFormed(e)
    /\ e.kind \in {"cancel-requested", "lease-lapsed", "reported", "tick"}
    /\ e.kind = "reported" => e.fence \in {0, s.order.current_attempt}
    /\ s.order.state = "running" => e.kind # "tick"
    /\ s.attempt.state = "running"
         => s.order.state = "running" /\ e.kind = "cancel-requested"

\* What settling makes of them: neither the order nor its attempt runs, the
\* attempt is the same one, an ended order stays as it is, a success comes from
\* a report of one, and a job is retried on the word that it did not run or
\* that it left.
Settled(s, t, e) ==
    /\ t \in Db /\ Columns(t) /\ t.parent = s.parent
    /\ t.order.current_attempt = s.order.current_attempt
    /\ t.attempt.result = s.attempt.result
    /\ t.attempt.state # "running" /\ t.order.state # "running"
    /\ s.order.state \in Terminal => t.order.state = s.order.state
    /\ t.order.state = "succeeded" => s.order.state = "succeeded" \/ SaysEstablished(e)
    /\ kind = "job" /\ s.order.current_attempt > 0 /\ retry_scheduled(t)
         => retry_scheduled(s) \/ SaysNone(e) \/ s.attempt.result = "pending"

\* The answer to a command is evidence only where a receipt is.
LEMMA AnswerFacts ==
  ASSUME NEW s \in Db, NEW command
  PROVE  LET e == Answer(s, command) IN
         /\ WellFormed(e) /\ e.kind = "observed" /\ ~SaysEstablished(e)
         /\ SaysNone(e) => s.attempt.result = "pending"
<1> DEFINE effect == IF command = "observe" THEN observation(s)
                     ELSE IF StopConfirmed(s) THEN "stopped" ELSE "unknown"
<1>1. /\ effect \in {"none", "stopped", "unknown"}
      /\ effect = "none" => s.attempt.result = "pending"
  BY DEF observation
<1>2. Answer(s, command) = Observed(effect)
  BY DEF Answer
<1> HIDE DEF effect
<1>3. QED
  BY SMTT(60), <1>1, <1>2, Literals DEF Observed, WellFormed, SaysEstablished, SaysNone, Effect

\* A lawful decision calls an effect established or a work undone, succeeds and
\* makes an irreversible row ready again on evidence alone.
LEMMA LawfulEvidence ==
  ASSUME NEW r, NEW a, NEW d, NEW e, Lawful(r, a, d, SaysNone(e), SaysEstablished(e))
  PROVE  /\ d.row.effect = "established" => r.effect = "established" \/ SaysEstablished(e)
         /\ d.row.state = "succeeded"
              => \/ r.state = "succeeded" \/ r.effect = "established"
                 \/ SaysEstablished(e)
         /\ a.irreversible /\ r.attempt > 0 /\ d.row.effect = "none"
              => r.effect = "none" \/ SaysNone(e)
         /\ a.irreversible /\ r.attempt > 0 /\ "resume" \notin a.actions
              /\ d.row.state \in Ready => r.state \in Ready \/ r.effect = "none" \/ SaysNone(e)
BY Zenon DEF Lawful

\* settle: one event and the answer to the command it asks for, stored in turn.
LEMMA SettleContract ==
  ASSUME NEW s, NEW e, NEW c, c.delay \in 1 .. MaxDelay, c.away \in BOOLEAN,
         Settleable(s, e)
  PROVE  Settled(s, Settle(s, e, c), e)
<1> DEFINE s1 == AnchorRecovery(s, e, c)
           r == lifecycle(s1, c.away)
           a == adapter(c.delay)
           d == transition(r, e, a)
           first == Decide(s1, r, e, c)
           t1 == first.db
           answer == Answer(t1, first.command)
           d2 == transition(d.row, answer, a)
           second == Decide(t1, d.row, answer, c)
           t2 == second.db
<1>1. /\ s \in Db /\ s1 \in Db /\ s1.parent = s.parent /\ s1.attempt = s.attempt
      /\ s1.order.state = s.order.state
      /\ s1.order.next_action_at = s.order.next_action_at
      /\ s1.order.observe_count = s.order.observe_count
      /\ s1.order.current_attempt = s.order.current_attempt
      /\ retry_scheduled(s1) = retry_scheduled(s) /\ Columns(s1)
  BY SMTT(60), AnchorFields DEF Settleable
<1>2. /\ r \in Row /\ r.state = CoreState(s1)
      /\ r.attempt = s1.order.current_attempt /\ r.fence = s1.order.current_attempt
      /\ r.observe_count = s1.order.observe_count
      /\ r.effect = "established" <=> s1.order.state = "succeeded"
      /\ r.effect = "none" => s1.order.current_attempt = 0
  BY SMTT(60), <1>1, LifecycleFields
<1>3. Settle(s, e, c) = IF first.command \in {"observe", "stop"}
                        THEN Decide(t1, first.row, answer, c).db ELSE t1
  BY ZenonT(60) DEF Settle, Anchored, Answered, Asks
<1> HIDE DEF s1, r
<1>4. /\ CoreState(s1) \in State
      /\ CoreState(s1) \in Terminal <=> s1.order.state \in Terminal
      /\ CoreState(s1) \in Terminal => CoreState(s1) = s1.order.state
      /\ CoreState(s1) = "running" <=> s1.order.state = "running"
      /\ CoreState(s1) = "backoff" => retry_scheduled(s1)
      /\ CoreState(s1) = "queued" <=> s1.order.state = "queued"
      /\ CoreState(s1) = "observing" => s1.order.observe_count > 0
  BY ZenonT(60), <1>1, CoreStateFacts
<1>5. Decidable(s1, r, e)
  BY SMTT(30), <1>1, <1>2, <1>4 DEF Decidable, OrderEvent, Settleable
<1>6. /\ first.row = d.row /\ first.command = d.command
      /\ d.row \in Row /\ Seated(d.row) /\ d.row.attempt = s1.order.current_attempt
      /\ Lawful(r, a, d, SaysNone(e), SaysEstablished(e))
      /\ t1 \in Db /\ Columns(t1) /\ t1.parent = s1.parent
      /\ t1.order.current_attempt = s1.order.current_attempt
      /\ t1.attempt.result = s1.attempt.result
      /\ t1.attempt.state # "running" /\ t1.order.state # "running"
      /\ r.state \in Terminal => t1 = s1
      /\ t1.order.state = "succeeded" => t1 = s1 \/ d.row.state = "succeeded"
      /\ retry_scheduled(t1) => t1 = s1 \/ d.row.state \in Ready
  <2>1. LawfullyStored(s1, r, e, c)
    BY Zenon, <1>5, DecideContract
  <2>2. QED
    BY Zenon, <2>1 DEF LawfullyStored
<1>7. /\ a.irreversible <=> kind = "job"
      /\ a.actions = {} /\ s.order.current_attempt \in Nat
  BY SMTT(30), <1>1, AdapterType, DbFields, Constants
<1> HIDE DEF d, a, first, t1
<1>8. Settled(s, t1, e)
  <2>1. t1.order.state = "succeeded" => s.order.state = "succeeded" \/ SaysEstablished(e)
    BY ZenonT(60), <1>1, <1>2, <1>4, <1>6 DEF Lawful, Terminal
  <2>2. kind = "job" /\ s.order.current_attempt > 0 /\ retry_scheduled(t1)
          => retry_scheduled(s) \/ SaysNone(e)
    BY SMTT(60), <1>1, <1>2, <1>4, <1>6, <1>7 DEF Lawful, Ready, Columns
  <2>3. QED
    BY ZenonT(60), <1>1, <1>2, <1>4, <1>6, <2>1, <2>2 DEF Settled
<1>9. CASE first.command \notin {"observe", "stop"}
  BY <1>3, <1>8, <1>9
<1>10. CASE first.command \in {"observe", "stop"}
  <2>1. d.row.state = "observing" /\ d.row.observe_count > 0
    BY ZenonT(60), <1>6, <1>10 DEF Lawful, Seated
  <2>2. r.state \notin Terminal /\ s.order.state \notin Terminal
    <3>1. r.state \in Terminal => d.row = r
      BY SMTT(60), TerminalAbsorbs DEF d, Decision
    <3>2. QED
      BY <1>1, <1>2, <1>4, <2>1, <3>1 DEF Terminal
  <2>3. /\ WellFormed(answer) /\ answer.kind = "observed" /\ ~SaysEstablished(answer)
        /\ SaysNone(answer) => t1.attempt.result = "pending"
    BY SMTT(60), <1>6, AnswerFacts
  <2> HIDE DEF answer
  <2>4. Decidable(t1, d.row, answer)
    BY ZenonT(60), <1>6, <2>1, <2>3 DEF Decidable, OrderEvent
  <2>5. Settle(s, e, c) = t2
    BY SMTT(30), <1>3, <1>6, <1>10
  <2>6. /\ Lawful(d.row, a, d2, SaysNone(answer), SaysEstablished(answer))
        /\ t2 \in Db /\ Columns(t2) /\ t2.parent = t1.parent
        /\ t2.order.current_attempt = t1.order.current_attempt
        /\ t2.attempt.result = t1.attempt.result
        /\ t2.attempt.state # "running" /\ t2.order.state # "running"
        /\ t2.order.state = "succeeded" => t2 = t1 \/ d2.row.state = "succeeded"
        /\ retry_scheduled(t2) => t2 = t1 \/ d2.row.state \in Ready
    <3>1. LawfullyStored(t1, d.row, answer, c)
      BY Zenon, <2>4, DecideContract
    <3>2. QED
      BY Zenon, <3>1 DEF LawfullyStored, a
  <2> HIDE DEF second, t2, d2
  <2>7. t2.order.state = "succeeded" => SaysEstablished(e)
    <3>1. d2.row.state = "succeeded" => d.row.effect = "established"
      BY ZenonT(60), <2>1, <2>3, <2>6, LawfulEvidence
    <3>2. d.row.effect = "established" => SaysEstablished(e)
      <4>1. d.row.effect = "established" => r.effect = "established" \/ SaysEstablished(e)
        BY ZenonT(60), <1>6, LawfulEvidence
      <4>2. QED
        BY SMTT(60), <1>1, <1>2, <2>2, <4>1 DEF Terminal
    <3>3. t1.order.state = "succeeded" => SaysEstablished(e)
      BY ZenonT(60), <1>8, <2>2 DEF Settled, Terminal
    <3>4. QED
      BY Zenon, <2>6, <3>1, <3>2, <3>3
  <2>8. kind = "job" /\ s.order.current_attempt > 0 /\ retry_scheduled(t2)
          => retry_scheduled(s) \/ SaysNone(e) \/ s.attempt.result = "pending"
    <3>1. SUFFICES ASSUME kind = "job", s.order.current_attempt > 0, retry_scheduled(t2),
                          t2 # t1
                   PROVE  SaysNone(e) \/ s.attempt.result = "pending"
      BY ZenonT(60), <1>8 DEF Settled
    <3>2. d2.row.state \in Ready
      BY ZenonT(60), <2>6, <3>1
    <3>3. d.row.effect = "none" \/ SaysNone(answer)
      BY ZenonT(60), <1>1, <1>6, <1>7, <2>1, <2>6, <3>1, <3>2 DEF Lawful, Ready
    <3>4. d.row.effect = "none" => SaysNone(e)
      BY SMTT(60), <1>1, <1>2, <1>6, <1>7, <3>1 DEF Lawful
    <3>5. QED
      BY ZenonT(60), <1>1, <1>6, <2>3, <3>3, <3>4
  <2>9. Settled(s, t2, e)
    BY ZenonT(60), <1>1, <1>6, <2>2, <2>6, <2>7, <2>8 DEF Settled
  <2>10. QED
    BY SMTT(60), <2>5, <2>9
<1>11. QED
  BY SMTT(60), <1>9, <1>10

(***************************************************************************)
(* The parent job.                                                         *)
(***************************************************************************)
\* Settled, with the parent following.
Followed(s, t, e) ==
    /\ t \in Db /\ Columns(t) /\ ParentOk(t) /\ LiveTogether(t)
    /\ t.order.current_attempt = s.order.current_attempt
    /\ t.attempt.result = s.attempt.result
    /\ s.order.state \in Terminal => t.order.state = s.order.state
    /\ t.order.state = "succeeded" => s.order.state = "succeeded" \/ SaysEstablished(e)
    /\ kind = "job" /\ s.order.current_attempt > 0 /\ retry_scheduled(t)
         => retry_scheduled(s) \/ SaysNone(e) \/ s.attempt.result = "pending"

\* A cancellation is an event the core accepts, and proves nothing.
LEMMA CancelEvent ==
  /\ WellFormed(CancelRequested) /\ CancelRequested.kind = "cancel-requested"
  /\ ~SaysNone(CancelRequested) /\ ~SaysEstablished(CancelRequested)
BY SMTT(60) DEF CancelRequested, WellFormed, SaysNone, SaysEstablished

\* The parent's own state is the only column set_parent_state writes.
LEMMA SetParentFields ==
  ASSUME NEW s \in Db, NEW state \in {"live"} \cup Terminal
  PROVE  LET t == set_parent_state(s, state) IN
         /\ t \in Db /\ t.order = s.order /\ t.attempt = s.attempt
         /\ t.parent.state = IF ParentEnded(s) THEN s.parent.state ELSE state
         /\ t.parent.cancel_deadline = s.parent.cancel_deadline
         /\ t.parent.sibling_failed = s.parent.sibling_failed
<1> DEFINE p == [s.parent EXCEPT !.state = state]
           u == [s EXCEPT !.parent = p]
<1>1. s.parent \in ParentRow
  BY DbFields
<1>2. /\ p \in ParentRow /\ p.state = state
      /\ p.cancel_deadline = s.parent.cancel_deadline
      /\ p.sibling_failed = s.parent.sibling_failed
  BY <1>1 DEF ParentRow
<1>3. set_parent_state(s, state) = IF ParentEnded(s) THEN s ELSE u
  BY DEF set_parent_state, Db
<1> HIDE DEF p
<1>4. u \in Db /\ u.order = s.order /\ u.attempt = s.attempt /\ u.parent = p
  BY ZenonT(60), <1>2 DEF Db
<1> HIDE DEF u
<1>5. QED
  BY SMTT(60), <1>2, <1>3, <1>4

\* The verdict of the children: success only of a succeeded order.
LEMMA VerdictFacts ==
  ASSUME NEW s \in Db
  PROVE  /\ Verdict(s) \in {"live"} \cup Terminal
         /\ Verdict(s) = "succeeded" => s.order.state = "succeeded"
         /\ s.order.state \in Terminal => Verdict(s) \in Terminal
BY DbFields DEF Verdict, Terminal, Parked, retry_scheduled

\* _aggregate_parent: the parent ends with its order, never ahead of its success.
LEMMA AggregateContract ==
  ASSUME NEW s \in Db, Columns(s), LiveTogether(s), NoFalseSuccess(s),
         NEW c, c.delay \in 1 .. MaxDelay, c.away \in BOOLEAN
  PROVE  Followed(s, _aggregate_parent(s, c), CancelRequested)
<1> DEFINE verdict == Verdict(s)
           next == set_parent_state(s, verdict)
<1>1. /\ verdict \in {"live"} \cup Terminal
      /\ verdict = "succeeded" => s.order.state = "succeeded"
      /\ s.order.state \in Terminal => verdict \in Terminal
  BY VerdictFacts
<1>2. /\ next \in Db /\ next.order = s.order /\ next.attempt = s.attempt
      /\ next.parent.state = IF ParentEnded(s) THEN s.parent.state ELSE verdict
  BY Zenon, <1>1, SetParentFields
<1>3. _aggregate_parent(s, c) =
        IF verdict = "failed" /\ kind = "transfer" /\ s.order.state \in Parked
        THEN Settle(next, CancelRequested, c) ELSE next
  BY SMTT(60) DEF _aggregate_parent
<1> HIDE DEF verdict, next
<1>4. Columns(next) /\ LiveTogether(next) /\ retry_scheduled(next) = retry_scheduled(s)
  BY <1>2 DEF Columns, LiveTogether, retry_scheduled
<1>5. CASE verdict = "failed" /\ kind = "transfer" /\ s.order.state \in Parked
  <2> DEFINE t == Settle(next, CancelRequested, c)
  <2>1. s.order.state \notin {"running"} \cup Terminal
    BY ZenonT(60), <1>5 DEF Parked, Terminal
  <2>2. Settleable(next, CancelRequested)
    BY SMTT(60), <1>2, <1>4, <2>1, CancelEvent DEF Settleable, LiveTogether
  <2>3. Settled(next, t, CancelRequested)
    BY ZenonT(60), <2>2, SettleContract
  <2> HIDE DEF t
  <2>4. t.parent.state \notin {"live", "succeeded"}
    BY ZenonT(60), <1>2, <1>5, <2>1, <2>3 DEF Settled, ParentEnded, NoFalseSuccess, Terminal
  <2>5. ParentOk(t) /\ LiveTogether(t)
    BY ZenonT(60), <2>3, <2>4 DEF ParentOk, ParentEnded, LiveTogether, Settled
  <2>6. Followed(s, t, CancelRequested)
    BY ZenonT(60), <1>2, <1>4, <2>3, <2>5 DEF Followed, Settled
  <2>7. QED
    BY SMTT(60), <1>3, <1>5, <2>6 DEF t
<1>6. CASE ~(verdict = "failed" /\ kind = "transfer" /\ s.order.state \in Parked)
  <2>1. ParentOk(next)
    BY <1>1, <1>2 DEF ParentOk, ParentEnded, NoFalseSuccess, Terminal
  <2>2. QED
    BY ZenonT(60), <1>2, <1>3, <1>4, <1>6, <2>1 DEF Followed
<1>7. QED
  BY SMTT(60), <1>5, <1>6

\* Settle and aggregate: the rows a handler commits.
LEMMA SettleAndAggregateContract ==
  ASSUME NEW s, NEW e, NEW c, c.delay \in 1 .. MaxDelay, c.away \in BOOLEAN,
         Settleable(s, e), NoFalseSuccess(s)
  PROVE  Followed(s, SettleAndAggregate(s, e, c), e)
<1> DEFINE t == Settle(s, e, c)
           u == _aggregate_parent(t, c)
<1>1. Settled(s, t, e)
  BY SettleContract
<1>2. SettleAndAggregate(s, e, c) = u
  BY SMTT(60) DEF SettleAndAggregate
<1> HIDE DEF t
<1>3. t \in Db /\ Columns(t) /\ LiveTogether(t) /\ NoFalseSuccess(t)
  BY <1>1 DEF Settled, LiveTogether, NoFalseSuccess, Terminal
<1>4. Followed(t, u, CancelRequested)
  BY ZenonT(60), <1>3, AggregateContract
<1> HIDE DEF u
<1>5. Followed(s, u, e)
  BY <1>1, <1>4, CancelEvent DEF Followed, Settled
<1>6. QED
  BY <1>2, <1>5

(***************************************************************************)
(* The rows handlers settle.                                               *)
(***************************************************************************)
\* The same rows under another attempt row.
LEMMA AttemptChange ==
  ASSUME NEW s \in Db, NEW att \in AttemptRow
  PROVE  LET t == [s EXCEPT !.attempt = att] IN
         /\ t \in Db /\ t.order = s.order /\ t.parent = s.parent /\ t.attempt = att
         /\ retry_scheduled(t) = retry_scheduled(s)
BY ZenonT(60) DEF Db, retry_scheduled

\* expire_attempt fences the attempt and leaves the rest.
LEMMA ExpireFields ==
  ASSUME NEW s \in Db
  PROVE  LET t == expire_attempt(s) IN
         /\ t \in Db /\ t.order = s.order /\ t.parent = s.parent
         /\ t.attempt.state # "running" /\ t.attempt.result = s.attempt.result
         /\ t.attempt.lease_deadline = s.attempt.lease_deadline
         /\ retry_scheduled(t) = retry_scheduled(s)
         /\ Columns(s) => Columns(t)
         /\ NoFalseSuccess(s) => NoFalseSuccess(t)
<1> DEFINE att == IF s.attempt.state \in {"running", "reported-unknown"}
                  THEN lapse(s.attempt) ELSE s.attempt
<1>1. /\ att \in AttemptRow /\ att.state # "running" /\ att.result = s.attempt.result
      /\ att.lease_deadline = s.attempt.lease_deadline
  BY DbFields, LapseFields
<1>2. expire_attempt(s) = [s EXCEPT !.attempt = att]
  BY DEF expire_attempt, Db
<1> HIDE DEF att
<1>3. /\ expire_attempt(s) \in Db /\ expire_attempt(s).order = s.order
      /\ expire_attempt(s).parent = s.parent /\ expire_attempt(s).attempt = att
      /\ retry_scheduled(expire_attempt(s)) = retry_scheduled(s)
  BY SMTT(60), <1>1, <1>2, AttemptChange
<1>4. QED
  BY ZenonT(60), <1>1, <1>3 DEF Columns, NoFalseSuccess

\* end_unobserved_order on any stored rows.
LEMMA EndUnobservedContract ==
  ASSUME NEW s \in Db, Columns(s), NoFalseSuccess(s),
         NEW c, c.delay \in 1 .. MaxDelay, c.away \in BOOLEAN
  PROVE  Followed(s, end_unobserved_order(s, c), CancelRequested)
<1> DEFINE x == expire_attempt(s)
<1>1. /\ x \in Db /\ x.order = s.order /\ x.parent = s.parent
      /\ x.attempt.state # "running" /\ x.attempt.result = s.attempt.result
      /\ retry_scheduled(x) = retry_scheduled(s) /\ Columns(x) /\ NoFalseSuccess(x)
  BY ExpireFields
<1>2. end_unobserved_order(s, c) = SettleAndAggregate(x, CancelRequested, c)
  BY SMTT(60) DEF end_unobserved_order
<1> HIDE DEF x
<1>3. Settleable(x, CancelRequested)
  BY ZenonT(60), <1>1, CancelEvent DEF Settleable
<1>4. Followed(x, SettleAndAggregate(x, CancelRequested, c), CancelRequested)
  BY <1>1, <1>3, SettleAndAggregateContract
<1>5. QED
  BY ZenonT(60), <1>1, <1>2, <1>4 DEF Followed

\* A report closes its attempt.
LEMMA WireStates ==
  ASSUME NEW report \in Report
  PROVE  WireState(report) \in AttemptState /\ WireState(report) # "running"
BY ZenonT(60) DEF WireState, AttemptState, Report

\* record_report stores the receipt and, of undelivered output, the custody.
LEMMA RecordFields ==
  ASSUME NEW s \in Db, NEW report \in Report
  PROVE  LET t == record_report(s, report) IN
         /\ t \in Db /\ t.parent = s.parent
         /\ t.order.state = s.order.state
         /\ t.order.current_attempt = s.order.current_attempt
         /\ t.attempt.state # "running" /\ t.attempt.result = report
         /\ retry_scheduled(t) = retry_scheduled(s)
         /\ Columns(s) => Columns(t)
         /\ NoFalseSuccess(s) => NoFalseSuccess(t)
<1> DEFINE att == [s.attempt EXCEPT !.state = WireState(report), !.result = report]
           v == IF s.order.output_delivery_only THEN s.order.recovery_deadline ELSE RETENTION
           o == [s.order EXCEPT !.output_delivery_only = TRUE, !.recovery_deadline = v]
           t == record_report(s, report)
<1>1. s.attempt \in AttemptRow /\ s.order \in OrderRow
  BY DbFields
<1>2. /\ att \in AttemptRow /\ att.state # "running" /\ att.result = report
      /\ att.lease_deadline = s.attempt.lease_deadline
  BY Zenon, <1>1, WireStates DEF AttemptRow
<1>3. v \in Timer
  BY DbFields, Constants, Timers
<1>4. /\ o \in OrderRow /\ o.state = s.order.state
      /\ o.next_action_at = s.order.next_action_at
      /\ o.observe_count = s.order.observe_count
      /\ o.current_attempt = s.order.current_attempt
  BY Zenon, <1>1, <1>3 DEF OrderRow
<1>5. t \in {[s EXCEPT !.attempt = att], [s EXCEPT !.attempt = att, !.order = o]}
  BY ZenonT(60) DEF record_report, Db
<1> HIDE DEF att, v, o, t
<1>6. t \in Db /\ t.parent = s.parent /\ t.attempt = att /\ t.order \in {s.order, o}
  BY ZenonT(60), <1>2, <1>4, <1>5 DEF Db
<1>7. QED
  BY SMTT(60), <1>2, <1>4, <1>6 DEF retry_scheduled, Columns, NoFalseSuccess, t

\* What a report claims.
LEMMA ReportEventFacts ==
  ASSUME NEW s \in Db, NEW report \in Report
  PROVE  LET e == _report_event(s, report) IN
         /\ WellFormed(e) /\ e.kind = "reported" /\ e.fence = s.order.current_attempt
         /\ SaysNone(e) => report \in {"pending", "not-launched"}
         /\ SaysEstablished(e) => report = "done"
<1> DEFINE e == _report_event(s, report)
           fence == s.order.current_attempt
<1>1. \/ e = Reported("done", fence, FALSE, NoEffect) /\ report = "done"
      \/ e = Reported("cancelled", fence, FALSE, NoEffect)
      \/ e = Reported("failed", fence, TRUE, "none") /\ report = "pending"
      \/ e = Reported("failed", fence, FALSE, NoEffect)
      \/ e = Reported("unknown", fence, FALSE, NoEffect)
      \/ /\ report = "not-launched"
         /\ \/ e = Reported("failed", fence, ~CancelFlag(s), "none")
            \/ e = Reported("failed", fence, ~CancelFlag(s), NoEffect)
  BY ZenonT(60) DEF _report_event
<1> HIDE DEF e
<1>2. QED
  BY <1>1, Literals
     DEF Reported, WellFormed, SaysNone, SaysEstablished, Effect, NoEffect, e

(***************************************************************************)
(* From one handler's rows to the next.                                    *)
(***************************************************************************)
\* The transaction neither changes the attempt nor the outcome of an ended order.
Keeps(t) ==
    /\ t.order.current_attempt = db.order.current_attempt
    /\ db.order.state \in Terminal => t.order.state = db.order.state

\* The rows a handler hands to the settle: the stored ones up to its own edits.
Handed(s) ==
    /\ s \in Db /\ Keeps(s)
    /\ ReceiptIsTrue(s) /\ SuccessIsFinished(s) /\ RetryIsProven(s)

\* What the handler was told is what the executor did.
Told(e) ==
    LET n == db.order.current_attempt IN
    /\ SaysEstablished(e) => n > 0 /\ exec[n] \in Finished
    /\ SaysNone(e) /\ kind = "job" /\ n > 0 => exec[n] \in Over

\* Settled rows are sound when they were handed over truthfully.
LEMMA FollowedIsSound ==
  ASSUME NEW s, NEW t, NEW e, Handed(s), Told(e), Followed(s, t, e)
  PROVE  Sound(t) /\ Keeps(t)
<1>1. Keeps(t)
  BY ZenonT(60) DEF Handed, Keeps, Followed
<1>2. t.order.current_attempt = s.order.current_attempt
      /\ t.order.current_attempt = db.order.current_attempt
  BY ZenonT(60) DEF Handed, Keeps, Followed
<1>3. ReceiptIsTrue(t)
  BY ZenonT(60), <1>2 DEF Handed, ReceiptIsTrue, Evidence, Followed
<1>4. SuccessIsFinished(t)
  BY <1>2 DEF Handed, SuccessIsFinished, Followed, Told
<1>5. s.attempt.result = "pending" => exec[s.order.current_attempt] \in Over
  BY ZenonT(60) DEF Handed, ReceiptIsTrue, Evidence, Over, Finished
<1>6. RetryIsProven(t)
  BY ZenonT(60), <1>2, <1>5 DEF Handed, RetryIsProven, Followed, Told
<1>7. QED
  BY ZenonT(60), <1>1, <1>3, <1>4, <1>6 DEF Sound, Followed

\* The same for rows settled without aggregating the parent.
LEMMA SettledIsHanded ==
  ASSUME NEW s, NEW t, NEW e, Handed(s), Told(e), Settled(s, t, e)
  PROVE  Handed(t) /\ Columns(t) /\ LiveTogether(t)
<1>1. Keeps(t) /\ t \in Db
  BY ZenonT(60) DEF Handed, Keeps, Settled
<1>2. t.order.current_attempt = s.order.current_attempt
      /\ t.order.current_attempt = db.order.current_attempt
  BY ZenonT(60) DEF Handed, Keeps, Settled
<1>3. ReceiptIsTrue(t)
  BY ZenonT(60), <1>2 DEF Handed, ReceiptIsTrue, Evidence, Settled
<1>4. SuccessIsFinished(t)
  BY ZenonT(60), <1>2 DEF Handed, SuccessIsFinished, Settled, Told
<1>5. s.attempt.result = "pending" => exec[s.order.current_attempt] \in Over
  BY SMTT(60) DEF Handed, ReceiptIsTrue, Evidence, Over, Finished
<1>6. RetryIsProven(t)
  BY <1>2, <1>5 DEF Handed, RetryIsProven, Settled, Told
<1>7. QED
  BY ZenonT(60), <1>1, <1>3, <1>4, <1>6 DEF Handed, Settled, LiveTogether

\* A handler that leaves the executor and the pass alone keeps the invariant
\* when the rows it commits are sound.
LEMMA RowsStep ==
  ASSUME Inv, Sound(db'), Keeps(db'), node' \in Node,
         UNCHANGED <<kind, exec>>
  PROVE  /\ Sound(db)' /\ NoOverlap'
         /\ pass' = pass => Inv'
         /\ pass' \in Pass /\ CarriedIsProven' => Inv'
<1>1. Sound(db)'
  BY DEF Sound, ReceiptIsTrue, Evidence, SuccessIsFinished, RetryIsProven, Columns,
         LiveTogether, ParentOk, ParentEnded, retry_scheduled
<1>2. NoOverlap'
  BY DEF Inv, NoOverlap, Keeps
<1>3. TypeOK' \/ pass' \notin Pass
  BY ZenonT(60) DEF Inv, TypeOK, Sound
<1>4. pass' = pass => CarriedIsProven'
  BY DEF Inv, CarriedIsProven, Keeps, Asks
<1>5. pass' = pass => pass' \in Pass
  BY DEF Inv, TypeOK
<1>6. QED
  BY ZenonT(60), <1>1, <1>2, <1>3, <1>4, <1>5 DEF Inv

\* What every transaction starts from.
LEMMA StoredRows ==
  ASSUME Inv
  PROVE  /\ Sound(db) /\ Handed(db) /\ NoFalseSuccess(db)
         /\ db \in Db /\ Columns(db) /\ LiveTogether(db) /\ Keeps(db)
         /\ db.order.current_attempt \in 0 .. MaxAttempts
         /\ node \in Node /\ Present \in Node /\ AwayNow \in BOOLEAN
BY Zenon, DbFields DEF Inv, Sound, Handed, NoFalseSuccess, ParentOk, Keeps, TypeOK, Node,
   Present, AwayNow

\* The choices of one transaction.
LEMMA CircumstanceFields ==
  ASSUME NEW away \in BOOLEAN, NEW c \in Circumstances(away)
  PROVE  c.delay \in 1 .. MaxDelay /\ c.away \in BOOLEAN
BY ZenonT(60), OrderAssumption DEF Circumstances

\* Events that claim nothing about the effect.
Plain(e) == WellFormed(e) /\ ~SaysNone(e) /\ ~SaysEstablished(e)

\* The events of the sweeps and of a cancellation claim nothing.
LEMMA PlainEvents ==
  /\ Plain(CancelRequested) /\ CancelRequested.kind = "cancel-requested"
  /\ Plain(LeaseLapsed) /\ LeaseLapsed.kind = "lease-lapsed"
  /\ Plain(Tick) /\ Tick.kind = "tick"
  /\ \A outcome \in {"unknown", "failed", "cancelled"} :
       LET e == Reported(outcome, 0, FALSE, NoEffect) IN
       Plain(e) /\ e.kind = "reported" /\ e.fence = 0
BY Literals DEF Plain, CancelRequested, LeaseLapsed, Tick, Reported, WellFormed, SaysNone,
       SaysEstablished, Effect, NoEffect

\* A handler that settles truthful rows with such an event commits sound rows.
LEMMA PlainSettle ==
  ASSUME NEW s, NEW e, NEW c, c.delay \in 1 .. MaxDelay, c.away \in BOOLEAN,
         Handed(s), NoFalseSuccess(s), Settleable(s, e), Plain(e)
  PROVE  LET t == SettleAndAggregate(s, e, c) IN Sound(t) /\ Keeps(t)
<1>1. Followed(s, SettleAndAggregate(s, e, c), e)
  BY SMTT(60), SettleAndAggregateContract
<1>2. Told(e)
  BY ZenonT(60) DEF Plain, Told
<1> HIDE DEF Handed, Told, Followed
<1>3. QED
  BY SMTT(60), <1>1, <1>2, FollowedIsSound

\* The stored rows with the attempt fenced.
LEMMA ExpiredRows ==
  ASSUME Inv
  PROVE  LET s == expire_attempt(db) IN
         /\ s \in Db /\ Handed(s) /\ NoFalseSuccess(s) /\ Columns(s)
         /\ s.attempt.state # "running" /\ s.order = db.order /\ s.parent = db.parent
         /\ s.attempt.result = db.attempt.result
<1> DEFINE s == expire_attempt(db)
<1>1. Handed(db) /\ NoFalseSuccess(db) /\ db \in Db /\ Columns(db)
  BY ZenonT(60), StoredRows
<1>2. /\ s \in Db /\ s.order = db.order /\ s.parent = db.parent
      /\ s.attempt.state # "running" /\ s.attempt.result = db.attempt.result
      /\ retry_scheduled(s) = retry_scheduled(db) /\ Columns(s) /\ NoFalseSuccess(s)
  BY ZenonT(60), <1>1, ExpireFields
<1> HIDE DEF s
<1>3. Handed(s)
  BY <1>1, <1>2 DEF Handed, Keeps, ReceiptIsTrue, Evidence, SuccessIsFinished,
     RetryIsProven
<1>4. QED
  BY ZenonT(60), <1>2, <1>3 DEF s

(***************************************************************************)
(* The requests of the Spark: the rows each of them commits.               *)
(***************************************************************************)
\* A handler that records a contact or leaves the Spark alone.
Commits == Sound(db') /\ Keeps(db') /\ node' \in Node /\ UNCHANGED <<kind, exec>>

\* Ending what nobody can observe any more commits sound rows.
LEMMA EndUnobservedStep ==
  ASSUME Inv, NEW c, c.delay \in 1 .. MaxDelay, c.away \in BOOLEAN
  PROVE  Sound(end_unobserved_order(db, c)) /\ Keeps(end_unobserved_order(db, c))
<1>1. Followed(db, end_unobserved_order(db, c), CancelRequested)
  BY StoredRows, EndUnobservedContract
<1>2. Told(CancelRequested)
  BY PlainEvents DEF Plain, Told
<1>3. QED
  BY ZenonT(60), <1>1, <1>2, StoredRows, FollowedIsSound

\* A claim ends an order whose start budget is spent.
LEMMA ClaimFailsSpentBudgetStep ==
  ASSUME Inv, ClaimFailsSpentBudget
  PROVE  Commits
<1> DEFINE att == [db.attempt EXCEPT !.state = "failed", !.result = "refused"]
           s == [db EXCEPT !.attempt = att]
           e == Reported("failed", 0, FALSE, NoEffect)
<1>1. PICK c \in Circumstances(AwayNow) : db' = SettleAndAggregate(s, e, c)
  BY Zenon, StoredRows DEF ClaimFailsSpentBudget, Db
<1>2. c.delay \in 1 .. MaxDelay /\ c.away \in BOOLEAN
  BY SMTT(60), StoredRows, CircumstanceFields
<1>3. db.order.current_attempt > 0 /\ db.order.state \in {"running"} \cup Parked
  BY DEF ClaimFailsSpentBudget, SpentStartBudget
<1>4. /\ att \in AttemptRow /\ att.state = "failed" /\ att.result = "refused"
      /\ att.lease_deadline = db.attempt.lease_deadline
  BY Zenon, StoredRows, DbFields DEF AttemptRow, AttemptState, Report
<1>5. Plain(e) /\ e.kind = "reported" /\ e.fence = 0
  BY Zenon, PlainEvents
<1> HIDE DEF att, e
<1>6. /\ s \in Db /\ s.order = db.order /\ s.parent = db.parent /\ s.attempt = att
      /\ retry_scheduled(s) = retry_scheduled(db)
  BY ZenonT(60), <1>4, StoredRows, AttemptChange
<1> HIDE DEF s
<1>7. Handed(s)
  BY ZenonT(60), <1>3, <1>4, <1>6, StoredRows
     DEF Handed, Keeps, ReceiptIsTrue, Evidence, SuccessIsFinished, RetryIsProven
<1>8. NoFalseSuccess(s) /\ Settleable(s, e)
  BY ZenonT(60), <1>3, <1>4, <1>5, <1>6, StoredRows DEF NoFalseSuccess, Settleable, Columns, Plain
<1>9. Sound(db') /\ Keeps(db')
  BY ZenonT(60), <1>1, <1>2, <1>5, <1>7, <1>8, PlainSettle
<1>10. QED
  BY Zenon, <1>9, StoredRows DEF Commits, ClaimFailsSpentBudget

\* A claim settles the lapsed attempt it finds running.
LEMMA ClaimLapsedRunningStep ==
  ASSUME Inv, ClaimLapsedRunning
  PROVE  Commits
<1> DEFINE s == expire_attempt(db)
<1>1. PICK c \in Circumstances(FALSE) : db' = SettleAndAggregate(s, LeaseLapsed, c)
  BY Zenon DEF ClaimLapsedRunning
<1>2. c.delay \in 1 .. MaxDelay /\ c.away \in BOOLEAN
  BY Zenon, CircumstanceFields
<1>3. Handed(s) /\ NoFalseSuccess(s) /\ Columns(s) /\ s \in Db /\ s.attempt.state # "running"
  BY ExpiredRows
<1> HIDE DEF s
<1>4. Settleable(s, LeaseLapsed) /\ Plain(LeaseLapsed)
  BY <1>3, PlainEvents DEF Settleable, Plain
<1>5. Sound(db') /\ Keeps(db')
  BY ZenonT(60), <1>1, <1>2, <1>3, <1>4, PlainSettle
<1>6. QED
  BY <1>5, StoredRows DEF Commits, ClaimLapsedRunning

\* A claim schedules a parked restart-safe order again, and issues nothing.
LEMMA ClaimParkedRecoveryStep ==
  ASSUME Inv, ClaimParkedRecovery
  PROVE  Commits
<1> DEFINE e == Reported("unknown", 0, FALSE, NoEffect)
<1>1. PICK c \in Circumstances(FALSE) : db' = SettleAndAggregate(db, e, c)
  BY Zenon DEF ClaimParkedRecovery
<1>2. c.delay \in 1 .. MaxDelay /\ c.away \in BOOLEAN
  BY Zenon, CircumstanceFields
<1>3. Plain(e) /\ e.kind = "reported" /\ e.fence = 0
  BY Zenon, PlainEvents
<1> HIDE DEF e
<1>4. db.order.state # "running" /\ db.attempt.state # "running"
  BY StoredRows DEF ClaimParkedRecovery, Parked, LiveTogether
<1>5. Settleable(db, e)
  BY ZenonT(60), <1>3, <1>4, StoredRows DEF Settleable, Plain
<1>6. Sound(db') /\ Keeps(db')
  BY ZenonT(60), <1>1, <1>2, <1>3, <1>5, StoredRows, PlainSettle
<1>7. QED
  BY Zenon, <1>6, StoredRows DEF Commits, ClaimParkedRecovery

\* The order a claim is about to issue.
LEMMA DispatchableRows ==
  ASSUME Inv, db.order.state # "running"
  PROVE  LET s == Dispatchable(db) IN
         /\ s \in Db /\ Handed(s) /\ NoFalseSuccess(s) /\ Columns(s)
         /\ s.attempt.state # "running" /\ s.parent = db.parent
         /\ s.order.state = db.order.state
         /\ s.order.next_action_at = db.order.next_action_at
         /\ s.order.observe_count = db.order.observe_count
         /\ s.order.current_attempt = db.order.current_attempt
         /\ s.attempt.result = db.attempt.result
         /\ retry_scheduled(s) = retry_scheduled(db)
<1> DEFINE x == expire_attempt(db)
           v == IF kind = "start" /\ db.order.current_attempt = 0
                     /\ x.order.start_deadline = NoTime
                THEN START_BUDGET ELSE x.order.start_deadline
           o == [x.order EXCEPT !.start_deadline = v]
           s == Dispatchable(db)
<1>1. /\ x \in Db /\ Handed(x) /\ NoFalseSuccess(x) /\ Columns(x)
      /\ x.attempt.state # "running" /\ x.order = db.order /\ x.parent = db.parent
      /\ x.attempt.result = db.attempt.result
  BY ExpiredRows
<1>2. s = [x EXCEPT !.order = o]
  BY ZenonT(60), <1>1 DEF Dispatchable, Db
<1> HIDE DEF x, s
<1>3. v \in Timer /\ x.order \in OrderRow
  BY ZenonT(60), <1>1, DbFields, Constants, Timers
<1> HIDE DEF v
<1>4. /\ o \in OrderRow /\ o.state = x.order.state
      /\ o.next_action_at = x.order.next_action_at
      /\ o.observe_count = x.order.observe_count
      /\ o.current_attempt = x.order.current_attempt
  BY <1>3 DEF OrderRow
<1> HIDE DEF o
<1>5. s \in Db /\ s.order = o /\ s.attempt = x.attempt /\ s.parent = x.parent
  BY ZenonT(60), <1>1, <1>2, <1>4 DEF Db
<1>6. retry_scheduled(s) = retry_scheduled(x) /\ retry_scheduled(x) = retry_scheduled(db)
  BY ZenonT(60), <1>1, <1>4, <1>5 DEF retry_scheduled
<1>7. Handed(s)
  BY ZenonT(60), <1>1, <1>4, <1>5, <1>6
     DEF Handed, Keeps, ReceiptIsTrue, Evidence, SuccessIsFinished, RetryIsProven
<1>8. NoFalseSuccess(s) /\ Columns(s)
  BY ZenonT(60), <1>1, <1>4, <1>5 DEF NoFalseSuccess, Columns
<1>9. QED
  BY ZenonT(60), <1>1, <1>4, <1>5, <1>6, <1>7, <1>8 DEF s

\* What a claim finds when the order does not run.
LEMMA ClaimableRows ==
  ASSUME Inv, db.order.state # "running", _claim_predicate(db)
  PROVE  /\ db.order.state \notin {"running"} \cup Terminal
         /\ \/ db.order.state = "queued" /\ db.order.current_attempt = 0
            \/ retry_scheduled(db)
BY DEF _claim_predicate, retry_scheduled, Terminal

\* A claim puts off an order whose GPUs are taken.
LEMMA ClaimGpuWaitStep ==
  ASSUME Inv, ClaimGpuWait
  PROVE  Commits
<1> DEFINE s == Dispatchable(db)
           deadline == IF s.order.recovery_deadline # NoTime
                       THEN s.order.recovery_deadline
                       ELSE IF s.order.start_deadline # NoTime
                       THEN s.order.start_deadline ELSE RECOVERY_BUDGET
           o == [s.order EXCEPT !.recovery_deadline = deadline]
           bound == [s EXCEPT !.order = o]
           v == MinOf(WAIT_STEP, deadline)
           w == [o EXCEPT !.next_action_at = v]
           waits == [bound EXCEPT !.order = w]
<1>1. PICK c \in Circumstances(FALSE) : db' = GpuWait(s, c)
  BY ZenonT(60) DEF ClaimGpuWait
<1>2. c.delay \in 1 .. MaxDelay /\ c.away \in BOOLEAN
  BY Zenon, CircumstanceFields
<1>3. /\ s \in Db /\ Handed(s) /\ NoFalseSuccess(s) /\ Columns(s)
      /\ s.attempt.state # "running" /\ s.parent = db.parent
      /\ s.order.state = db.order.state
      /\ s.order.current_attempt = db.order.current_attempt
      /\ retry_scheduled(s) = retry_scheduled(db)
  BY ZenonT(60), DispatchableRows DEF ClaimGpuWait
<1>4. /\ db.order.state \notin {"running"} \cup Terminal
      /\ \/ db.order.state = "queued" /\ db.order.current_attempt = 0
         \/ retry_scheduled(db)
  BY ClaimableRows DEF ClaimGpuWait
<1> HIDE DEF s
<1>5. deadline \in Timer /\ v \in Timer /\ s.order \in OrderRow
  BY ZenonT(60), <1>3, DbFields, Constants, Timers, TimerMath
<1>6. GpuWait(s, c) = IF deadline = 0 THEN end_unobserved_order(bound, c) ELSE waits
  BY <1>3 DEF GpuWait, Db
<1> HIDE DEF deadline, v
<1>7. /\ o \in OrderRow /\ o.state = s.order.state
      /\ o.next_action_at = s.order.next_action_at
      /\ o.observe_count = s.order.observe_count
      /\ o.current_attempt = s.order.current_attempt
  BY <1>5 DEF OrderRow
<1> HIDE DEF o
<1>8. /\ w \in OrderRow /\ w.state = o.state /\ w.observe_count = o.observe_count
      /\ w.current_attempt = o.current_attempt
  BY ZenonT(60), <1>5, <1>7 DEF OrderRow
<1> HIDE DEF w
<1>9. /\ bound \in Db /\ bound.order = o /\ bound.attempt = s.attempt
      /\ bound.parent = s.parent
  BY ZenonT(60), <1>3, <1>7 DEF Db
<1> HIDE DEF bound
<1>10. /\ waits \in Db /\ waits.order = w /\ waits.attempt = s.attempt
       /\ waits.parent = s.parent
  BY ZenonT(60), <1>8, <1>9 DEF Db
<1> HIDE DEF waits
<1>11. ASSUME deadline = 0 PROVE Sound(db') /\ Keeps(db')
  <2>1. retry_scheduled(bound) = retry_scheduled(s)
    BY ZenonT(60), <1>7, <1>9 DEF retry_scheduled
  <2>2. Handed(bound)
    BY ZenonT(60), <1>3, <1>7, <1>9, <2>1
       DEF Handed, Keeps, ReceiptIsTrue, Evidence, SuccessIsFinished, RetryIsProven
  <2>3. NoFalseSuccess(bound) /\ Columns(bound)
    BY ZenonT(60), <1>3, <1>7, <1>9 DEF NoFalseSuccess, Columns
  <2>4. Followed(bound, end_unobserved_order(bound, c), CancelRequested)
    BY ZenonT(60), <1>2, <1>9, <2>3, EndUnobservedContract
  <2>5. Told(CancelRequested)
    BY SMTT(60), PlainEvents DEF Plain, Told
  <2>6. QED
    BY ZenonT(60), <1>1, <1>6, <1>11, <2>2, <2>4, <2>5, FollowedIsSound
<1>12. ASSUME deadline # 0 PROVE Sound(db') /\ Keeps(db')
  <2>1. Keeps(waits)
    BY ZenonT(60), <1>3, <1>4, <1>7, <1>8, <1>10 DEF Keeps
  <2>2. ReceiptIsTrue(waits)
    BY ZenonT(60), <1>3, <1>7, <1>8, <1>10 DEF ReceiptIsTrue, Evidence, Handed
  <2>3. SuccessIsFinished(waits) /\ Columns(waits) /\ LiveTogether(waits) /\ ParentOk(waits)
    BY ZenonT(60), <1>3, <1>4, <1>7, <1>8, <1>10
       DEF SuccessIsFinished, Columns, LiveTogether, ParentOk, NoFalseSuccess, Terminal
  <2>4. RetryIsProven(waits)
    BY ZenonT(60), <1>3, <1>4, <1>7, <1>8, <1>10 DEF RetryIsProven, Handed, retry_scheduled
  <2>5. QED
    BY ZenonT(60), <1>1, <1>6, <1>10, <1>12, <2>1, <2>2, <2>3, <2>4 DEF Sound
<1>13. Sound(db') /\ Keeps(db')
  BY SMTT(60), <1>11, <1>12
<1>14. QED
  BY ZenonT(60), <1>13, StoredRows DEF Commits, ClaimGpuWait

\* An order past its recovery deadline is decided instead of issued.
LEMMA ClaimDecides ==
  ASSUME Inv, ClaimStart, order_recovery_deadline(Dispatchable(db), FALSE) = 0
  PROVE  Commits
<1> DEFINE s == Dispatchable(db)
<1>1. PICK c \in Circumstances(FALSE) : db' = SettleAndAggregate(s, Tick, c)
  BY Zenon DEF ClaimStart
<1>2. exec' = exec
  BY DEF ClaimStart
<1>3. c.delay \in 1 .. MaxDelay /\ c.away \in BOOLEAN
  BY Zenon, CircumstanceFields
<1>4. /\ s \in Db /\ Handed(s) /\ NoFalseSuccess(s) /\ Columns(s)
      /\ s.attempt.state # "running" /\ s.order.state = db.order.state
  BY ZenonT(60), DispatchableRows DEF ClaimStart
<1> HIDE DEF s
<1>5. Settleable(s, Tick) /\ Plain(Tick)
  BY ZenonT(60), <1>4, PlainEvents DEF Settleable, Plain, ClaimStart
<1>6. Sound(db') /\ Keeps(db')
  BY ZenonT(60), <1>1, <1>3, <1>4, <1>5, PlainSettle
<1>7. QED
  BY SMTT(60), <1>2, <1>6, StoredRows DEF Commits, ClaimStart

\* A renewed lease is a timer and is never longer than the longest one granted.
LEMMA LeasedFields ==
  ASSUME NEW att \in AttemptRow, NEW t \in Timer, t <= LEASE_BOUND
  PROVE  /\ Leased(att, t) \in AttemptRow /\ Leased(att, t).state = att.state
         /\ Leased(att, t).result = att.result /\ Leased(att, t).lease_deadline = t
<1> DEFINE run == IF kind = "job" THEN t + JOB_BOUND ELSE NoTime
           keep == IF kind = "job" THEN t + RETENTION ELSE NoTime
<1>1. run \in Timer /\ keep \in Timer
  BY Constants DEF Timer, NoTime
<1>2. Leased(att, t) = [att EXCEPT !.lease_deadline = t, !.run_bound = run, !.custody = keep]
  BY DEF Leased
<1> HIDE DEF run, keep
<1>3. QED
  BY Zenon, <1>1, <1>2 DEF AttemptRow

\* A claim that issues: a new attempt of a job only when the earlier ones are over.
LEMMA ClaimIssues ==
  ASSUME Inv, ClaimStart, order_recovery_deadline(Dispatchable(db), FALSE) # 0
  PROVE  /\ Inv' /\ db.order.state \notin Terminal
<1> DEFINE s == Dispatchable(db)
           n == db.order.current_attempt + 1
           o == [s.order EXCEPT !.state = "running", !.current_attempt = n,
                                !.next_action_at = NoTime, !.observe_count = 0]
<1>1. /\ s \in Db /\ s.parent = db.parent
      /\ s.order.current_attempt = db.order.current_attempt
  BY DispatchableRows DEF ClaimStart
<1>2. /\ db.order.state \notin {"running"} \cup Terminal
      /\ \/ db.order.state = "queued" /\ db.order.current_attempt = 0
         \/ retry_scheduled(db)
  BY ClaimableRows DEF ClaimStart
<1>3. lifecycle(s, FALSE).attempt = db.order.current_attempt
  BY Zenon, <1>1, LifecycleFields
<1>4. /\ n <= MaxAttempts
      /\ db' = [s EXCEPT !.order = o, !.attempt = NewAttempt]
      /\ exec' = [exec EXCEPT ![n] = Issued(s)]
  BY ZenonT(60), <1>1, <1>3 DEF ClaimStart, Db
<1> HIDE DEF s
<1>5. db.order.current_attempt \in 0 .. MaxAttempts /\ n \in 1 .. MaxAttempts
  BY <1>4, StoredRows, Constants
<1> HIDE DEF n
<1>6. /\ o \in OrderRow /\ o.state = "running" /\ o.current_attempt = n
      /\ o.next_action_at = NoTime
  <2>1. s.order \in OrderRow /\ NoTime \in Timer /\ "running" \in State
    BY SMTT(60), <1>1, DbFields, Timers, Literals
  <2>2. n \in 0 .. MaxAttempts
    BY SMTT(60), <1>5, Constants
  <2>3. QED
    BY Zenon, <2>1, <2>2 DEF OrderRow
<1>7. /\ NewAttempt \in AttemptRow /\ NewAttempt.state = "running"
      /\ NewAttempt.lease_deadline = LEASE /\ NewAttempt.result = "none"
  <2> DEFINE fresh == [state |-> "running", lease_deadline |-> NoTime,
                       stall |-> NoTime, run_bound |-> NoTime, custody |-> NoTime,
                       result |-> "none"]
  <2>1. fresh \in AttemptRow /\ fresh.state = "running" /\ fresh.result = "none"
    BY Timers DEF AttemptRow, AttemptState
  <2>2. NewAttempt = Leased(fresh, LEASE)
    BY DEF NewAttempt
  <2> HIDE DEF fresh
  <2>3. QED
    BY ZenonT(60), <2>1, <2>2, LeasedFields, Constants, Timers
<1> HIDE DEF o
<1>8. db' \in Db /\ db'.order = o /\ db'.attempt = NewAttempt /\ db'.parent = db.parent
  BY ZenonT(60), <1>1, <1>4, <1>6, <1>7 DEF Db
<1>9. /\ exec' \in [Attempts -> ExecState]
      /\ \A b \in Attempts : b # n => exec'[b] = exec[b]
  BY SMTT(60), <1>4, <1>5 DEF Inv, TypeOK, Issued, ExecState, Attempts
<1>10. TypeOK'
  BY ZenonT(60), <1>8, <1>9, StoredRows DEF Inv, TypeOK, ClaimStart
<1>11. Sound(db)'
  <2>1. Columns(db') /\ LiveTogether(db')
    BY SMTT(60), <1>6, <1>7, <1>8, Constants DEF Columns, LiveTogether
  <2>2. ParentOk(db')
    BY SMTT(60), <1>2, <1>6, <1>8 DEF ParentOk, Terminal, Inv, Sound
  <2>3. ReceiptIsTrue(db)' /\ SuccessIsFinished(db)' /\ RetryIsProven(db)'
    BY SMTT(60), <1>6, <1>7, <1>8 DEF ReceiptIsTrue, Evidence, SuccessIsFinished, RetryIsProven,
       retry_scheduled
  <2>4. QED
    BY SMTT(60), <1>8, <2>1, <2>2, <2>3 DEF Sound, Columns, LiveTogether, ParentOk, ParentEnded
<1>12. NoOverlap'
  <2>1. kind = "job" /\ db.order.current_attempt > 0 => exec[db.order.current_attempt] \in Over
    BY <1>2 DEF Inv, Sound, RetryIsProven, Columns
  <2>2. kind' = kind
    BY SMTT(60) DEF ClaimStart
  <2>3. QED
    BY SMTT(60), <1>5, <1>6, <1>8, <1>9, <2>1, <2>2 DEF NoOverlap, Inv, Over, Attempts, n
<1>13. CarriedIsProven'
  <2>1. kind' = kind /\ pass' = pass
    BY SMTT(60) DEF ClaimStart
  <2>2. SUFFICES ASSUME pass \notin {Idle, Down} PROVE CarriedIsProven'
    BY SMTT(60), <2>1 DEF CarriedIsProven
  <2>3. pass.before.attempt \in Nat
    <3>1. pass.before \in Row
      BY SMTT(60), <2>2 DEF Inv, TypeOK, Pass
    <3>2. QED
      BY <3>1 DEF Row
  <2>4. pass.before.attempt <= db.order.current_attempt
    BY SMTT(60), <2>2 DEF Inv, CarriedIsProven
  <2>5. /\ pass.before.attempt <= db'.order.current_attempt
        /\ pass.before.attempt > 0 => exec'[pass.before.attempt] = exec[pass.before.attempt]
    <3>1. pass.before.attempt < n /\ n \in 1 .. MaxAttempts /\ db'.order.current_attempt = n
      BY SMTT(60), <1>5, <1>6, <1>8, <2>3, <2>4 DEF n
    <3>2. pass.before.attempt > 0 =>
            pass.before.attempt \in Attempts /\ pass.before.attempt # n
      BY SMTT(60), <2>3, <3>1, Constants DEF Attempts
    <3>3. QED
      BY SMTT(60), <1>9, <2>3, <3>1, <3>2
  <2>6. QED
    BY SMTT(60), <2>1, <2>2, <2>5 DEF Inv, CarriedIsProven, Asks
<1>14. QED
  BY ZenonT(60), <1>2, <1>10, <1>11, <1>12, <1>13 DEF Inv

\* The same rows with a renewed attempt.
LEMMA RenewedRows ==
  ASSUME Inv, NEW att \in AttemptRow, att.state = db.attempt.state,
         att.result = db.attempt.result, att.lease_deadline <= LEASE_BOUND
  PROVE  LET t == [db EXCEPT !.attempt = att] IN Sound(t) /\ Keeps(t)
<1> DEFINE t == [db EXCEPT !.attempt = att]
<1>1. /\ t \in Db /\ t.order = db.order /\ t.parent = db.parent /\ t.attempt = att
      /\ retry_scheduled(t) = retry_scheduled(db)
  BY SMTT(60), StoredRows, AttemptChange
<1> HIDE DEF t
<1>2. Columns(t) /\ LiveTogether(t) /\ ParentOk(t)
  BY SMTT(60), <1>1 DEF Inv, Sound, Columns, LiveTogether, ParentOk, ParentEnded
<1>3. ReceiptIsTrue(t) /\ SuccessIsFinished(t) /\ RetryIsProven(t) /\ Keeps(t)
  BY SMTT(60), <1>1 DEF Inv, Sound, ReceiptIsTrue, Evidence, SuccessIsFinished, RetryIsProven,
     Keeps
<1>4. QED
  BY <1>1, <1>2, <1>3 DEF Sound, t

\* A heartbeat renews the lease, or tells the executor to cancel.
LEMMA HeartbeatStep ==
  ASSUME Inv, Heartbeat
  PROVE  Commits
<1> DEFINE old == db.attempt
           kept == MinOf(db.parent.cancel_deadline, MaxOf(old.lease_deadline, LEASE))
           plain == MaxOf(old.lease_deadline, LEASE)
           longer == MaxOf(old.lease_deadline, PROGRESSING)
           stall == IF kind = "start" THEN STALL_WINDOW ELSE Leased(old, longer).stall
           moved == [Leased(old, longer) EXCEPT !.stall = stall]
<1>1. /\ old \in AttemptRow /\ old.lease_deadline \in Timer
      /\ old.lease_deadline <= LEASE_BOUND /\ db.parent.cancel_deadline \in Timer
  BY SMTT(60), StoredRows, DbFields DEF Columns
<1>2. \A t \in {kept, plain, longer} : t \in Timer /\ t <= LEASE_BOUND
  BY <1>1, Constants DEF MinOf, MaxOf, Timer, NoTime
<1>3. \A t \in {kept, plain, longer} :
        /\ Leased(old, t) \in AttemptRow /\ Leased(old, t).state = old.state
        /\ Leased(old, t).result = old.result /\ Leased(old, t).lease_deadline = t
  BY Zenon, <1>1, <1>2, LeasedFields
<1>4. \/ \E c \in Circumstances(FALSE) : db' = end_unobserved_order(db, c)
      \/ db' = [db EXCEPT !.attempt = Leased(old, kept)]
      \/ db' = [db EXCEPT !.attempt = old]
      \/ db' = [db EXCEPT !.attempt = Leased(old, plain)]
      \/ db' = [db EXCEPT !.attempt = moved]
  BY Zenon, StoredRows DEF Heartbeat, Db
<1> HIDE DEF kept, plain, longer
<1>5. Leased(old, longer).stall \in Timer
  BY SMTT(60), <1>3 DEF AttemptRow
<1>6. stall \in Timer
  BY SMTT(60), <1>5, Constants, Timers
<1> HIDE DEF stall
<1>7. /\ moved \in AttemptRow /\ moved.state = old.state
      /\ moved.result = old.result /\ moved.lease_deadline = longer
  BY SMTT(60), <1>3, <1>6 DEF AttemptRow
<1> HIDE DEF moved
<1>8. ASSUME NEW att \in {Leased(old, kept), old, Leased(old, plain), moved}
      PROVE  LET t == [db EXCEPT !.attempt = att] IN Sound(t) /\ Keeps(t)
  <2>1. att \in AttemptRow /\ att.state = old.state /\ att.result = old.result
        /\ att.lease_deadline <= LEASE_BOUND
    BY SMTT(60), <1>1, <1>2, <1>3, <1>7
  <2>2. QED
    BY SMTT(60), <2>1, RenewedRows
<1>9. Sound(db') /\ Keeps(db')
  BY ZenonT(60), <1>4, <1>8, CircumstanceFields, EndUnobservedStep
<1>10. QED
  BY ZenonT(60), <1>9, StoredRows DEF Commits, Heartbeat
=============================================================================
