------------------------ MODULE LifecycleCoreProofs ------------------------
(***************************************************************************)
(* What every decision of the lifecycle core obeys, for every row, event,  *)
(* kind and budget.  Lawful is the contract; each builder and each event   *)
(* rule of core.py has a lemma that it keeps it, and TransitionIsLawful    *)
(* puts them together.  LifecycleRowProofs builds on it.                   *)
(***************************************************************************)
EXTENDS LifecycleCore, TLAPS

Ready == {"queued", "backoff"}

\* none, established: the event is evidence that the effect never was, or that
\* it was established.  Only a claim changes the attempt; a cancel request is
\* kept; an irreversible row that was issued becomes ready again, or counts as
\* never run, only on evidence that it never ran; an effect or a success comes
\* from evidence alone; a row ends without a clock; and whatever needs an
\* answer is being observed.
Lawful(r, a, d, none, established) ==
    /\ d.row \in Row /\ d.command \in Command
    /\ d.row.attempt = r.attempt /\ d.row.fence = r.fence
    /\ r.cancel_requested = TRUE => d.row.cancel_requested = TRUE
    /\ a.irreversible /\ r.attempt > 0 /\ "resume" \notin a.actions
         /\ d.row.state \in Ready => r.state \in Ready \/ r.effect = "none" \/ none
    /\ a.irreversible /\ r.attempt > 0 /\ d.row.effect = "none"
         => r.effect = "none" \/ none
    /\ d.row.effect = "established" => r.effect = "established" \/ established
    /\ d.row.state = "succeeded"
         => r.state = "succeeded" \/ r.effect = "established" \/ established
    /\ d.row.state \in Terminal => r.state \in Terminal \/ d.row.next_action_at = NoTime
    /\ d.command = "stop" => d.row.cancel_requested = TRUE
    /\ d.command \in {"observe", "stop"} => d.row.state = "observing"

(***************************************************************************)
(* Types.                                                                  *)
(***************************************************************************)
\* The words used below are states, effects and commands.
LEMMA Literals ==
    /\ {"queued", "running", "backoff", "observing", "needs-operator"} \subseteq State
    /\ Terminal \subseteq State
    /\ {"none", "issued", "established", "stopped", "unknown"} \subseteq Effect
    /\ NoEffect \notin Effect
    /\ {"none", "observe", "stop", "execute", "residue"} \subseteq Command
BY DEF State, Effect, NoEffect, Command

\* Countdowns stay countdowns when capped (_due) and when the clock runs.
LEMMA Timers ==
    /\ NoTime \in Timer /\ 0 \in Timer
    /\ \A t \in 1 .. MaxDelay : t \in Timer
    /\ \A t, deadline \in Timer : Capped(t, deadline) \in Timer
    /\ \A t \in Timer : Elapsed(t) \in Timer
BY BudgetsAssumption DEF Timer, NoTime, Capped, Elapsed

\* What a kind answers is of its type; its delay is a real delay.
LEMMA AdapterFields ==
  ASSUME NEW a \in Adapter
  PROVE  a.irreversible \in BOOLEAN /\ a.deadline \in Timer /\ a.delay \in Timer
BY Timers DEF Adapter

\* The deadline that caps a retry, the row's own or the request's, is a timer.
LEMMA DeadlineType ==
  ASSUME NEW r \in Row, NEW a \in Adapter
  PROVE  Deadline(r, a) \in Timer
BY AdapterFields DEF Deadline, Row

\* A decision that leaves the row as it is.
LEMMA KeepLawful ==
  ASSUME NEW r \in Row, NEW a \in Adapter, NEW none \in BOOLEAN, NEW est \in BOOLEAN
  PROVE  Lawful(r, a, Decision(r, "none"), none, est)
BY Literals DEF Lawful, Terminal, Decision, Command

(***************************************************************************)
(* Builders.                                                               *)
(***************************************************************************)
\* An ended row keeps its identity and loses its clocks.
LEMMA EndedFields ==
  ASSUME NEW r \in Row, NEW state \in Terminal, NEW effect \in Effect
  PROVE  LET x == Ended(r, state, effect) IN
         /\ x \in Row /\ x.state = state /\ x.effect = effect
         /\ x.next_action_at = NoTime
         /\ x.attempt = r.attempt /\ x.fence = r.fence
         /\ x.cancel_requested = r.cancel_requested
BY Zenon, Literals, Timers DEF Ended, Row

\* The row that waits in the given state: what every other builder makes.
Waiting(r, state, n, t, effect) ==
    [r EXCEPT !.state = state, !.observe_count = n, !.next_action_at = t,
              !.lease_deadline = NoTime, !.effect = effect]

\* A row that waits keeps its attempt, its fence and its cancel request.
LEMMA WaitingFields ==
  ASSUME NEW r \in Row, NEW state \in State, NEW n \in Nat, NEW t \in Timer,
         NEW effect \in Effect
  PROVE  LET x == Waiting(r, state, n, t, effect) IN
         /\ x \in Row /\ x.state = state /\ x.effect = effect
         /\ x.observe_count = n
         /\ x.attempt = r.attempt /\ x.fence = r.fence
         /\ x.cancel_requested = r.cancel_requested
BY Zenon, Timers DEF Waiting, Row

\* _retry parks the row in backoff with the effect it was given.
LEMMA RetryFields ==
  ASSUME NEW r \in Row, NEW a \in Adapter, NEW effect \in Effect
  PROVE  LET d == _retry(r, a, effect) IN
         /\ d.row \in Row /\ d.row.state = "backoff" /\ d.row.effect = effect
         /\ d.row.attempt = r.attempt /\ d.row.fence = r.fence
         /\ d.row.cancel_requested = r.cancel_requested
         /\ d.command = "none"
<1> DEFINE t == Capped(a.delay, Deadline(r, a))
<1>1. t \in Timer
  BY Timers, AdapterFields, DeadlineType
<1>2. /\ _retry(r, a, effect).row = Waiting(r, "backoff", 0, t, effect)
      /\ _retry(r, a, effect).command = "none"
  BY DEF _retry, Decision, Waiting
<1> HIDE DEF t
<1>3. QED
  BY SMTT(30), <1>1, <1>2, WaitingFields, Literals

\* The count of looks stays a count.
LEMMA LookType ==
  ASSUME NEW r \in Row
  PROVE  Look(r) \in Nat
BY DEF Look, Row

\* _observe never leaves a row that says nothing happened.
LEMMA ObserveFields ==
  ASSUME NEW r \in Row, NEW a \in Adapter
  PROVE  LET d == _observe(r, a) IN
         /\ d.row \in Row /\ d.row.state = "observing"
         /\ d.row.effect = IF r.effect = "none" THEN "unknown" ELSE r.effect
         /\ d.row.attempt = r.attempt /\ d.row.fence = r.fence
         /\ d.row.cancel_requested = r.cancel_requested
         /\ d.command = "observe"
<1> DEFINE t == Capped(a.delay, r.recovery_deadline)
           effect == IF r.effect = "none" THEN "unknown" ELSE r.effect
<1>1. t \in Timer
  BY Timers, AdapterFields DEF Row
<1>2. effect \in Effect
  BY Literals DEF Row
<1>3. /\ _observe(r, a).row = Waiting(r, "observing", Look(r), t, effect)
      /\ _observe(r, a).command = "observe"
  BY DEF _observe, Decision, Waiting, Row
<1> HIDE DEF t, effect
<1>4. effect = IF r.effect = "none" THEN "unknown" ELSE r.effect
  BY DEF effect
<1>5. "observing" \in State
  BY Literals
<1>6. QED
  BY <1>1, <1>2, <1>3, <1>4, <1>5, WaitingFields, LookType

\* _lost observes again or ends the row failed, its effect unknown.
LEMMA LostFields ==
  ASSUME NEW r \in Row, NEW a \in Adapter, NEW command \in {"none", "observe"},
         NEW observed \in BOOLEAN
  PROVE  LET d == _lost(r, a, command, observed) IN
         /\ d.row \in Row /\ d.row.effect = "unknown"
         /\ \/ d.row.state = "observing" /\ d.command = command
            \/ /\ d.row.state = "failed" /\ d.command = "residue"
               /\ d.row.next_action_at = NoTime
         /\ d.row.attempt = r.attempt /\ d.row.fence = r.fence
         /\ d.row.cancel_requested = r.cancel_requested
<1> DEFINE before == IF r.observe_count > OBSERVE_BUDGET
                     THEN r.observe_count - OBSERVE_BUDGET ELSE 0
           looked == IF observed THEN before + 1 ELSE before
           counted == [r EXCEPT !.observe_count = OBSERVE_BUDGET + looked]
<1>1. OBSERVE_BUDGET + looked \in Nat
  BY BudgetsAssumption DEF Row
<1> HIDE DEF looked
<1>2. /\ counted \in Row /\ counted.attempt = r.attempt
      /\ counted.fence = r.fence /\ counted.cancel_requested = r.cancel_requested
  BY <1>1 DEF Row
<1>3. _lost(r, a, command, observed) =
        IF looked >= LOST_OBSERVATION_BOUND
        THEN Decision(Ended(counted, "failed", "unknown"), "residue")
        ELSE Decision([counted EXCEPT !.state = "observing",
                           !.next_action_at = a.delay,
                           !.lease_deadline = NoTime, !.effect = "unknown"], command)
  BY DEF _lost, looked
<1> HIDE DEF counted
<1>4. CASE looked >= LOST_OBSERVATION_BOUND
  <2> DEFINE x == Ended(counted, "failed", "unknown")
  <2>1. "failed" \in Terminal /\ "unknown" \in Effect
    BY Literals DEF Terminal
  <2>2. /\ x \in Row /\ x.state = "failed" /\ x.effect = "unknown"
        /\ x.next_action_at = NoTime
        /\ x.attempt = r.attempt /\ x.fence = r.fence
        /\ x.cancel_requested = r.cancel_requested
    BY <1>2, <2>1, EndedFields
  <2>3. _lost(r, a, command, observed) = Decision(x, "residue")
    BY <1>3, <1>4
  <2> HIDE DEF x
  <2>4. QED
    BY <2>2, <2>3 DEF Decision
<1>5. CASE ~(looked >= LOST_OBSERVATION_BOUND)
  <2> DEFINE x == [counted EXCEPT !.state = "observing", !.next_action_at = a.delay,
                                  !.lease_deadline = NoTime, !.effect = "unknown"]
  <2>1. /\ x \in Row /\ x.state = "observing" /\ x.effect = "unknown"
        /\ x.attempt = r.attempt /\ x.fence = r.fence
        /\ x.cancel_requested = r.cancel_requested
    BY Zenon, <1>2, Literals, Timers, AdapterFields DEF Row
  <2>2. _lost(r, a, command, observed) = Decision(x, command)
    BY <1>3, <1>5
  <2> HIDE DEF x
  <2>3. QED
    BY <2>1, <2>2 DEF Decision
<1>6. QED
  BY <1>4, <1>5

(***************************************************************************)
(* The rules the events share.                                             *)
(***************************************************************************)
\* Ending a row as anything but a success needs no evidence, and a row that
\* ends keeps the effect it had or takes the one it was told.
LEMMA EndLawful ==
  ASSUME NEW r \in Row, NEW a \in Adapter, NEW none \in BOOLEAN, NEW est \in BOOLEAN,
         NEW state \in Terminal, NEW effect \in Effect, NEW command \in {"none", "residue"},
         state = "succeeded" => est \/ r.effect = "established",
         effect = "established" => est \/ r.effect = "established",
         effect = "none" => none \/ r.effect = "none" \/ r.attempt = 0
  PROVE  Lawful(r, a, Decision(Ended(r, state, effect), command), none, est)
<1> DEFINE x == Ended(r, state, effect)
<1>1. /\ x \in Row /\ x.state = state /\ x.effect = effect
      /\ x.next_action_at = NoTime
      /\ x.attempt = r.attempt /\ x.fence = r.fence
      /\ x.cancel_requested = r.cancel_requested
  BY EndedFields
<1> HIDE DEF x
<1>2. Lawful(r, a, Decision(x, command), none, est)
  BY <1>1 DEF Lawful, Decision, Command, Terminal, Ready, Row
<1>3. QED
  BY <1>2 DEF x

\* _retry keeps the contract where a repeat is safe.
LEMMA RetryLawful ==
  ASSUME NEW r \in Row, NEW a \in Adapter, NEW none \in BOOLEAN, NEW est \in BOOLEAN,
         NEW effect \in Effect,
         effect = "established" => est \/ r.effect = "established",
         r.attempt = 0 \/ ~a.irreversible \/ none \/ r.effect = "none"
  PROVE  Lawful(r, a, _retry(r, a, effect), none, est)
BY RetryFields DEF Lawful, Terminal, Command, Ready, Row

\* _observe keeps the contract on any row.
LEMMA ObserveLawful ==
  ASSUME NEW r \in Row, NEW a \in Adapter, NEW none \in BOOLEAN, NEW est \in BOOLEAN
  PROVE  Lawful(r, a, _observe(r, a), none, est)
BY ObserveFields DEF Lawful, Terminal, Command, Ready, Row

\* _lost keeps the contract on any row.
LEMMA LostLawful ==
  ASSUME NEW r \in Row, NEW a \in Adapter, NEW none \in BOOLEAN, NEW est \in BOOLEAN,
         NEW command \in {"none", "observe"}, NEW observed \in BOOLEAN
  PROVE  Lawful(r, a, _lost(r, a, command, observed), none, est)
BY LostFields DEF Lawful, Terminal, Command, Ready, Row

\* _uncertain (rules 1 and 2): retried where safe, observed otherwise.
LEMMA UncertainLawful ==
  ASSUME NEW r \in Row, NEW a \in Adapter, NEW none \in BOOLEAN, NEW est \in BOOLEAN,
         NEW claimed \in Effect \cup {NoEffect},
         claimed = "none" => none, claimed = "established" => est
  PROVE  Lawful(r, a, _uncertain(r, a, claimed), none, est)
<1> DEFINE effect == IF claimed = NoEffect THEN r.effect ELSE claimed
<1>1. /\ effect \in Effect
      /\ effect = "established" => est \/ r.effect = "established"
      /\ effect = "none" => none \/ r.effect = "none"
  BY DEF Row
<1> HIDE DEF effect
<1>2. _uncertain(r, a, claimed) =
        IF r.recovery_deadline # 0 /\ SafeAfter(r, a, effect)
        THEN _retry(r, a, effect) ELSE _observe(r, a)
  BY DEF _uncertain, effect
<1>3. CASE SafeAfter(r, a, effect)
  <2>1. r.attempt = 0 \/ ~a.irreversible \/ none \/ r.effect = "none"
    BY <1>1, <1>3 DEF SafeAfter
  <2>2. Lawful(r, a, _retry(r, a, effect), none, est)
    BY <1>1, <2>1, RetryLawful
  <2>3. QED
    BY <1>2, <2>2, ObserveLawful
<1>4. CASE ~SafeAfter(r, a, effect)
  BY <1>2, <1>4, ObserveLawful
<1>5. QED
  BY <1>3, <1>4

\* _unknown_after_observation (rules 2 and 3) keeps the contract.
LEMMA UnknownLawful ==
  ASSUME NEW r \in Row, NEW a \in Adapter, NEW none \in BOOLEAN, NEW est \in BOOLEAN,
         NEW command \in {"none", "observe"},
         r.state \in {"observing", "needs-operator"}
  PROVE  Lawful(r, a, _unknown_after_observation(r, a, command), none, est)
<1>1. CASE blind_retry_is_safe(r, a)
  <2>1. r.attempt = 0 \/ ~a.irreversible \/ none \/ r.effect = "none"
    BY <1>1 DEF blind_retry_is_safe, SafeAfter
  <2>2. r.effect \in Effect
    BY DEF Row
  <2>3. QED
    BY <1>1, <2>1, <2>2, RetryLawful DEF _unknown_after_observation
<1>2. CASE ~blind_retry_is_safe(r, a) /\ r.observe_count >= OBSERVE_BUDGET
  BY Zenon, <1>2, LostLawful DEF _unknown_after_observation
<1>3. CASE ~blind_retry_is_safe(r, a) /\ ~(r.observe_count >= OBSERVE_BUDGET)
  <2> DEFINE t == Capped(a.delay, r.recovery_deadline)
             x == [r EXCEPT !.state = "observing", !.next_action_at = t]
  <2>1. t \in Timer
    BY Timers, AdapterFields DEF Row
  <2>2. _unknown_after_observation(r, a, command) = Decision(x, "none")
    BY Zenon, <1>3 DEF _unknown_after_observation
  <2> HIDE DEF t
  <2>3. /\ x \in Row /\ x.state = "observing" /\ x.effect = r.effect
        /\ x.attempt = r.attempt /\ x.fence = r.fence
        /\ x.cancel_requested = r.cancel_requested
    BY Zenon, <2>1, Literals DEF Row
  <2> HIDE DEF x
  <2>4. QED
    BY <2>2, <2>3 DEF Lawful, Terminal, Decision, Command, Ready, Row
<1>4. QED
  BY <1>1, <1>2, <1>3

\* _advance_cancel (rule 4) keeps the contract.
LEMMA AdvanceCancelLawful ==
  ASSUME NEW r \in Row, NEW a \in Adapter, NEW none \in BOOLEAN, NEW est \in BOOLEAN,
         NEW observed \in Effect \cup {NoEffect}, NEW issue_stop \in BOOLEAN,
         r.cancel_requested = TRUE,
         observed = "none" => none, observed = "established" => est
  PROVE  Lawful(r, a, _advance_cancel(r, a, observed, issue_stop), none, est)
<1> DEFINE proved == observed \in {"stopped", "none"}
                       \/ (observed = NoEffect /\ never_executed(r))
           told == IF observed = NoEffect THEN "none" ELSE observed
<1>1. CASE proved
  <2>1. /\ told \in Effect
        /\ told = "established" => est \/ r.effect = "established"
        /\ told = "none" => none \/ r.effect = "none" \/ r.attempt = 0
    BY <1>1, Literals DEF never_executed
  <2>2. _advance_cancel(r, a, observed, issue_stop)
          = Decision(Ended(r, "cancelled", told), "none")
    BY <1>1 DEF _advance_cancel
  <2> HIDE DEF told
  <2>3. "cancelled" \in Terminal
    BY DEF Terminal
  <2>4. QED
    BY <2>1, <2>2, <2>3, EndLawful
<1>2. CASE ~proved /\ r.observe_count >= STOP_BUDGET
  <2>1. "cancelled" \in Terminal /\ "unknown" \in Effect
    BY Literals DEF Terminal
  <2>2. _advance_cancel(r, a, observed, issue_stop)
          = Decision(Ended(r, "cancelled", "unknown"), "residue")
    BY <1>2 DEF _advance_cancel
  <2>3. QED
    BY <2>1, <2>2, EndLawful
<1>3. CASE ~proved /\ ~(r.observe_count >= STOP_BUDGET)
  <2> DEFINE t == Capped(a.delay, r.recovery_deadline)
             n == IF issue_stop THEN r.observe_count + 1 ELSE r.observe_count
             effect == IF observed = NoEffect THEN "unknown" ELSE observed
             command == IF issue_stop THEN "stop" ELSE "none"
  <2>1. t \in Timer /\ n \in Nat
    BY Timers, AdapterFields DEF Row
  <2>2. /\ effect \in Effect /\ "observing" \in State
        /\ effect = "established" => est
        /\ effect # "none"
    BY <1>3, Literals
  <2>3. _advance_cancel(r, a, observed, issue_stop)
          = Decision(Waiting(r, "observing", n, t, effect), command)
    BY <1>3 DEF _advance_cancel, Waiting, Row
  <2>4. command \in {"stop", "none"}
    OBVIOUS
  <2> HIDE DEF t, n, effect, command, proved, told
  <2> DEFINE x == Waiting(r, "observing", n, t, effect)
  <2>5. /\ x \in Row /\ x.state = "observing" /\ x.effect = effect
        /\ x.attempt = r.attempt /\ x.fence = r.fence
        /\ x.cancel_requested = r.cancel_requested
    BY <2>1, <2>2, WaitingFields
  <2> HIDE DEF x
  <2>6. Lawful(r, a, Decision(x, command), none, est)
    BY <2>2, <2>4, <2>5 DEF Lawful, Terminal, Decision, Command, Ready, Row
  <2>7. QED
    BY <2>3, <2>6 DEF x
<1>4. QED
  BY <1>1, <1>2, <1>3

\* A cancel request, or the operator's stop, first sets the flag.
LEMMA FlaggedLawful ==
  ASSUME NEW r \in Row, NEW a \in Adapter, NEW none \in BOOLEAN, NEW est \in BOOLEAN
  PROVE  Lawful(r, a, _advance_cancel([r EXCEPT !.cancel_requested = TRUE], a,
                                      NoEffect, TRUE), none, est)
<1> DEFINE x == [r EXCEPT !.cancel_requested = TRUE]
<1>1. /\ x \in Row /\ x.cancel_requested = TRUE /\ x.attempt = r.attempt
      /\ x.fence = r.fence /\ x.effect = r.effect /\ x.state = r.state
  BY Zenon DEF Row
<1> HIDE DEF x
<1>2. Lawful(x, a, _advance_cancel(x, a, NoEffect, TRUE), none, est)
  <2>1. NoEffect # "none" /\ NoEffect # "established"
    BY DEF NoEffect
  <2>2. QED
    BY Zenon, <1>1, <2>1, AdvanceCancelLawful
<1>3. Lawful(r, a, _advance_cancel(x, a, NoEffect, TRUE), none, est)
  BY Zenon, <1>1, <1>2 DEF Lawful, Terminal
<1>4. QED
  BY Zenon, <1>3 DEF x

(***************************************************************************)
(* The rule of each event.                                                 *)
(***************************************************************************)
\* _cancel keeps the contract.
LEMMA CancelLawful ==
  ASSUME NEW r \in Row, NEW a \in Adapter, NEW none \in BOOLEAN, NEW est \in BOOLEAN
  PROVE  Lawful(r, a, _cancel(r, a), none, est)
BY Zenon, FlaggedLawful, KeepLawful DEF _cancel

\* _heartbeat moves nothing but the lease.
LEMMA HeartbeatLawful ==
  ASSUME NEW r \in Row, NEW a \in Adapter, NEW none \in BOOLEAN, NEW est \in BOOLEAN,
         NEW e, e.lease_deadline \in Timer
  PROVE  Lawful(r, a, _heartbeat(r, e), none, est)
<1> DEFINE x == [r EXCEPT !.lease_deadline = e.lease_deadline,
                          !.next_action_at = e.lease_deadline]
<1>1. /\ x \in Row /\ x.state = r.state /\ x.effect = r.effect
      /\ x.attempt = r.attempt /\ x.fence = r.fence
      /\ x.cancel_requested = r.cancel_requested
  BY Zenon DEF Row
<1>2. _heartbeat(r, e) \in {Decision(r, "none"), Decision(x, "none")}
  BY DEF _heartbeat
<1> HIDE DEF x
<1>3. Lawful(r, a, Decision(x, "none"), none, est)
  BY <1>1 DEF Lawful, Terminal, Decision, Command, Ready, Row
<1>4. QED
  BY <1>2, <1>3, KeepLawful

\* _reported: an outcome is taken only as the report states it.
LEMMA ReportedLawful ==
  ASSUME NEW r \in Row, NEW a \in Adapter, NEW none \in BOOLEAN, NEW est \in BOOLEAN,
         NEW e, e.effect \in Effect \cup {NoEffect},
         e.effect = "none" => none,
         e.effect = "established" \/ e.outcome = "done" => est
  PROVE  Lawful(r, a, _reported(r, e, a), none, est)
<1>1. ASSUME NEW state \in Terminal, NEW default \in Effect,
             state = "succeeded" => est,
             default = "established" => est \/ r.effect = "established",
             default = "none" => r.effect = "none"
      PROVE  Lawful(r, a, _end(r, state, e.effect, default), none, est)
  <2> DEFINE effect == IF e.effect = NoEffect THEN default ELSE e.effect
  <2>1. /\ effect \in Effect
        /\ effect = "established" => est \/ r.effect = "established"
        /\ effect = "none" => none \/ r.effect = "none" \/ r.attempt = 0
    BY <1>1
  <2> HIDE DEF effect
  <2>2. Lawful(r, a, Decision(Ended(r, state, effect), "none"), none, est)
    BY <1>1, <2>1, EndLawful
  <2>3. QED
    BY <2>2 DEF _end, effect
<1>2. Terminal = {"succeeded", "failed", "cancelled"}
  BY DEF Terminal
<1>3. CASE e.outcome = "done"
  BY Zenon, <1>1, <1>2, <1>3, Literals DEF _reported
<1>4. CASE e.outcome = "cancelled"
  BY <1>1, <1>2, <1>4, Literals DEF _reported
<1>5. CASE e.outcome = "failed" /\ ~e.retryable
  <2>1. r.effect \in Effect
    BY DEF Row
  <2>2. QED
    BY <1>1, <1>2, <1>5, <2>1 DEF _reported
<1>6. CASE e.outcome \notin {"done", "cancelled"} /\ ~(e.outcome = "failed" /\ ~e.retryable)
  <2>1. CASE r.cancel_requested = TRUE
    <3> DEFINE told == IF e.effect \in {"stopped", "none"} THEN e.effect ELSE NoEffect
               again == r.state # "observing"
    <3>1. /\ told \in Effect \cup {NoEffect} /\ again \in BOOLEAN
          /\ told = "none" => none
          /\ told # "established"
      BY DEF NoEffect, Effect
    <3>2. _reported(r, e, a) = _advance_cancel(r, a, told, again)
      BY <1>6, <2>1 DEF _reported
    <3> HIDE DEF told, again
    <3>3. QED
      BY ZenonT(60), <2>1, <3>1, <3>2, AdvanceCancelLawful
  <2>2. CASE r.cancel_requested = FALSE
    <3>1. _reported(r, e, a) = _uncertain(r, a, e.effect)
      BY <1>6, <2>2 DEF _reported
    <3>2. QED
      BY <3>1, UncertainLawful
  <2>3. QED
    BY Zenon, <2>1, <2>2 DEF Row
<1>7. QED
  BY <1>3, <1>4, <1>5, <1>6

\* _lapsed keeps the contract.
LEMMA LapsedLawful ==
  ASSUME NEW r \in Row, NEW a \in Adapter, NEW none \in BOOLEAN, NEW est \in BOOLEAN
  PROVE  Lawful(r, a, _lapsed(r, a), none, est)
<1>1. NoEffect # "none" /\ NoEffect # "established"
  BY DEF NoEffect
<1>2. CASE r.state # "running"
  BY <1>2, KeepLawful DEF _lapsed
<1>3. CASE r.state = "running" /\ r.cancel_requested = TRUE
  BY Zenon, <1>1, <1>3, AdvanceCancelLawful DEF _lapsed
<1>4. CASE r.state = "running" /\ r.cancel_requested = FALSE
  BY Zenon, <1>1, <1>4, UncertainLawful DEF _lapsed
<1>5. QED
  BY Zenon, <1>2, <1>3, <1>4 DEF Row

\* _observed: an outcome is taken only as the observation states it.
LEMMA ObservedLawful ==
  ASSUME NEW r \in Row, NEW a \in Adapter, NEW none \in BOOLEAN, NEW est \in BOOLEAN,
         NEW e, e.effect \in Effect,
         e.effect = "none" => none, e.effect = "established" => est
  PROVE  Lawful(r, a, _observed(r, e, a), none, est)
<1>1. Terminal = {"succeeded", "failed", "cancelled"}
  BY DEF Terminal
<1>2. CASE r.cancel_requested = TRUE
  <2>1. _observed(r, e, a) = _advance_cancel(r, a, e.effect, FALSE)
    BY Zenon, <1>2 DEF _observed
  <2>2. QED
    BY Zenon, <1>2, <2>1, AdvanceCancelLawful
<1>3. CASE r.cancel_requested = FALSE /\ r.state \notin {"observing", "needs-operator"}
  BY Zenon, <1>3, KeepLawful DEF _observed
<1>4. CASE /\ r.cancel_requested = FALSE /\ r.state \in {"observing", "needs-operator"}
           /\ Deadline(r, a) = 0 /\ e.effect # "established"
  <2>1. CASE e.effect = "unknown" /\ ~blind_retry_is_safe(r, a)
    <3>1. _observed(r, e, a) = _lost(r, a, "none", TRUE)
      BY Zenon, <1>4, <2>1 DEF _observed
    <3>2. QED
      BY Zenon, <3>1, LostLawful
  <2>2. CASE ~(e.effect = "unknown" /\ ~blind_retry_is_safe(r, a))
    <3> DEFINE command == IF e.effect = "unknown" THEN "residue" ELSE "none"
    <3>1. _observed(r, e, a) = Decision(Ended(r, "failed", e.effect), command)
      BY Zenon, <1>4, <2>2 DEF _observed
    <3>2. command \in {"none", "residue"}
      OBVIOUS
    <3> HIDE DEF command
    <3>3. QED
      BY <1>1, <1>4, <3>1, <3>2, EndLawful
  <2>3. QED
    BY <2>1, <2>2
<1>5. CASE /\ r.cancel_requested = FALSE /\ r.state \in {"observing", "needs-operator"}
           /\ e.effect = "established"
  <2> DEFINE x == [r EXCEPT !.state = "succeeded", !.effect = "established",
                            !.next_action_at = NoTime]
  <2>1. /\ x \in Row /\ x.state = "succeeded" /\ x.effect = "established"
        /\ x.next_action_at = NoTime
        /\ x.attempt = r.attempt /\ x.fence = r.fence
        /\ x.cancel_requested = r.cancel_requested
    BY Zenon, <1>1, Literals, Timers DEF Row
  <2>2. _observed(r, e, a) = Decision(x, "none")
    BY Zenon, <1>5 DEF _observed
  <2> HIDE DEF x
  <2>3. Lawful(r, a, Decision(x, "none"), none, est)
    BY <1>5, <2>1 DEF Lawful, Terminal, Decision, Command, Ready, Row
  <2>4. QED
    BY <2>2, <2>3
<1>6. CASE /\ r.cancel_requested = FALSE /\ r.state \in {"observing", "needs-operator"}
           /\ Deadline(r, a) # 0 /\ e.effect # "established"
  <2>1. CASE e.effect = "stopped" /\ ~blind_retry_is_safe(r, a)
    <3>1. _observed(r, e, a) = Decision(Ended(r, "failed", "stopped"), "none")
      BY Zenon, <1>6, <2>1 DEF _observed
    <3>2. QED
      BY <1>1, <3>1, EndLawful, Literals
  <2>2. CASE e.effect \in {"none", "stopped"}
               /\ ~(e.effect = "stopped" /\ ~blind_retry_is_safe(r, a))
    <3>1. _observed(r, e, a) = _retry(r, a, "none")
      BY Zenon, <1>6, <2>2 DEF _observed
    <3>2. r.attempt = 0 \/ ~a.irreversible \/ none \/ r.effect = "none"
      BY <2>2 DEF blind_retry_is_safe, SafeAfter
    <3>3. QED
      BY <3>1, <3>2, RetryLawful, Literals
  <2>3. CASE e.effect \notin {"none", "stopped"}
    <3>1. _observed(r, e, a) = _unknown_after_observation(r, a, "none")
      BY Zenon, <1>6, <2>3 DEF _observed
    <3>2. QED
      BY <1>6, <3>1, UnknownLawful
  <2>4. QED
    BY <2>1, <2>2, <2>3
<1>7. QED
  BY Zenon, <1>2, <1>3, <1>4, <1>5, <1>6 DEF Row

\* _operator keeps the contract; only an offered resume makes a row ready unproved.
LEMMA OperatorLawful ==
  ASSUME NEW r \in Row, NEW a \in Adapter, NEW none \in BOOLEAN, NEW est \in BOOLEAN,
         NEW e
  PROVE  Lawful(r, a, _operator(r, e, a), none, est)
<1> DEFINE resumed == [r EXCEPT !.state = "queued", !.observe_count = 0,
                                !.next_action_at = NoTime]
           retired == [r EXCEPT !.state = "failed", !.effect = "unknown",
                                !.next_action_at = NoTime]
<1>1. /\ resumed \in Row /\ resumed.state = "queued" /\ resumed.effect = r.effect
      /\ resumed.attempt = r.attempt /\ resumed.fence = r.fence
      /\ resumed.cancel_requested = r.cancel_requested
  BY Zenon, Literals, Timers DEF Row
<1>2. /\ retired \in Row /\ retired.state = "failed" /\ retired.effect = "unknown"
      /\ retired.next_action_at = NoTime
      /\ retired.attempt = r.attempt /\ retired.fence = r.fence
      /\ retired.cancel_requested = r.cancel_requested
  BY Zenon, Literals, Timers DEF Row, Terminal
<1>3. \/ _operator(r, e, a) = Decision(r, "none")
      \/ _operator(r, e, a) = _advance_cancel([r EXCEPT !.cancel_requested = TRUE], a,
                                              NoEffect, TRUE)
      \/ "resume" \in a.actions /\ _operator(r, e, a) = Decision(resumed, "none")
      \/ _operator(r, e, a) = Decision(retired, "none")
  BY Zenon DEF _operator
<1> HIDE DEF resumed, retired
<1>4. "resume" \in a.actions => Lawful(r, a, Decision(resumed, "none"), none, est)
  BY <1>1 DEF Lawful, Terminal, Decision, Command, Ready, Row
<1>5. Lawful(r, a, Decision(retired, "none"), none, est)
  BY <1>2 DEF Lawful, Terminal, Decision, Command, Ready, Row
<1>6. QED
  BY Zenon, <1>3, <1>4, <1>5, KeepLawful, FlaggedLawful

\* _reevaluate_parked decides from the effect the row already has.
LEMMA ReevaluateLawful ==
  ASSUME NEW r \in Row, NEW a \in Adapter, NEW none \in BOOLEAN, NEW est \in BOOLEAN,
         r.state = "needs-operator", r.cancel_requested = FALSE
  PROVE  Lawful(r, a, _reevaluate_parked(r, a), none, est)
<1>1. r.effect \in Effect
  BY DEF Row
<1>2. CASE r.effect = "established"
  <2> DEFINE x == [r EXCEPT !.state = "observing"]
             e == [kind |-> "observed", effect |-> "established"]
  <2>1. /\ x \in Row /\ x.state = "observing" /\ x.effect = "established"
        /\ x.attempt = r.attempt /\ x.fence = r.fence
        /\ x.cancel_requested = FALSE
    BY <1>2, Literals DEF Row
  <2>2. _reevaluate_parked(r, a) = _observed(x, e, a)
    BY <1>2 DEF _reevaluate_parked
  <2>3. e.effect \in Effect /\ e.effect = "established"
    BY Literals
  <2> HIDE DEF x, e
  <2>4. Lawful(x, a, _observed(x, e, a), none, TRUE)
    BY Zenon, <2>1, <2>3, ObservedLawful
  <2>5. Lawful(r, a, _observed(x, e, a), none, est)
    BY <1>2, <2>1, <2>4 DEF Lawful, Terminal, Ready
  <2>6. QED
    BY <2>2, <2>5
<1>3. CASE r.effect = "stopped" /\ ~a.irreversible
  BY <1>3, RetryLawful, Literals DEF _reevaluate_parked
<1>4. CASE /\ r.effect # "established" /\ ~(r.effect = "stopped" /\ ~a.irreversible)
           /\ blind_retry_is_safe(r, a)
  <2>1. r.attempt = 0 \/ ~a.irreversible \/ none \/ r.effect = "none"
    BY <1>4 DEF blind_retry_is_safe, SafeAfter
  <2>2. _reevaluate_parked(r, a) = _retry(r, a, r.effect)
    BY <1>4 DEF _reevaluate_parked
  <2>3. QED
    BY <1>1, <2>1, <2>2, RetryLawful
<1>5. CASE /\ r.effect # "established" /\ ~(r.effect = "stopped" /\ ~a.irreversible)
           /\ ~blind_retry_is_safe(r, a)
  BY Zenon, <1>5, LostLawful, ObserveLawful DEF _reevaluate_parked
<1>6. QED
  BY <1>2, <1>3, <1>4, <1>5

\* _tick keeps the contract.
LEMMA TickLawful ==
  ASSUME NEW r \in Row, NEW a \in Adapter, NEW none \in BOOLEAN, NEW est \in BOOLEAN,
         r.state \notin Terminal
  PROVE  Lawful(r, a, _tick(r, a), none, est)
<1>1. NoEffect # "none" /\ NoEffect # "established"
  BY DEF NoEffect
<1>2. CASE r.next_action_at > 0
  BY Zenon, <1>2, KeepLawful DEF _tick
<1>3. CASE ~(r.next_action_at > 0) /\ r.cancel_requested = TRUE
  <2>1. _tick(r, a) = _advance_cancel(r, a, NoEffect, TRUE)
    BY Zenon, <1>3 DEF _tick
  <2>2. QED
    BY Zenon, <1>1, <1>3, <2>1, AdvanceCancelLawful
<1> DEFINE due == ~(r.next_action_at > 0) /\ r.cancel_requested = FALSE
<1>4. CASE due /\ r.recovery_deadline = 0 /\ r.state # "running"
  BY Zenon, <1>4, ObserveLawful DEF _tick
<1>5. CASE due /\ ~(r.recovery_deadline = 0 /\ r.state # "running")
             /\ r.state \in {"queued", "backoff"}
  <2> DEFINE x == [r EXCEPT !.state = "queued", !.next_action_at = NoTime]
  <2>1. /\ x \in Row /\ x.state = "queued" /\ x.effect = r.effect
        /\ x.attempt = r.attempt /\ x.fence = r.fence
        /\ x.cancel_requested = r.cancel_requested
    BY Zenon, Literals, Timers DEF Row
  <2>2. _tick(r, a) = Decision(x, "execute")
    BY Zenon, <1>5 DEF _tick
  <2> HIDE DEF x
  <2>3. Lawful(r, a, Decision(x, "execute"), none, est)
    BY <1>5, <2>1 DEF Lawful, Terminal, Decision, Command, Ready, Row
  <2>4. QED
    BY <2>2, <2>3
<1>6. CASE due /\ r.state = "running"
  <2> DEFINE x == [r EXCEPT !.next_action_at = r.lease_deadline]
  <2>1. /\ x \in Row /\ x.state = r.state /\ x.effect = r.effect
        /\ x.attempt = r.attempt /\ x.fence = r.fence
        /\ x.cancel_requested = r.cancel_requested
    BY DEF Row
  <2>2. _tick(r, a) \in {Decision(x, "none"), _lapsed(r, a)}
    BY Zenon, <1>6 DEF _tick
  <2> HIDE DEF x
  <2>3. Lawful(r, a, Decision(x, "none"), none, est)
    BY <2>1 DEF Lawful, Terminal, Decision, Command, Ready, Row
  <2>4. QED
    BY <2>2, <2>3, LapsedLawful
<1>7. CASE due /\ r.recovery_deadline # 0 /\ r.state = "observing"
  <2> DEFINE t == Capped(a.delay, r.recovery_deadline)
             n == r.observe_count + 1
             x == [r EXCEPT !.observe_count = n, !.next_action_at = t]
  <2>1. t \in Timer /\ n \in Nat
    BY Timers, AdapterFields DEF Row
  <2>2. _tick(r, a) = IF r.observe_count >= OBSERVE_BUDGET
                      THEN _unknown_after_observation(r, a, "observe")
                      ELSE Decision(x, "observe")
    BY <1>7 DEF _tick, Row
  <2> HIDE DEF t, n
  <2>3. /\ x \in Row /\ x.state = r.state /\ x.effect = r.effect
        /\ x.attempt = r.attempt /\ x.fence = r.fence
        /\ x.cancel_requested = r.cancel_requested
    BY Zenon, <2>1 DEF Row
  <2> HIDE DEF x
  <2>4. Lawful(r, a, Decision(x, "observe"), none, est)
    BY <1>7, <2>3 DEF Lawful, Terminal, Decision, Command, Ready, Row
  <2>5. Lawful(r, a, _unknown_after_observation(r, a, "observe"), none, est)
    BY <1>7, UnknownLawful
  <2>6. QED
    BY <2>2, <2>4, <2>5
<1>8. CASE due /\ r.recovery_deadline # 0 /\ r.state = "needs-operator"
  <2>1. _tick(r, a) = _reevaluate_parked(r, a)
    BY Zenon, <1>8 DEF _tick
  <2>2. QED
    BY Zenon, <1>8, <2>1, ReevaluateLawful
<1>9. QED
  BY Zenon, <1>2, <1>3, <1>4, <1>5, <1>6, <1>7, <1>8 DEF Row, State

\* A passed request deadline observes the row or ends it as observed.
LEMMA AfterRequestDeadlineLawful ==
  ASSUME NEW r \in Row, NEW a \in Adapter, NEW none \in BOOLEAN, NEW est \in BOOLEAN,
         NEW e, e.kind = "observed" => /\ e.effect \in Effect
                                       /\ e.effect = "none" => none
                                       /\ e.effect = "established" => est
  PROVE  Lawful(r, a, AfterRequestDeadline(r, e, a), none, est)
<1>1. CASE e.kind # "observed"
  <2> DEFINE x == Waiting(r, "observing", Look(r), 0, "unknown")
  <2>1. /\ x \in Row /\ x.state = "observing" /\ x.effect = "unknown"
        /\ x.attempt = r.attempt /\ x.fence = r.fence
        /\ x.cancel_requested = r.cancel_requested
    <3>1. "observing" \in State /\ "unknown" \in Effect /\ 0 \in Timer
      BY Literals, Timers
    <3>2. QED
      BY <3>1, WaitingFields, LookType
  <2>2. AfterRequestDeadline(r, e, a) = Decision(x, "observe")
    BY Zenon, <1>1 DEF AfterRequestDeadline, Waiting
  <2> HIDE DEF x
  <2>3. Lawful(r, a, Decision(x, "observe"), none, est)
    BY <2>1 DEF Lawful, Terminal, Decision, Command, Ready, Row
  <2>4. QED
    BY <2>2, <2>3
<1>2. CASE e.kind = "observed" /\ e.effect = "unknown" /\ ~blind_retry_is_safe(r, a)
  <2>1. AfterRequestDeadline(r, e, a) = _lost(r, a, "none", TRUE)
    BY <1>2 DEF AfterRequestDeadline
  <2>2. QED
    BY Zenon, <2>1, LostLawful
<1>3. CASE e.kind = "observed" /\ ~(e.effect = "unknown" /\ ~blind_retry_is_safe(r, a))
  <2> DEFINE state == IF e.effect = "established" THEN "succeeded" ELSE "failed"
             command == IF e.effect = "unknown" THEN "residue" ELSE "none"
  <2>1. AfterRequestDeadline(r, e, a) = Decision(Ended(r, state, e.effect), command)
    BY Zenon, <1>3 DEF AfterRequestDeadline
  <2>2. /\ state \in Terminal /\ command \in {"none", "residue"}
        /\ state = "succeeded" => est
    BY <1>3 DEF Terminal
  <2> HIDE DEF state, command
  <2>3. QED
    BY <1>3, <2>1, <2>2, EndLawful
<1>4. QED
  BY <1>1, <1>2, <1>3

(***************************************************************************)
(* The transition function.                                                *)
(***************************************************************************)
\* What an event says of the effect.
SaysNone(e) == e.kind \in {"reported", "observed"} /\ e.effect = "none"
SaysEstablished(e) ==
    \/ e.kind = "reported" /\ (e.effect = "established" \/ e.outcome = "done")
    \/ e.kind = "observed" /\ e.effect = "established"

\* The events other than a claim.
WellFormed(e) ==
    /\ e.kind \in {"cancel-requested", "heartbeat", "reported", "lease-lapsed",
                   "observed", "operator-action", "tick"}
    /\ e.kind = "heartbeat" => e.lease_deadline \in Timer
    /\ e.kind = "reported" => e.effect \in Effect \cup {NoEffect}
    /\ e.kind = "observed" => e.effect \in Effect

\* A terminal row absorbs every event.
LEMMA TerminalAbsorbs ==
  ASSUME NEW r, NEW e, NEW a, r.state \in Terminal
  PROVE  transition(r, e, a) = Decision(r, "none")
BY DEF transition, Dropped

\* Rules 1 to 4 and 7 of core.py, for every event but the claim.
THEOREM TransitionIsLawful ==
  ASSUME NEW r \in Row, NEW a \in Adapter, NEW e, WellFormed(e)
  PROVE  Lawful(r, a, transition(r, e, a), SaysNone(e), SaysEstablished(e))
<1> DEFINE none == SaysNone(e)
           est == SaysEstablished(e)
<1>1. none \in BOOLEAN /\ est \in BOOLEAN
  BY DEF SaysNone, SaysEstablished
<1>2. e.kind = "reported" =>
        /\ e.effect \in Effect \cup {NoEffect}
        /\ e.effect = "none" => none
        /\ e.effect = "established" \/ e.outcome = "done" => est
  BY DEF WellFormed, SaysNone, SaysEstablished
<1>3. e.kind = "observed" =>
        e.effect \in Effect /\ (e.effect = "none" => none)
          /\ (e.effect = "established" => est)
  BY DEF WellFormed, SaysNone, SaysEstablished
<1> HIDE DEF none, est
<1>4. CASE Dropped(r, e)
  BY <1>1, <1>4, KeepLawful DEF transition, none, est
<1>5. CASE ~Dropped(r, e) /\ PastRequestDeadline(r, e, a)
  <2>1. Lawful(r, a, AfterRequestDeadline(r, e, a), none, est)
    BY <1>1, <1>3, AfterRequestDeadlineLawful
  <2>2. QED
    BY <1>5, <2>1 DEF transition, none, est
<1>6. CASE ~Dropped(r, e) /\ ~PastRequestDeadline(r, e, a)
  <2>1. CASE e.kind = "cancel-requested"
    BY <1>1, <1>6, <2>1, CancelLawful DEF transition, none, est
  <2>2. CASE e.kind = "heartbeat"
    BY <1>1, <1>6, <2>2, HeartbeatLawful DEF transition, WellFormed, none, est
  <2>3. CASE e.kind = "reported"
    <3>1. Lawful(r, a, _reported(r, e, a), none, est)
      BY <1>1, <1>2, <2>3, ReportedLawful
    <3>2. QED
      BY <1>6, <2>3, <3>1 DEF transition, none, est
  <2>4. CASE e.kind = "lease-lapsed"
    BY <1>1, <1>6, <2>4, LapsedLawful DEF transition, none, est
  <2>5. CASE e.kind = "observed"
    <3>1. Lawful(r, a, _observed(r, e, a), none, est)
      BY <1>1, <1>3, <2>5, ObservedLawful
    <3>2. QED
      BY <1>6, <2>5, <3>1 DEF transition, none, est
  <2>6. CASE e.kind = "operator-action"
    BY <1>1, <1>6, <2>6, OperatorLawful DEF transition, none, est
  <2>7. CASE e.kind = "tick"
    BY <1>1, <1>6, <2>7, TickLawful DEF transition, Dropped, none, est
  <2>8. QED
    BY <2>1, <2>2, <2>3, <2>4, <2>5, <2>6, <2>7 DEF WellFormed
<1>7. QED
  BY <1>4, <1>5, <1>6

\* A claim that is taken: the row was ready and not cancelled.
LEMMA ClaimedFields ==
  ASSUME NEW r \in Row, NEW a \in Adapter, NEW e,
         e.kind = "claimed", e.attempt \in Nat, e.fence \in Nat,
         e.lease_deadline \in Timer, e.attempt > r.attempt,
         transition(r, e, a).row.attempt = e.attempt
  PROVE  LET x == transition(r, e, a).row IN
         /\ x \in Row /\ x.state = "running" /\ x.effect = "issued"
         /\ x.fence = e.fence
         /\ r.state \in Ready /\ r.cancel_requested = FALSE
         /\ x.cancel_requested = FALSE
<1>1. r.attempt \in Nat
  BY DEF Row
<1>2. ~Dropped(r, e)
  BY SMTT(60), <1>1 DEF transition, Decision
<1>3. ~PastRequestDeadline(r, e, a)
  <2>1. SUFFICES ASSUME PastRequestDeadline(r, e, a) PROVE FALSE
    OBVIOUS
  <2>2. Lawful(r, a, AfterRequestDeadline(r, e, a), FALSE, FALSE)
    BY Zenon, AfterRequestDeadlineLawful
  <2>3. transition(r, e, a) = AfterRequestDeadline(r, e, a)
    BY <1>2, <2>1 DEF transition
  <2>4. QED
    BY <1>1, <2>2, <2>3 DEF Lawful
<1>4. transition(r, e, a) = _claimed(r, e)
  BY <1>2, <1>3 DEF transition
<1> DEFINE x == [r EXCEPT !.state = "running", !.attempt = e.attempt,
                          !.fence = e.fence, !.lease_deadline = e.lease_deadline,
                          !.next_action_at = e.lease_deadline,
                          !.effect = "issued", !.observe_count = 0]
<1>5. /\ _claimed(r, e) = Decision(x, "none")
      /\ r.state \in Ready /\ r.cancel_requested = FALSE
  <2>1. _claimed(r, e) # Decision(r, "none")
    BY <1>1, <1>4 DEF Decision
  <2>2. QED
    BY <2>1 DEF _claimed, Ready, Row
<1>6. /\ x \in Row /\ x.state = "running" /\ x.effect = "issued"
      /\ x.fence = e.fence /\ x.cancel_requested = r.cancel_requested
  BY Zenon, Literals DEF Row
<1> HIDE DEF x
<1>7. QED
  BY <1>4, <1>5, <1>6 DEF Decision

\* The answer to a confirmed stop of a cancelled row ends it.
LEMMA ConfirmedStopEnds ==
  ASSUME NEW r \in Row, NEW a \in Adapter,
         r.state = "observing", r.cancel_requested = TRUE
  PROVE  LET x == transition(r, Observed("stopped"), a).row IN
         x.state = "cancelled" /\ x.effect = "stopped"
<1>1. /\ Observed("stopped").kind = "observed"
      /\ Observed("stopped").effect = "stopped"
  BY DEF Observed
<1>2. ~Dropped(r, Observed("stopped")) /\ ~PastRequestDeadline(r, Observed("stopped"), a)
  BY <1>1 DEF Dropped, _stale, Terminal, PastRequestDeadline
<1>3. transition(r, Observed("stopped"), a) = _observed(r, Observed("stopped"), a)
  BY <1>1, <1>2 DEF transition
<1>4. "stopped" # NoEffect
  BY DEF NoEffect
<1>5. _observed(r, Observed("stopped"), a) = Decision(Ended(r, "cancelled", "stopped"), "none")
  BY Zenon, <1>1, <1>4 DEF _observed, _advance_cancel
<1>6. "cancelled" \in Terminal /\ "stopped" \in Effect
  BY Literals DEF Terminal
<1>7. /\ Ended(r, "cancelled", "stopped").state = "cancelled"
      /\ Ended(r, "cancelled", "stopped").effect = "stopped"
  BY <1>6, EndedFields
<1>8. QED
  BY <1>3, <1>5, <1>7 DEF Decision

\* Two lawful decisions in a row, the second on the answer to the first.
LEMMA LawfulComposes ==
  ASSUME NEW r \in Row, NEW a \in Adapter, NEW d1, NEW d2,
         NEW n1 \in BOOLEAN, NEW n2 \in BOOLEAN, NEW e1 \in BOOLEAN, NEW e2 \in BOOLEAN,
         NEW none \in BOOLEAN, NEW est \in BOOLEAN,
         n1 \/ n2 => none, e1 \/ e2 => est,
         d1.row.state = "observing",
         Lawful(r, a, d1, n1, e1), Lawful(d1.row, a, d2, n2, e2)
  PROVE  Lawful(r, a, d2, none, est)
BY ZenonT(60) DEF Lawful, Terminal, Ready

\* reconciler.settle keeps the contract.
LEMMA SettleIsLawful ==
  ASSUME NEW r \in Row, NEW a \in Adapter, NEW e, WellFormed(e),
         NEW observation \in Effect, NEW stopped \in BOOLEAN
  PROVE  LET d == settle(r, e, a, observation, stopped) IN
         /\ Lawful(r, a, d, SaysNone(e) \/ observation = "none",
                   SaysEstablished(e) \/ observation = "established")
         /\ transition(r, e, a).command = "stop" /\ stopped
              => d.row.state = "cancelled" /\ d.row.effect = "stopped"
<1> DEFINE d1 == transition(r, e, a)
           d == settle(r, e, a, observation, stopped)
           none == SaysNone(e) \/ observation = "none"
           est == SaysEstablished(e) \/ observation = "established"
<1>1. Lawful(r, a, d1, SaysNone(e), SaysEstablished(e))
  BY TransitionIsLawful
<1>2. /\ SaysNone(e) \in BOOLEAN /\ SaysEstablished(e) \in BOOLEAN
      /\ none \in BOOLEAN /\ est \in BOOLEAN
  BY DEF SaysNone, SaysEstablished
<1>3. ASSUME NEW x \in Effect
      PROVE  /\ WellFormed(Observed(x))
             /\ SaysNone(Observed(x)) = (x = "none")
             /\ SaysEstablished(Observed(x)) = (x = "established")
  BY Zenon DEF WellFormed, SaysNone, SaysEstablished, Observed
<1>4. d1.row \in Row
  BY <1>1 DEF Lawful
<1>5. ASSUME NEW x \in Effect, x = observation \/ x \in {"stopped", "unknown"},
             d1.row.state = "observing"
      PROVE  Lawful(r, a, transition(d1.row, Observed(x), a), none, est)
  <2>1. Lawful(d1.row, a, transition(d1.row, Observed(x), a),
               x = "none", x = "established")
    BY <1>3, <1>4, TransitionIsLawful
  <2> DEFINE n2 == x = "none"
             e2 == x = "established"
             d2 == transition(d1.row, Observed(x), a)
  <2>2. n2 \in BOOLEAN /\ e2 \in BOOLEAN
    OBVIOUS
  <2>3. (SaysNone(e) \/ n2 => none) /\ (SaysEstablished(e) \/ e2 => est)
    BY <1>5
  <2> HIDE DEF n2, e2, d2, d1, none, est
  <2>4. Lawful(d1.row, a, d2, n2, e2)
    BY <2>1 DEF n2, e2, d2
  <2>5. Lawful(r, a, d2, none, est)
    BY <1>1, <1>2, <1>5, <2>2, <2>3, <2>4, LawfulComposes
  <2>6. QED
    BY <2>5 DEF d2
<1>6. CASE d1.command = "observe"
  <2>1. d1.row.state = "observing"
    BY <1>1, <1>6 DEF Lawful
  <2>2. d = transition(d1.row, Observed(observation), a)
    BY ZenonT(60), <1>6 DEF settle
  <2>3. QED
    BY ZenonT(60), <1>5, <1>6, <2>1, <2>2
<1>7. CASE d1.command = "stop"
  <2> DEFINE x == IF stopped THEN "stopped" ELSE "unknown"
  <2>1. d1.row.state = "observing" /\ d1.row.cancel_requested = TRUE
    BY <1>1, <1>7 DEF Lawful
  <2>2. d = transition(d1.row, Observed(x), a)
    BY <1>7 DEF settle
  <2>3. x \in Effect /\ x \in {"stopped", "unknown"}
    BY Literals
  <2>4. stopped => d.row.state = "cancelled" /\ d.row.effect = "stopped"
    BY Zenon, <1>4, <2>1, <2>2, ConfirmedStopEnds
  <2> HIDE DEF x
  <2>5. Lawful(r, a, d, none, est)
    BY ZenonT(60), <1>5, <2>1, <2>2, <2>3
  <2>6. QED
    BY ZenonT(60), <2>4, <2>5
<1>8. CASE d1.command \notin {"observe", "stop"}
  <2>1. d = d1
    BY ZenonT(60), <1>8 DEF settle
  <2>2. Lawful(r, a, d1, none, est)
    BY <1>1, <1>2 DEF Lawful, Terminal
  <2>3. QED
    BY <1>8, <2>1, <2>2
<1>9. QED
  BY <1>6, <1>7, <1>8

\* An ended row is settled to itself.
LEMMA SettleKeepsTerminal ==
  ASSUME NEW r, NEW a, NEW e, NEW observation, NEW stopped, r.state \in Terminal
  PROVE  settle(r, e, a, observation, stopped) = Decision(r, "none")
BY TerminalAbsorbs DEF settle, Decision
=============================================================================
