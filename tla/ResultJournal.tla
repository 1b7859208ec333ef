--------------------------- MODULE ResultJournal ---------------------------
(***************************************************************************)
(* The agent's durable journal of accepted orders and their results        *)
(* (vonk-agent state.rs) with everything that writes it: the claim lane    *)
(* and the order it executes, the orders that run beside the lane, and the *)
(* pass that probes interrupted orders and delivers retained results while *)
(* the lane polls or executes (executor/agent_loop.rs, off_lane.rs,        *)
(* operation_observation.rs).  One journal statement is one step; a        *)
(* request to the Controller is a step of its own that may be answered,    *)
(* refused or lost, and the agent may stop between any two steps.          *)
(***************************************************************************)
EXTENDS Integers, FiniteSets, FiniteSetsExt

CONSTANTS
    N,           \* number of orders, numbered in the order of their rows
    OffLane,     \* the orders that run beside the lane (builds)
    JobRuns,     \* the orders whose observation has no budget of its own
    MaxCrashes   \* bound on restarts of the agent

Fences == 1 .. N

ASSUME ResultJournalAssumption ==
    N \in Nat \ {0} /\ OffLane \cup JobRuns \subseteq Fences /\ MaxCrashes \in Nat

Results == {"none", "unknown", "definite"}

VARIABLES
    rows,      \* the journal: operations joined with its three marker tables
    cursor,    \* receipt_delivery_cursor
    look,      \* observation_cursor
    due,       \* where the clock stands: before the deadline, past it, past the budget
    effect,    \* what the order really did on the host
    launches,  \* how often its effect was dispatched
    told,      \* whether the Controller has answered the recorded result
    lane,      \* what the claim lane is doing
    beside,    \* what each order beside the lane is doing
    pass,      \* what the observation and delivery pass is doing
    up,        \* whether the agent runs
    crashes

journal == <<rows, cursor, look>>
tasks == <<lane, beside, pass>>
world == <<due, effect, launches, up, crashes>>
vars == <<journal, due, effect, launches, told, tasks, up, crashes>>

NoRow == [state |-> "none", claim |-> FALSE, result |-> "none", acknowledged |-> FALSE,
          settled |-> FALSE, rejection |-> "none", ended |-> FALSE]

\* A task: its step, the order it is about, the result it sends and the
\* acknowledgement it read with it.
Idle == [at |-> "idle", fence |-> 0, result |-> "none", acknowledged |-> FALSE]
At(step, f, r) == [at |-> step, fence |-> f, result |-> r, acknowledged |-> FALSE]

TypeOK ==
    /\ rows \in [Fences -> [state : {"none", "running", "completed"}, claim : BOOLEAN,
                            result : Results, acknowledged : BOOLEAN, settled : BOOLEAN,
                            rejection : {"none", "held", "due"}, ended : BOOLEAN]]
    /\ \A f \in Fences : (rows[f].state = "completed") <=> (rows[f].result # "none")
    /\ cursor \in 0 .. N /\ look \in 0 .. N
    /\ due \in [Fences -> {"live", "past", "spent"}]
    /\ effect \in [Fences -> {"none", "running", "gone"}]
    /\ launches \in [Fences -> 0 .. 2] /\ told \in [Fences -> BOOLEAN]
    /\ LET Task == [at : {"idle", "executing", "launched", "deliver", "sending", "refused"},
                    fence : 0 .. N, result : Results, acknowledged : BOOLEAN]
       IN  lane \in Task /\ pass \in Task /\ beside \in [OffLane -> Task]
    /\ up \in BOOLEAN /\ crashes \in 0 .. MaxCrashes

\* An empty journal, or one with an order an older agent began without
\* keeping its claim.
Init ==
    /\ rows \in {[f \in Fences |-> NoRow],
                 [[f \in Fences |-> NoRow] EXCEPT ![1].state = "running"]}
    /\ cursor = 0 /\ look = 0
    /\ due = [f \in Fences |-> "live"]
    /\ effect \in {[f \in Fences |-> "none"],
                   [f \in Fences |-> IF rows[f].state = "running" THEN "running" ELSE "none"]}
    /\ launches = [f \in Fences |-> IF rows[f].state = "running" THEN 1 ELSE 0]
    /\ told = [f \in Fences |-> FALSE]
    /\ lane = Idle /\ pass = Idle /\ beside = [f \in OffLane |-> Idle]
    /\ up = FALSE /\ crashes = 0

-----------------------------------------------------------------------------
(* The statements of the journal, each on the row of one fence.            *)

\* begin inserts the operation; marks kept under its fence stay.
Begun(r) == [r EXCEPT !.state = "running", !.claim = TRUE, !.result = "none",
                      !.acknowledged = FALSE]

Recorded(r, result) ==
    [r EXCEPT !.state = "completed", !.result = result, !.acknowledged = FALSE,
              !.settled = FALSE, !.rejection = "none"]

\* finish: a definite result is never replaced, and a repeated unknown is
\* not a new one.
finish(r, result) ==
    IF r.state = "none" \/ r.result = "definite" \/ r.result = result
    THEN r ELSE Recorded(r, result)

acknowledge(r) ==
    IF r.state = "completed" THEN [r EXCEPT !.acknowledged = TRUE, !.rejection = "none"]
    ELSE r

mark_reconciled(r) ==
    IF r.state = "completed" /\ r.acknowledged THEN [r EXCEPT !.settled = TRUE] ELSE r

reject_result(r) == [r EXCEPT !.rejection = "held"]

discard_rejected_result(r, result) ==
    IF r.rejection # "none" /\ r.result = result THEN [r EXCEPT !.settled = TRUE] ELSE r

\* recover_interrupted: an order kept without its claim cannot be observed
\* again and becomes unknown.
recover_interrupted(r) ==
    IF r.state = "running" /\ ~r.claim
    THEN [r EXCEPT !.state = "completed", !.result = "unknown", !.acknowledged = FALSE]
    ELSE r

\* A recorded result is new to the Controller.
Write(f, row) ==
    /\ rows' = [rows EXCEPT ![f] = row]
    /\ told' = [told EXCEPT ![f] = @ /\ row.result = rows[f].result]

-----------------------------------------------------------------------------
(* Requests to the Controller.                                             *)

\* deliver_result: offered unless its delivery is settled or held back.
deliver_result(row, f, result) ==
    IF row.settled \/ row.rejection = "held" THEN Idle ELSE At("sending", f, result)

Heard(t) == told' = [told EXCEPT ![t.fence] = @ \/ rows[t.fence].result = t.result]

\* Accepted, accepted in its core form, or superseded.  Only a retained
\* result that was acknowledged before is reconciled.
Accepted(t) ==
    /\ rows' = [rows EXCEPT ![t.fence] =
                  IF t.acknowledged THEN mark_reconciled(@) ELSE acknowledge(@)]
    /\ Heard(t)

\* Refused for good: the refusal is recorded before the delivery is settled.
Refused(t) == rows' = [rows EXCEPT ![t.fence] = reject_result(@)] /\ Heard(t)

Discard(t) ==
    /\ rows' = [rows EXCEPT ![t.fence] = discard_rejected_result(@, t.result)]
    /\ UNCHANGED told

Settle(t) ==
    \/ t.at = "sending" /\ Accepted(t)
    \/ t.at = "refused" /\ Discard(t)

Lost(t) == t.at = "sending" /\ UNCHANGED <<rows, told>>

-----------------------------------------------------------------------------
(* The claim lane and the orders beside it.                                *)

\* Every task of the agent ends with it; what is on the host goes on.
StartUp ==
    /\ ~up /\ up' = TRUE
    /\ rows' = [f \in Fences |-> recover_interrupted(rows[f])]
    /\ told' = [f \in Fences |-> told[f] /\ rows'[f].result = rows[f].result]
    /\ UNCHANGED <<cursor, look, due, effect, launches, tasks, crashes>>

\* An unsaved cursor starts again at the first row.
Crash ==
    /\ up /\ crashes < MaxCrashes
    /\ up' = FALSE /\ crashes' = crashes + 1
    /\ lane' = Idle /\ pass' = Idle /\ beside' = [f \in OffLane |-> Idle]
    /\ cursor' \in {0, cursor} /\ look' = 0
    /\ UNCHANGED <<rows, due, effect, launches, told>>

\* A result the journal could not keep is offered as unknown.
Uncertain(f) == deliver_result(rows[f], f, "unknown")

Execute(f) ==
    IF f \in OffLane
    THEN beside' = [beside EXCEPT ![f] = At("executing", f, "none")] /\ UNCHANGED lane
    ELSE lane' = At("executing", f, "none") /\ UNCHANGED beside

\* begin without a row: the order is in custody before anything runs.
BeginExecute(f) ==
    /\ rows[f].state = "none"
    /\ \A g \in Fences : g > f => rows[g].state = "none"
    /\ Write(f, Begun(rows[f]))
    /\ Execute(f)

\* Bug: an order without a result is taken for one that never ran.
Bug_BeginKnown(f) ==
    /\ rows[f].state # "none"
    /\ IF rows[f].claim /\ rows[f].result = "none" THEN Execute(f)
       ELSE lane' = deliver_result(rows[f], f, "unknown") /\ UNCHANGED beside
    /\ UNCHANGED <<rows, told>>

\* begin of a fence the journal knows: busy while it has a claim and no
\* result, and otherwise a replay of what is recorded.
BeginKnown(f) ==
    /\ rows[f].state # "none"
    /\ lane' = IF rows[f].claim /\ rows[f].result = "none" THEN Idle
               ELSE deliver_result(rows[f], f, IF rows[f].result = "none" THEN "unknown"
                                               ELSE rows[f].result)
    /\ UNCHANGED <<rows, told, beside>>

\* begin refused: the journal is unavailable.
BeginRefused(f) ==
    /\ lane' = Uncertain(f)
    /\ UNCHANGED <<rows, told, beside>>

\* The Controller hands out an order, perhaps again, under a live lease; the
\* pass that ran during the poll is dropped with the request it had open.
Claim(f) ==
    /\ up /\ lane = Idle /\ due[f] = "live" /\ pass' = Idle
    /\ BeginExecute(f) \/ BeginKnown(f) \/ BeginRefused(f)
    /\ UNCHANGED <<cursor, look, world>>

Executor(f) == IF f \in OffLane THEN beside[f] ELSE lane
Executing(f) == Executor(f).fence = f /\ Executor(f).at \in {"executing", "launched"}

Launch(f) ==
    /\ up /\ Executing(f) /\ Executor(f).at = "executing" /\ launches[f] < 2
    /\ IF f \in OffLane
       THEN beside' = [beside EXCEPT ![f].at = "launched"] /\ UNCHANGED lane
       ELSE lane' = [lane EXCEPT !.at = "launched"] /\ UNCHANGED beside
    /\ effect' = [effect EXCEPT ![f] = "running"]
    /\ launches' = [launches EXCEPT ![f] = @ + 1]
    /\ UNCHANGED <<journal, due, told, pass, up, crashes>>

EffectEnds(f) ==
    /\ effect[f] = "running" /\ effect' = [effect EXCEPT ![f] = "gone"]
    /\ UNCHANGED <<journal, due, launches, told, tasks, up, crashes>>

\* The order an executor may return: definite once the effect is over, or
\* when it was refused before any effect; unknown at any time.
Truthful(f) == {"unknown"} \cup IF effect[f] = "running" THEN {} ELSE {"definite"}

\* The executor returns and the journal takes its result, or fails to; then
\* the result is offered, unless the heartbeat task failed.
Executed(f) ==
    /\ up /\ Executing(f)
    /\ \E result \in Truthful(f), kept, offered \in BOOLEAN :
         LET row == IF kept THEN finish(rows[f], result) ELSE rows[f]
             next == IF offered
                     THEN deliver_result(row, f, IF kept THEN result ELSE "unknown")
                     ELSE Idle
         IN  /\ Write(f, row)
             /\ IF f \in OffLane
                THEN beside' = [beside EXCEPT ![f] = next] /\ UNCHANGED <<lane, pass>>
                ELSE lane' = next /\ pass' = Idle /\ UNCHANGED beside
    /\ UNCHANGED <<cursor, look, world>>

\* The answer to a result the lane or an order beside it offers.
LaneAnswer ==
    /\ up
    /\ \/ (Settle(lane) \/ Lost(lane)) /\ lane' = Idle
       \/ lane.at = "sending" /\ Refused(lane) /\ lane' = [lane EXCEPT !.at = "refused"]
    /\ UNCHANGED <<cursor, look, beside, pass, world>>

BesideAnswer(f) ==
    /\ up
    /\ \/ (Settle(beside[f]) \/ Lost(beside[f])) /\ beside' = [beside EXCEPT ![f] = Idle]
       \/ /\ beside[f].at = "sending" /\ Refused(beside[f])
          /\ beside' = [beside EXCEPT ![f].at = "refused"]
    /\ UNCHANGED <<cursor, look, lane, pass, world>>

-----------------------------------------------------------------------------
(* The pass that runs while the lane polls or executes.                    *)

Passing == up /\ lane.at \in {"idle", "executing", "launched"}

\* observation_claims: accepted orders without a definite result.
Observed(f) ==
    /\ rows[f].claim /\ ~rows[f].ended
    /\ rows[f].state = "running" \/ rows[f].result = "unknown"

\* One order in rotation.
Next_observed ==
    LET later == {f \in Fences : Observed(f) /\ f > look}
    IN  IF later # {} THEN Min(later) ELSE Min({f \in Fences : Observed(f)})

\* Bug: an order beside the lane is probed while it executes.
Bug_Owned(f) == f = lane.fence

\* An order in execution is left to its executor.
Owned(f) == f = lane.fence \/ (f \in OffLane /\ beside[f].at # "idle")

\* What a probe may say: it never reports a live effect as over, but it may
\* be unable to look.
Seen(f) ==
    {"unavailable"} \cup IF effect[f] = "running" THEN {"progressing"}
                         ELSE {"definite", "unknown", "absent"}

\* Observation ends with an unknown past the deadline, except that a probe
\* that could not look is repeated until the budget is spent.
Ends(f, seen) ==
    /\ due[f] # "live"
    /\ \/ seen \in {"unknown", "absent"}
       \/ seen = "unavailable" /\ f \notin JobRuns /\ due[f] = "spent"

Probed(f, seen) ==
    LET row == CASE seen \in {"definite", "unknown"} -> finish(rows[f], seen)
                 [] seen \in {"absent", "unavailable"} /\ due[f] # "live" ->
                        finish(rows[f], "unknown")
                 [] OTHER -> rows[f]
    IN  Write(f, [row EXCEPT !.ended = @ \/ Ends(f, seen)])

Reobserve ==
    /\ Passing /\ pass = Idle /\ \E f \in Fences : Observed(f)
    /\ look' = Next_observed
    /\ IF Owned(Next_observed) THEN UNCHANGED <<rows, told>>
       ELSE \E seen \in Seen(Next_observed) : Probed(Next_observed, seen)
    /\ pass' = [Idle EXCEPT !.at = "deliver"]
    /\ UNCHANGED <<cursor, lane, beside, world>>

\* The delivery pass goes on where the last one stopped.
Deliver ==
    /\ Passing /\ pass = Idle /\ ~\E f \in Fences : Observed(f)
    /\ pass' = [Idle EXCEPT !.at = "deliver"]
    /\ UNCHANGED <<journal, told, lane, beside, world>>

\* A result the Controller accepted is offered once more and then settled.
Retained(f) == rows[f].state = "completed" /\ ~rows[f].settled

\* next_delivery_result: the cursor moves before the request is sent.
NextDelivery ==
    /\ Passing /\ pass.at = "deliver"
    /\ LET waiting == {f \in Fences : Retained(f) /\ f > cursor}
       IN  IF waiting = {} THEN cursor' = 0 /\ pass' = Idle
           ELSE LET f == Min(waiting)
                IN  /\ cursor' = f
                    /\ pass' = IF rows[f].rejection = "held" THEN pass
                               ELSE [at |-> "sending", fence |-> f, result |-> rows[f].result,
                                     acknowledged |-> rows[f].acknowledged]
    /\ UNCHANGED <<rows, look, told, lane, beside, world>>

PassAnswer ==
    /\ Passing
    /\ \/ Settle(pass) /\ pass' = [Idle EXCEPT !.at = "deliver"]
       \/ pass.at = "sending" /\ Refused(pass) /\ pass' = [pass EXCEPT !.at = "refused"]
    /\ UNCHANGED <<cursor, look, lane, beside, world>>

\* No answer: the pass ends, and its result stays in custody.
PassLost ==
    /\ Passing /\ Lost(pass) /\ pass' = Idle
    /\ UNCHANGED <<cursor, look, lane, beside, world>>

-----------------------------------------------------------------------------
(* Time.                                                                   *)

Elapse(f) ==
    /\ rows[f].state # "none" /\ due[f] # "spent"
    /\ due' = [due EXCEPT ![f] = IF @ = "live" THEN "past" ELSE "spent"]
    /\ UNCHANGED <<journal, effect, launches, told, tasks, up, crashes>>

\* retry_due_at of a recorded refusal passes.
CoolDown(f) ==
    /\ rows[f].rejection = "held"
    /\ rows' = [rows EXCEPT ![f].rejection = "due"]
    /\ UNCHANGED <<cursor, look, told, tasks, world>>

Next ==
    \/ StartUp \/ Crash \/ LaneAnswer
    \/ Reobserve \/ Deliver \/ NextDelivery \/ PassAnswer \/ PassLost
    \/ \E f \in Fences :
         Claim(f) \/ Launch(f) \/ EffectEnds(f) \/ Executed(f) \/ Elapse(f) \/ CoolDown(f)
    \/ \E f \in OffLane : BesideAnswer(f)

Spec == Init /\ [][Next]_vars

\* The agent is restarted by its supervisor, executors return, effects have
\* an owner that ends them, and time passes.  Every pass of the lane probes
\* and delivers before it claims, so a claim does not keep the pass from its
\* turn (strong fairness), and a Controller that is asked again and again
\* answers at last.
Fairness ==
    /\ WF_vars(StartUp) /\ WF_vars(LaneAnswer)
    /\ SF_vars(Reobserve) /\ SF_vars(Deliver) /\ SF_vars(NextDelivery) /\ SF_vars(PassAnswer)
    /\ \A f \in Fences : /\ WF_vars(EffectEnds(f)) /\ WF_vars(Executed(f))
                         /\ WF_vars(Elapse(f)) /\ WF_vars(CoolDown(f))
    /\ \A f \in OffLane : WF_vars(BesideAnswer(f))

FairSpec == Spec /\ Fairness

-----------------------------------------------------------------------------
(* Properties.                                                             *)

\* The effect of an order is dispatched at most once, and only with its claim
\* in the journal: not again after a restart, a lost result or a repeated
\* claim of the same fence (begin answers busy or replays).
LaunchedOnce ==
    \A f \in Fences :
        launches[f] <= 1 /\ (effect[f] # "none" => rows[f].state # "none")

\* Delivery is settled only for a result the Controller has answered: an
\* answer to an earlier unknown never settles the definite result that
\* replaced it (acknowledge and mark_reconciled match the fence alone).
SettledIsAnswered == \A f \in Fences : rows[f].settled => told[f]

\* A result recorded as definite is true: nothing of the order is still
\* running on the host, whoever recorded it, the executor or a later probe.
DefiniteIsTrue == \A f \in Fences : rows[f].result = "definite" => effect[f] # "running"

\* Observation of an interrupted order ends only with its outcome recorded
\* and nothing of it alive, or when a probe that cannot look has spent its
\* budget (end_observation).
ObservedToTheEnd ==
    \A f \in Fences : rows[f].ended =>
        /\ rows[f].state = "completed"
        /\ effect[f] # "running" \/ (due[f] = "spent" /\ f \notin JobRuns)

\* A definite result is never changed by a repeated claim, a probe or a late
\* executor (finish answers stale).
DefiniteIsFinal ==
    [][\A f \in Fences : rows[f].result = "definite" => rows'[f].result = "definite"]_vars

\* Every order in custody comes to a result the Controller answers, through
\* restarts, lost requests and refusals.
EveryOrderIsAnswered == \A f \in Fences : rows[f].state # "none" ~> told[f]

\* What the journal says is so: settled results were answered, definite ones
\* are true, and observation ended for a reason (finish, acknowledge,
\* mark_reconciled, end_observation).
OutcomesAreTrue == TypeOK /\ SettledIsAnswered /\ DefiniteIsTrue /\ ObservedToTheEnd
=============================================================================
