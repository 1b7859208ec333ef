------------------------- MODULE LifecycleRowProofs -------------------------
(***************************************************************************)
(* The safety properties of one row under the core, for every budget,      *)
(* deadline, lease, delay, number of attempts and kind.                    *)
(***************************************************************************)
EXTENDS LifecycleRow, LifecycleCoreProofs

\* A report names the attempt it is about, so fence and attempt agree.
Fenced == row.fence = row.attempt

\* What makes the next claim of an irreversible row harmless.
ReadyNeverRan ==
    Irreversible /\ "resume" \notin Actions /\ row.attempt > 0 /\ row.state \in Ready
        => world[row.attempt] = "declined"

\* The row's own record "no effect" is the truth about its attempt.
NoneNeverRan ==
    Irreversible /\ row.attempt > 0 /\ row.effect = "none"
        => world[row.attempt] = "declined"

Real(w) == w = "established" \/ (w = "stopped" /\ ~Irreversible)

\* The row's own record "established" is the truth, and so is a success.
EstablishedIsReal ==
    row.effect = "established" \/ row.state = "succeeded" => Real(Here)

EndedHasNoClock == row.state \in Terminal => row.next_action_at = NoTime

IInv == /\ TypeOK /\ Fenced /\ NoBlindReplay /\ ReadyNeverRan /\ NoneNeverRan
        /\ EstablishedIsReal /\ EndedHasNoClock

(***************************************************************************)
(* Types of what an event is built from.                                   *)
(***************************************************************************)
\* The adapter of a row is of its type, for every delay the backoff chooses.
LEMMA AdapterType ==
  ASSUME TypeOK, NEW delay \in Delays
  PROVE  adapter(delay) \in Adapter
BY RowAssumption DEF TypeOK, adapter, Adapter

\* Also for the least delay, which claims and heartbeats use.
LEMMA OneIsDelay ==
  ASSUME TypeOK
  PROVE  adapter(1) \in Adapter
BY RowAssumption, BudgetsAssumption DEF TypeOK, adapter, Adapter

\* Evidence of "none" means it never launched, of "established" that it was.
LEMMA EvidenceFacts ==
  ASSUME NEW w \in World, NEW x \in Evidence(w)
  PROVE  /\ x \in Effect
         /\ x = "none" => w = "declined"
         /\ x = "established" => w = "established"
BY DEF World, Evidence, Effect

\* What the current attempt did is one of the known outcomes.
LEMMA HereType ==
  ASSUME TypeOK
  PROVE  /\ Here \in World
         /\ row.attempt \in Nat
         /\ row.attempt > 0 => row.attempt \in Attempts /\ Here = world[row.attempt]
         /\ row.attempt = 0 => Here = "unissued"
BY RowAssumption DEF TypeOK, Here, World, Row, Attempts

\* What the settled row of an event must not claim beyond the truth.
TruthfulEvent(e) ==
    /\ SaysNone(e) => Here = "declined"
    /\ SaysEstablished(e) => Here = "established"

\* A confirmed stop launches and establishes nothing.
LEMMA StopChanges ==
  ASSUME NEW w \in World
  PROVE  /\ AfterStop(w) \in World
         /\ w = "declined" => AfterStop(w) = "declined"
BY DEF World, AfterStop

(***************************************************************************)
(* Every event that settles keeps the invariant.                           *)
(***************************************************************************)
\* Settling any truthful event keeps the invariant.
LEMMA SettleKeeps ==
  ASSUME IInv, NEW e, WellFormed(e), TruthfulEvent(e), Settle(e)
  PROVE  IInv'
<1> USE DEF IInv
<1>1. PICK delay \in Delays, observation \in Evidence(Here), stopped \in BOOLEAN :
        LET a    == adapter(delay)
            stop == transition(row, e, a).command = "stop"
        IN  /\ row' = settle(row, e, a, observation, stopped).row
            /\ world' = IF stop /\ stopped /\ row.attempt > 0
                        THEN [world EXCEPT ![row.attempt] = AfterStop(@)] ELSE world
            /\ UNCHANGED <<request, talking>>
  BY DEF Settle
<1> DEFINE a == adapter(delay)
           halt == transition(row, e, a).command = "stop" /\ stopped
           none == SaysNone(e) \/ observation = "none"
           est == SaysEstablished(e) \/ observation = "established"
           d == settle(row, e, a, observation, stopped)
<1>2. a \in Adapter /\ a.irreversible = Irreversible /\ a.actions = Actions
  BY AdapterType DEF adapter
<1>3. row \in Row
  BY DEF TypeOK
<1>4. /\ observation \in Effect
      /\ none => Here = "declined"
      /\ est => Here = "established"
  BY HereType, EvidenceFacts DEF TruthfulEvent
<1>5. /\ Lawful(row, a, d, none, est)
      /\ halt => d.row.state = "cancelled" /\ d.row.effect = "stopped"
  BY <1>2, <1>3, <1>4, SettleIsLawful
<1>6. row' = d.row
  BY <1>1
<1>7. world' = IF halt /\ row.attempt > 0
               THEN [world EXCEPT ![row.attempt] = AfterStop(world[row.attempt])] ELSE world
  BY <1>1, HereType DEF TypeOK
<1>8. row.state \in Terminal => row' = row
  BY <1>6, SettleKeepsTerminal DEF Decision
<1>10. UNCHANGED <<request, talking>>
  BY <1>1
<1> HIDE DEF a, halt, none, est, d
<1>11. /\ row' \in Row /\ row'.attempt = row.attempt /\ row'.fence = row.fence
  BY <1>5, <1>6 DEF Lawful
<1>12. /\ world' \in [Attempts -> World]
       /\ \A b \in Attempts : world[b] = "declined" => world'[b] = "declined"
       /\ ~halt => world' = world
  BY <1>7, HereType, StopChanges DEF TypeOK
<1>13. TypeOK'
  BY <1>10, <1>11, <1>12 DEF TypeOK
<1>14. Fenced'
  BY <1>11 DEF Fenced
<1>15. NoBlindReplay'
  BY <1>11, <1>12 DEF NoBlindReplay
<1>16. ReadyNeverRan'
  <2>1. SUFFICES ASSUME Irreversible, "resume" \notin Actions, row.attempt > 0,
                        row'.state \in Ready
                 PROVE  world[row.attempt] = "declined"
    BY <1>11, <1>12, HereType DEF ReadyNeverRan
  <2>2. row.state \in Ready \/ row.effect = "none" \/ none
    BY <1>2, <1>5, <1>6, <2>1 DEF Lawful
  <2>3. QED
    BY <1>4, <2>1, <2>2, HereType DEF ReadyNeverRan, NoneNeverRan
<1>17. NoneNeverRan'
  <2>1. SUFFICES ASSUME Irreversible, row.attempt > 0, row'.effect = "none"
                 PROVE  world[row.attempt] = "declined"
    BY <1>11, <1>12, HereType DEF NoneNeverRan
  <2>2. row.effect = "none" \/ none
    BY <1>2, <1>5, <1>6, <2>1 DEF Lawful
  <2>3. QED
    BY <1>4, <2>1, <2>2, HereType DEF NoneNeverRan
<1>18. EstablishedIsReal'
  <2>1. CASE halt
    BY <1>5, <1>6, <2>1 DEF EstablishedIsReal
  <2>2. CASE ~halt
    <3>1. Here' = Here
      BY <1>11, <1>12, <2>2 DEF Here
    <3>2. row'.effect = "established" \/ row'.state = "succeeded"
            => row.state = "succeeded" \/ row.effect = "established" \/ est
      BY <1>5, <1>6 DEF Lawful
    <3>3. QED
      BY <1>4, <3>1, <3>2 DEF EstablishedIsReal, Real
  <2>3. QED
    BY <2>1, <2>2
<1>19. EndedHasNoClock'
  BY <1>5, <1>6, <1>8 DEF Lawful, EndedHasNoClock
<1>20. QED
  BY <1>13, <1>14, <1>15, <1>16, <1>17, <1>18, <1>19

\* A report claims nothing that is not so.
LEMMA ReportableFacts ==
  ASSUME NEW w \in World, NEW report \in Reportable(w)
  PROVE  /\ report.effect \in Effect \cup {NoEffect}
         /\ report.effect = "none" => w = "declined"
         /\ report.effect # "established"
         /\ report.outcome = "done" => w = "established"
BY DEF Reportable, Said, World, Effect, NoEffect

\* A report of the current attempt settles, one of an older is dropped.
LEMMA ReportKeeps ==
  ASSUME IInv, NEW b \in Attempts, Report(b)
  PROVE  IInv'
<1>1. PICK report \in Reportable(world[b]) :
        Settle([kind |-> "reported", fence |-> b, outcome |-> report.outcome,
                retryable |-> report.retryable, effect |-> report.effect])
  BY DEF Report
<1> DEFINE e == [kind |-> "reported", fence |-> b, outcome |-> report.outcome,
                 retryable |-> report.retryable, effect |-> report.effect]
<1>2. world[b] \in World
  BY DEF IInv, TypeOK
<1>3. /\ report.effect \in Effect \cup {NoEffect}
      /\ report.effect = "none" => world[b] = "declined"
      /\ report.effect # "established"
      /\ report.outcome = "done" => world[b] = "established"
  BY <1>1, <1>2, ReportableFacts
<1>4. WellFormed(e)
  BY <1>3 DEF WellFormed
<1>5. CASE b = row.attempt
  <2>1. Here = world[b]
    BY <1>5, HereType DEF IInv, Attempts
  <2>2. TruthfulEvent(e)
    BY <1>3, <2>1 DEF TruthfulEvent, SaysNone, SaysEstablished
  <2>3. QED
    BY <1>1, <1>4, <2>2, SettleKeeps
<1>6. CASE b # row.attempt
  \* The report of another attempt is stale: rule 7.
  <2>1. _stale(row, e)
    BY <1>6, HereType DEF _stale, Report, IInv, Fenced, Attempts
  <2>2. ASSUME NEW a
        PROVE  transition(row, e, a) = Decision(row, "none")
    BY <2>1 DEF transition, Dropped
  <2> HIDE DEF e
  <2>3. /\ row' = row /\ world' = world /\ request' = request
        /\ talking' = talking
    <3>1. Settle(e)
      BY <1>1 DEF e
    <3>2. QED
      BY <2>2, <3>1 DEF Settle, settle, Decision
  <2>4. QED
    BY <2>3 DEF IInv, TypeOK, Fenced, NoBlindReplay, ReadyNeverRan, NoneNeverRan,
                EstablishedIsReal, EndedHasNoClock, Here
<1>7. QED
  BY <1>5, <1>6

\* A claim issues an attempt only of a row that was ready for it.
LEMMA ClaimKeeps ==
  ASSUME IInv, Claim
  PROVE  IInv'
<1> DEFINE n == row.attempt + 1
           claim(lease) == [kind |-> "claimed", attempt |-> n, fence |-> n,
                            lease_deadline |-> lease]
<1>1. PICK lease \in Leases :
        /\ n \in Attempts
        /\ transition(row, claim(lease), adapter(1)).row.attempt = n
        /\ row' = transition(row, claim(lease), adapter(1)).row
        /\ world' = [world EXCEPT ![n] = "pending"]
        /\ UNCHANGED <<request, talking>>
  BY DEF Claim
<1>2. /\ row \in Row /\ row.attempt \in Nat /\ lease \in Timer
  BY RowAssumption, Timers, HereType DEF IInv, TypeOK
<1> DEFINE e == claim(lease)
<1>3. /\ e.kind = "claimed" /\ e.attempt = n /\ e.fence = n
      /\ e.lease_deadline = lease
  OBVIOUS
<1>4. n \in Nat /\ n > row.attempt
  BY <1>2
<1>5. transition(row, e, adapter(1)).row.attempt = e.attempt
  BY <1>1
<1>6. row' = transition(row, e, adapter(1)).row
  BY <1>1
<1> HIDE DEF e
<1>7. /\ row' \in Row /\ row'.state = "running" /\ row'.effect = "issued"
      /\ row'.fence = n /\ row'.attempt = n /\ row.state \in Ready
  BY ZenonT(60), <1>2, <1>3, <1>4, <1>5, <1>6, OneIsDelay, ClaimedFields DEF IInv
<1>8. TypeOK'
  BY <1>1, <1>7 DEF IInv, TypeOK, World, Attempts
<1>9. NoBlindReplay'
  <2>1. SUFFICES ASSUME Irreversible, "resume" \notin Actions,
                        NEW b \in Attempts, b < n
                 PROVE  world[b] = "declined"
    BY <1>1, <1>4, <1>7 DEF NoBlindReplay, IInv, TypeOK, Attempts
  <2>2. CASE b < row.attempt
    BY <2>1, <2>2 DEF IInv, NoBlindReplay
  <2>3. CASE b = row.attempt
    BY <1>7, <2>1, <2>3 DEF IInv, ReadyNeverRan, Attempts
  <2>4. QED
    BY <1>2, <2>1, <2>2, <2>3 DEF Attempts
<1>10. QED
  BY <1>7, <1>8, <1>9 DEF IInv, Fenced, ReadyNeverRan, NoneNeverRan,
                          EstablishedIsReal, EndedHasNoClock, Ready, Terminal

\* A heartbeat moves the lease alone.
LEMMA HeartbeatKeeps ==
  ASSUME IInv, Heartbeat
  PROVE  IInv'
<1> DEFINE beat(lease) == [kind |-> "heartbeat", fence |-> row.attempt,
                           lease_deadline |-> lease]
<1>1. PICK lease \in Leases :
        /\ row' = transition(row, beat(lease), adapter(1)).row
        /\ UNCHANGED <<request, world, talking>>
  BY DEF Heartbeat
<1>2. row \in Row /\ lease \in Timer
  BY RowAssumption, Timers DEF IInv, TypeOK
<1> DEFINE e == beat(lease)
<1>3. WellFormed(e) /\ ~SaysNone(e) /\ ~SaysEstablished(e)
  BY <1>2 DEF WellFormed, SaysNone, SaysEstablished
<1> DEFINE d == transition(row, e, adapter(1))
<1>4. row' = d.row
  BY <1>1
<1>5. row.state \in Terminal => row' = row
  BY <1>4, TerminalAbsorbs DEF Decision
<1> HIDE DEF e
<1>6. Lawful(row, adapter(1), d, SaysNone(e), SaysEstablished(e))
  BY <1>2, <1>3, OneIsDelay, TransitionIsLawful DEF IInv
<1>7. adapter(1).irreversible = Irreversible /\ adapter(1).actions = Actions
  BY DEF adapter
<1> HIDE DEF d
<1>8. /\ row' \in Row /\ row'.attempt = row.attempt /\ row'.fence = row.fence
      /\ row'.state \in Terminal => row.state \in Terminal \/ row'.next_action_at = NoTime
      /\ row'.effect = "established" \/ row'.state = "succeeded"
           => row.state = "succeeded" \/ row.effect = "established"
  BY <1>3, <1>4, <1>6 DEF Lawful
<1>9. /\ Irreversible /\ row.attempt > 0 /\ "resume" \notin Actions
            /\ row'.state \in Ready => row.state \in Ready \/ row.effect = "none"
      /\ Irreversible /\ row.attempt > 0 /\ row'.effect = "none" => row.effect = "none"
  BY <1>3, <1>4, <1>6, <1>7 DEF Lawful
<1>10. Here' = Here /\ world' = world
  BY <1>1, <1>8 DEF Here
<1>11. TypeOK'
  BY <1>1, <1>8 DEF IInv, TypeOK
<1>12. Fenced' /\ NoBlindReplay' /\ EstablishedIsReal' /\ EndedHasNoClock'
  BY <1>5, <1>8, <1>10 DEF IInv, Fenced, NoBlindReplay, EstablishedIsReal, EndedHasNoClock
<1>13. ReadyNeverRan' /\ NoneNeverRan'
  BY <1>8, <1>9, <1>10 DEF IInv, ReadyNeverRan, NoneNeverRan
<1>14. QED
  BY <1>11, <1>12, <1>13 DEF IInv

\* The executor never launches what was declined.
LEMMA ExecuteKeeps ==
  ASSUME IInv, NEW b \in Attempts, Execute(b)
  PROVE  IInv'
<1>1. PICK w \in Moves(world[b]) : world' = [world EXCEPT ![b] = w]
  BY Zenon DEF Execute
<1>2. UNCHANGED <<row, request, talking>>
  BY DEF Execute
<1>3. /\ world \in [Attempts -> World] /\ world[b] \in World
  BY DEF IInv, TypeOK
<1>4. /\ w \in World /\ world[b] # "declined"
      /\ world[b] # "stopped"
      /\ world[b] = "established" => w = "stopped" /\ ~Irreversible
  BY <1>1, <1>3, RowAssumption DEF Moves, World
<1>5. /\ world' \in [Attempts -> World]
      /\ \A c \in Attempts : world[c] = "declined" => world'[c] = "declined"
      /\ \A c \in Attempts : Real(world[c]) => Real(world'[c])
  BY <1>1, <1>3, <1>4 DEF Real
<1>6. TypeOK' /\ Fenced' /\ EndedHasNoClock'
  BY <1>2, <1>5 DEF IInv, TypeOK, Fenced, EndedHasNoClock
<1>7. NoBlindReplay' /\ ReadyNeverRan' /\ NoneNeverRan'
  BY <1>2, <1>5, HereType DEF IInv, NoBlindReplay, ReadyNeverRan, NoneNeverRan
<1>8. EstablishedIsReal'
  <2>1. Real(Here) => row.attempt \in Attempts /\ Here = world[row.attempt]
    BY HereType DEF IInv, Real
  <2>2. Real(Here) => Real(Here')
    BY <1>2, <1>5, <2>1, HereType DEF Here, IInv, Attempts
  <2>3. QED
    BY <1>2, <2>2 DEF IInv, EstablishedIsReal
<1>9. QED
  BY <1>6, <1>7, <1>8 DEF IInv

\* The clock moves timers alone.
LEMMA ElapseKeeps ==
  ASSUME IInv, Elapse
  PROVE  IInv'
<1>1. row \in Row
  BY DEF IInv, TypeOK
<1>2. /\ Elapsed(row.lease_deadline) \in Timer /\ Elapsed(row.next_action_at) \in Timer
      /\ Elapsed(row.recovery_deadline) \in Timer /\ Elapsed(request) \in Timer
  BY <1>1, Timers DEF IInv, TypeOK, Row
<1>3. /\ row' \in Row /\ row'.state = row.state /\ row'.attempt = row.attempt
      /\ row'.fence = row.fence /\ row'.effect = row.effect
      /\ row'.next_action_at = Elapsed(row.next_action_at)
  BY Zenon, <1>1, <1>2 DEF Elapse, Row
<1>4. UNCHANGED <<world, talking>> /\ request' = Elapsed(request)
  BY DEF Elapse
<1>5. Elapsed(NoTime) = NoTime
  BY DEF Elapsed, NoTime
<1>6. TypeOK'
  BY <1>2, <1>3, <1>4 DEF IInv, TypeOK
<1>7. QED
  BY <1>3, <1>4, <1>5, <1>6
     DEF IInv, Fenced, NoBlindReplay, ReadyNeverRan, NoneNeverRan, EstablishedIsReal,
         EndedHasNoClock, Here

\* A row just submitted, or adopted, satisfies the invariant.
LEMMA InitHolds == Init => IInv
<1> SUFFICES ASSUME Init PROVE IInv
  OBVIOUS
<1>1. /\ request \in Timer /\ talking \in BOOLEAN
  BY RowAssumption, BudgetsAssumption DEF Init
<1>2. ASSUME NEW state \in State, NEW attempt \in Nat, NEW effect \in Effect,
             NEW deadline \in Deadlines, row = NewRow(state, attempt, effect, deadline)
      PROVE  /\ row \in Row /\ row.state = state /\ row.attempt = attempt
             /\ row.fence = attempt /\ row.effect = effect
             /\ row.next_action_at = NoTime
  <2>1. deadline \in Timer /\ NoTime \in Timer
    BY RowAssumption, Timers
  <2>2. QED
    BY <1>2, <2>1 DEF NewRow, Row
<1>3. CASE Submitted
  <2>1. PICK deadline \in Deadlines : row = NewRow("queued", 0, "none", deadline)
    BY <1>3 DEF Submitted
  <2>2. "queued" \in State /\ "none" \in Effect
    BY Literals
  <2>3. /\ row \in Row /\ row.state = "queued" /\ row.attempt = 0
        /\ row.fence = 0 /\ row.effect = "none"
    BY <1>2, <2>1, <2>2
  <2>4. world \in [Attempts -> World]
    BY <1>3 DEF Submitted, World
  <2>5. QED
    BY <1>1, <2>3, <2>4, RowAssumption
       DEF IInv, TypeOK, Fenced, NoBlindReplay, ReadyNeverRan, NoneNeverRan,
           EstablishedIsReal, EndedHasNoClock, Terminal, Attempts
<1>4. CASE Adopted
  <2>1. PICK w \in World \ {"unissued"}, deadline \in Deadlines :
          /\ world = [c \in Attempts |-> IF c = 1 THEN w ELSE "unissued"]
          /\ \E effect \in Evidence(w) : row = NewRow("needs-operator", 1, effect, deadline)
    BY <1>4 DEF Adopted
  <2>2. PICK effect \in Evidence(w) : row = NewRow("needs-operator", 1, effect, deadline)
    BY <2>1
  <2>3. /\ effect \in Effect /\ "needs-operator" \in State
        /\ effect = "none" => w = "declined"
        /\ effect = "established" => w = "established"
    BY EvidenceFacts, Literals
  <2>4. /\ row \in Row /\ row.state = "needs-operator" /\ row.attempt = 1
        /\ row.fence = 1 /\ row.effect = effect
    BY <1>2, <2>2, <2>3
  <2>5. 1 \in Attempts
    BY RowAssumption DEF Attempts
  <2>6. world \in [Attempts -> World] /\ world[1] = w
    BY <2>1, <2>5 DEF World
  <2>7. TypeOK
    BY <1>1, <2>4, <2>6, RowAssumption DEF TypeOK
  <2>8. Fenced /\ NoBlindReplay /\ EndedHasNoClock /\ ReadyNeverRan
    BY <2>4 DEF Fenced, NoBlindReplay, EndedHasNoClock, ReadyNeverRan, Terminal, Ready,
                Attempts
  <2>9. NoneNeverRan /\ EstablishedIsReal
    BY <2>3, <2>4, <2>6 DEF NoneNeverRan, EstablishedIsReal, Real, Here
  <2>10. QED
    BY <2>7, <2>8, <2>9 DEF IInv
<1>5. QED
  BY <1>3, <1>4 DEF Init

\* Every step keeps the invariant.
LEMMA NextKeeps == IInv /\ [Next]_vars => IInv'
<1> SUFFICES ASSUME IInv, [Next]_vars PROVE IInv'
  OBVIOUS
<1>1. ASSUME NEW e, e.kind \in {"lease-lapsed", "cancel-requested", "operator-action", "tick"},
             Settle(e)
      PROVE  IInv'
  <2>1. WellFormed(e) /\ TruthfulEvent(e)
    BY <1>1 DEF WellFormed, TruthfulEvent, SaysNone, SaysEstablished
  <2>2. QED
    BY <1>1, <2>1, SettleKeeps
<1>2. CASE Lapse
  BY <1>1, <1>2 DEF Lapse
<1>3. CASE CancelRequested
  BY <1>1, <1>3 DEF CancelRequested
<1>4. CASE Operator
  BY <1>1, <1>4 DEF Operator
<1>5. CASE Tick
  BY <1>1, <1>5 DEF Tick
<1>6. CASE FallSilent \/ UNCHANGED vars
  BY Zenon, <1>6 DEF FallSilent, vars, IInv, TypeOK, Fenced, NoBlindReplay, ReadyNeverRan,
              NoneNeverRan, EstablishedIsReal, EndedHasNoClock, Here
<1>7. QED
  BY ZenonT(60), <1>2, <1>3, <1>4, <1>5, <1>6, ClaimKeeps, HeartbeatKeeps, ReportKeeps,
     ExecuteKeeps, ElapseKeeps DEF Next

\* The inductive invariant holds of every reachable state.
THEOREM Invariance == Spec => []IInv
<1>1. QED
  BY InitHolds, NextKeeps, PTL DEF Spec

\* Every reachable row is a row of the core, whatever is delivered to it.
THEOREM TypeCorrect == Spec => []TypeOK
<1>1. IInv => TypeOK
  BY DEF IInv
<1>2. QED
  BY <1>1, Invariance, PTL

\* Rules 2 and 3 of the core for every kind that cannot be repeated: no attempt
\* is issued unless each earlier one is known never to have launched.
THEOREM NeverReplayed == Spec => []NoBlindReplay
<1>1. IInv => NoBlindReplay
  BY DEF IInv
<1>2. QED
  BY <1>1, Invariance, PTL

\* A row succeeds only on an effect that was really established.
THEOREM SuccessIsEarned == Spec => []SuccessIsReal
<1>1. IInv => SuccessIsReal
  BY DEF IInv, EstablishedIsReal, Real, SuccessIsReal
<1>2. QED
  BY <1>1, Invariance, PTL

\* What every settled event leaves of an ended row and of a cancel request.
Kept == /\ row.state \in Terminal => row' = row
        /\ row.cancel_requested = TRUE =>
              row'.cancel_requested = TRUE /\ row'.attempt = row.attempt

\* How the row changes in a step: by a settled event, a heartbeat, a claim, the
\* clock, or not at all.
LEMMA RowSteps ==
  ASSUME IInv, [Next]_vars
  PROVE  /\ row.state \in Terminal =>
               row' = [row EXCEPT !.recovery_deadline = row'.recovery_deadline,
                                  !.lease_deadline = row'.lease_deadline]
         /\ row.cancel_requested = TRUE =>
               row'.cancel_requested = TRUE /\ row'.attempt = row.attempt
<1>1. row \in Row
  BY DEF IInv, TypeOK
<1>2. row' = row => row' = [row EXCEPT !.recovery_deadline = row'.recovery_deadline,
                                       !.lease_deadline = row'.lease_deadline]
  BY Zenon, <1>1 DEF Row
<1>3. ASSUME NEW e, WellFormed(e), Settle(e)
      PROVE  Kept
  <2>1. PICK delay \in Delays, observation \in Evidence(Here), stopped \in BOOLEAN :
          row' = settle(row, e, adapter(delay), observation, stopped).row
    BY <1>3 DEF Settle
  <2>2. adapter(delay) \in Adapter /\ observation \in Effect
    BY ZenonT(60), AdapterType, HereType, EvidenceFacts DEF IInv
  <2>3. Lawful(row, adapter(delay), settle(row, e, adapter(delay), observation, stopped),
               SaysNone(e) \/ observation = "none",
               SaysEstablished(e) \/ observation = "established")
    BY <1>1, <1>3, <2>2, SettleIsLawful
  <2>4. row.state \in Terminal => row' = row
    BY <2>1, SettleKeepsTerminal DEF Decision
  <2>5. QED
    BY <2>1, <2>3, <2>4 DEF Lawful, Kept
<1>4. ASSUME NEW e, e.kind \in {"lease-lapsed", "cancel-requested", "operator-action", "tick"},
             Settle(e)
      PROVE  Kept
  <2>1. WellFormed(e)
    BY <1>4 DEF WellFormed
  <2>2. QED
    BY <1>3, <1>4, <2>1
<1>5. CASE Lapse \/ CancelRequested \/ Operator \/ Tick
  <2>1. Kept
    <3>1. CASE Lapse
      BY <1>4, <3>1 DEF Lapse
    <3>2. CASE CancelRequested
      BY <1>4, <3>2 DEF CancelRequested
    <3>3. CASE Operator
      BY <1>4, <3>3 DEF Operator
    <3>4. CASE Tick
      BY <1>4, <3>4 DEF Tick
    <3>5. QED
      BY <1>5, <3>1, <3>2, <3>3, <3>4
  <2>2. QED
    BY <1>2, <2>1 DEF Kept
<1>6. CASE \E b \in Attempts : Report(b)
  <2>1. PICK b \in Attempts : Report(b)
    BY <1>6
  <2>2. PICK report \in Reportable(world[b]) :
          Settle([kind |-> "reported", fence |-> b, outcome |-> report.outcome,
                  retryable |-> report.retryable, effect |-> report.effect])
    BY <2>1 DEF Report
  <2>3. report.effect \in Effect \cup {NoEffect}
    BY ReportableFacts DEF IInv, TypeOK
  <2>4. WellFormed([kind |-> "reported", fence |-> b, outcome |-> report.outcome,
                    retryable |-> report.retryable, effect |-> report.effect])
    BY <2>3 DEF WellFormed
  <2>5. QED
    BY Zenon, <1>2, <1>3, <2>2, <2>4 DEF Kept
<1>7. CASE Heartbeat
  <2>1. PICK lease \in Leases :
          row' = transition(row, [kind |-> "heartbeat", fence |-> row.attempt,
                                  lease_deadline |-> lease], adapter(1)).row
    BY <1>7 DEF Heartbeat
  <2> DEFINE e == [kind |-> "heartbeat", fence |-> row.attempt, lease_deadline |-> lease]
  <2>2. lease \in Timer
    BY RowAssumption, Timers
  <2>3. WellFormed(e)
    BY <2>2 DEF WellFormed
  <2>4. row' = transition(row, e, adapter(1)).row
    BY <2>1
  <2> HIDE DEF e
  <2>5. Lawful(row, adapter(1), transition(row, e, adapter(1)), SaysNone(e),
               SaysEstablished(e))
    BY <1>1, <2>3, OneIsDelay, TransitionIsLawful DEF IInv
  <2>6. row.state \in Terminal => row' = row
    BY <2>4, TerminalAbsorbs DEF Decision
  <2>7. QED
    BY <1>2, <2>4, <2>5, <2>6 DEF Lawful
<1>8. CASE Claim
  <2> DEFINE n == row.attempt + 1
  <2>1. PICK lease \in Leases :
          /\ row' = transition(row, [kind |-> "claimed", attempt |-> n, fence |-> n,
                                     lease_deadline |-> lease], adapter(1)).row
          /\ row'.attempt = n
    BY <1>8 DEF Claim
  <2> DEFINE e == [kind |-> "claimed", attempt |-> n, fence |-> n, lease_deadline |-> lease]
  <2>2. /\ e.kind = "claimed" /\ e.attempt = n /\ e.fence = n
        /\ e.lease_deadline = lease
    OBVIOUS
  <2>3. n \in Nat /\ n > row.attempt /\ lease \in Timer
    BY RowAssumption, Timers, HereType DEF IInv
  <2>4. row' = transition(row, e, adapter(1)).row
    BY <2>1
  <2> HIDE DEF e
  <2>5. row.state \in Ready /\ row.cancel_requested = FALSE
    BY Zenon, <1>1, <2>1, <2>2, <2>3, <2>4, OneIsDelay, ClaimedFields DEF IInv
  <2>6. QED
    BY <2>5 DEF Ready, Terminal
<1>9. CASE Elapse
  <2>1. row.state \in Terminal => Elapsed(row.next_action_at) = row.next_action_at
    BY DEF IInv, EndedHasNoClock, Elapsed, NoTime
  <2>2. QED
    BY Zenon, <1>1, <1>9, <2>1 DEF Elapse, Row
<1>10. CASE FallSilent \/ UNCHANGED vars \/ \E b \in Attempts : Execute(b)
  BY <1>2, <1>10 DEF FallSilent, Execute, vars
<1>11. QED
  BY Zenon, <1>5, <1>6, <1>7, <1>8, <1>9, <1>10 DEF Next

\* An ended row is final: no late report, tick, cancel or operator changes it.
THEOREM EndedRowsAreFinal == Spec => EndedIsFinal
<1>1. IInv /\ [Next]_vars =>
        [row.state \in Terminal => row' = [row EXCEPT
             !.recovery_deadline = row'.recovery_deadline,
             !.lease_deadline = row'.lease_deadline]]_vars
  BY Zenon, RowSteps
<1>2. QED
  BY <1>1, Invariance, PTL DEF Spec, EndedIsFinal

\* Rule 4: a cancel request is never lost and its row is never issued again.
THEOREM CancelIsKept == Spec => CancelIsMonotonic
<1>1. IInv /\ [Next]_vars =>
        [row.cancel_requested => row'.cancel_requested /\ row'.attempt = row.attempt]_vars
  <2>1. SUFFICES ASSUME IInv, [Next]_vars, row.cancel_requested
                 PROVE  row'.cancel_requested /\ row'.attempt = row.attempt
    OBVIOUS
  <2>2. row.cancel_requested = TRUE
    BY <2>1 DEF IInv, TypeOK, Row
  <2>3. QED
    BY Zenon, <2>1, <2>2, RowSteps
<1>2. QED
  BY <1>1, Invariance, PTL DEF Spec, CancelIsMonotonic
=============================================================================
