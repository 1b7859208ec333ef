-------------------------- MODULE AgentOrderProofs --------------------------
(***************************************************************************)
(* What one order of the agent queue keeps, for every kind, bound, budget  *)
(* and lease: its rows agree with each other and with what the executor    *)
(* did, an ended order keeps its outcome, a withdrawn order is not issued, *)
(* and a job is not issued again while an earlier attempt may still run.   *)
(* Inv (AgentOrderContracts) is the inductive invariant.                   *)
(***************************************************************************)
EXTENDS AgentOrderContracts

(***************************************************************************)
(* Results, sweeps and the requests that withdraw the order.               *)
(***************************************************************************)
\* A truthful executor reports what is evidence of its attempt.
LEMMA ReportsAreEvidence ==
  ASSUME Inv, NEW report \in Reports
  PROVE  report \in Report /\ Evidence(db, report)
<1> DEFINE n == db.order.current_attempt
<1>1. n > 0 /\ n \in Attempts /\ report \in Truthful(exec[n])
  BY SMTT(60), StoredRows, Constants DEF Reports, Attempts
<1>2. exec[n] \in ExecState
  BY ZenonT(60), <1>1 DEF Inv, TypeOK
<1>3. /\ report \in Report
      /\ report \in {"done", "pending"} => exec[n] \in Finished
      /\ report = "not-launched" => exec[n] \in Over
  BY ZenonT(60), <1>1, <1>2 DEF Truthful, ExecState, Report, Finished, Over
<1>4. QED
  BY SMTT(60), <1>1, <1>3 DEF Evidence

\* The stored rows with a receipt recorded.
LEMMA ReportedRows ==
  ASSUME Inv, NEW report \in Report, Evidence(db, report), report # "none"
  PROVE  LET s == record_report(db, report) IN
         /\ s \in Db /\ Handed(s) /\ NoFalseSuccess(s) /\ Columns(s)
         /\ s.attempt.state # "running" /\ s.parent = db.parent
         /\ s.order.current_attempt = db.order.current_attempt
<1> DEFINE s == record_report(db, report)
<1>1. /\ s \in Db /\ s.parent = db.parent /\ s.order.state = db.order.state
      /\ s.order.current_attempt = db.order.current_attempt
      /\ s.attempt.state # "running" /\ s.attempt.result = report
      /\ retry_scheduled(s) = retry_scheduled(db) /\ Columns(s) /\ NoFalseSuccess(s)
  BY SMTT(60), StoredRows, RecordFields
<1> HIDE DEF s
<1>2. Handed(s)
  BY ZenonT(60), <1>1, StoredRows
     DEF Handed, Keeps, ReceiptIsTrue, Evidence, SuccessIsFinished, RetryIsProven
<1>3. QED
  BY ZenonT(60), <1>1, <1>2 DEF s

\* A truthful result, on time, late or retained, leaves sound rows.
LEMMA RecordedStep ==
  ASSUME Inv, NEW report \in Report, Evidence(db, report),
         NEW c, c.delay \in 1 .. MaxDelay, c.away \in BOOLEAN
  PROVE  Sound(Recorded(db, report, c)) /\ Keeps(Recorded(db, report, c))
<1> DEFINE s == record_report(db, report)
           e == _report_event(db, report)
<1>1. report # "none"
  BY SMTT(60) DEF Report
<1>2. /\ s \in Db /\ Handed(s) /\ NoFalseSuccess(s) /\ Columns(s)
      /\ s.attempt.state # "running"
      /\ s.order.current_attempt = db.order.current_attempt
  BY ZenonT(60), <1>1, ReportedRows
<1>3. /\ WellFormed(e) /\ e.kind = "reported" /\ e.fence = db.order.current_attempt
      /\ SaysNone(e) => report \in {"pending", "not-launched"}
      /\ SaysEstablished(e) => report = "done"
  BY ZenonT(60), StoredRows, ReportEventFacts
<1>4. Recorded(db, report, c) = SettleAndAggregate(s, e, c)
  BY SMTT(60) DEF Recorded
<1> HIDE DEF s, e
<1>5. Settleable(s, e)
  BY ZenonT(60), <1>2, <1>3 DEF Settleable
<1>6. Told(e)
  BY ZenonT(60), <1>1, <1>3 DEF Told, Evidence, Over, Finished
<1>7. Followed(s, SettleAndAggregate(s, e, c), e)
  BY ZenonT(60), <1>2, <1>5, SettleAndAggregateContract
<1>8. QED
  BY ZenonT(60), <1>2, <1>4, <1>6, <1>7, FollowedIsSound

\* A result that is accepted is recorded and settled.
LEMMA ReportResultStep ==
  ASSUME Inv, NEW report \in Reports, ReportResult(report)
  PROVE  Commits
<1>1. PICK c \in Circumstances(FALSE) :
        db' = end_unobserved_order(db, c) \/ db' = Recorded(db, report, c)
  BY Zenon DEF ReportResult
<1>2. c.delay \in 1 .. MaxDelay /\ c.away \in BOOLEAN
  BY Zenon, CircumstanceFields
<1>3. Sound(db') /\ Keeps(db')
  BY ZenonT(60), <1>1, <1>2, ReportsAreEvidence, RecordedStep, EndUnobservedStep
<1>4. QED
  BY <1>3, StoredRows DEF Commits, ReportResult

\* The rows a late result is retained on.
LEMMA LapsedByLateResultStep ==
  ASSUME Inv, NEW c, c.delay \in 1 .. MaxDelay, c.away \in BOOLEAN
  PROVE  LET late == LapsedByLateResult(db, c) IN Sound(late) /\ Keeps(late)
<1> DEFINE s == expire_attempt(db)
           e == IF ParentEnded(db) THEN CancelRequested ELSE LeaseLapsed
           t == Settle(s, e, c)
<1>1. /\ s \in Db /\ Handed(s) /\ NoFalseSuccess(s) /\ Columns(s)
      /\ s.attempt.state # "running" /\ s.parent = db.parent
  BY SMTT(60), ExpiredRows
<1>2. \/ LapsedByLateResult(db, c) = db
      \/ /\ db.order.state = "running"
         /\ LapsedByLateResult(db, c) = AggregatedIfLive(t, c)
  BY StoredRows DEF LapsedByLateResult, LiveTogether
<1>3. Plain(e) /\ e.kind \in {"cancel-requested", "lease-lapsed"}
  BY PlainEvents
<1> HIDE DEF s, e
<1>4. Settleable(s, e)
  BY <1>1, <1>3 DEF Settleable, Plain
<1>5. Settled(s, t, e)
  BY <1>4, SettleContract
<1>6. Told(e)
  BY SMTT(60), <1>3 DEF Plain, Told
<1> HIDE DEF t
<1>7. Handed(t) /\ Columns(t) /\ LiveTogether(t)
  BY ZenonT(60), <1>1, <1>5, <1>6, SettledIsHanded
<1>8. ASSUME db.order.state = "running" PROVE NoFalseSuccess(t)
  BY ZenonT(60), <1>1, <1>5, <1>8, StoredRows DEF Settled, NoFalseSuccess
<1>9. ASSUME db.order.state = "running", ParentEnded(t)
      PROVE  Sound(t) /\ Keeps(t)
  BY ZenonT(60), <1>7, <1>8, <1>9 DEF Sound, Handed, ParentOk, NoFalseSuccess
<1>10. ASSUME db.order.state = "running"
       PROVE  LET u == _aggregate_parent(t, c) IN Sound(u) /\ Keeps(u)
  <2>1. t \in Db
    BY SMTT(60), <1>7 DEF Handed
  <2>2. Followed(t, _aggregate_parent(t, c), CancelRequested)
    BY ZenonT(60), <1>7, <1>8, <1>10, <2>1, AggregateContract
  <2>3. Told(CancelRequested)
    BY PlainEvents DEF Plain, Told
  <2>4. QED
    BY ZenonT(60), <1>7, <2>2, <2>3, FollowedIsSound
<1>11. QED
  BY ZenonT(60), <1>2, <1>9, <1>10, StoredRows DEF AggregatedIfLive

\* A result of a fenced attempt is recorded as evidence, or refused.
LEMMA LateResultStep ==
  ASSUME Inv, NEW report \in Reports, LateResult(report)
  PROVE  Commits
<1> DEFINE s == record_report(db, report)
           e == Reported("cancelled", 0, FALSE, NoEffect)
<1>1. PICK c \in Circumstances(AwayNow) :
        \/ db' = Recorded(db, report, c)
        \/ db' = SettleAndAggregate(s, e, c)
        \/ db' = Retained(LapsedByLateResult(db, c), report)
  BY Zenon DEF LateResult
<1>2. c.delay \in 1 .. MaxDelay /\ c.away \in BOOLEAN
  BY StoredRows, CircumstanceFields
<1>3. report \in Report /\ Evidence(db, report) /\ report # "none"
  BY SMTT(60), ReportsAreEvidence DEF Report
<1>4. ASSUME db' = SettleAndAggregate(s, e, c) PROVE Sound(db') /\ Keeps(db')
  <2>1. /\ s \in Db /\ Handed(s) /\ NoFalseSuccess(s) /\ Columns(s)
        /\ s.attempt.state # "running"
    BY <1>3, ReportedRows
  <2>2. Plain(e) /\ e.kind = "reported" /\ e.fence = 0
    BY Zenon, PlainEvents
  <2> HIDE DEF s, e
  <2>3. Settleable(s, e)
    BY ZenonT(60), <2>1, <2>2 DEF Settleable, Plain
  <2>4. QED
    BY ZenonT(60), <1>2, <1>4, <2>1, <2>2, <2>3, PlainSettle
<1>5. ASSUME db' = Retained(LapsedByLateResult(db, c), report) PROVE Sound(db') /\ Keeps(db')
  <2> DEFINE late == LapsedByLateResult(db, c)
             att == [late.attempt EXCEPT !.result = report]
             t == [late EXCEPT !.attempt = att]
  <2>1. Sound(late) /\ Keeps(late) /\ late \in Db
    BY <1>2, LapsedByLateResultStep DEF Sound
  <2>2. db' \in {db, t}
    BY ZenonT(60), <1>5, <2>1 DEF Retained, Db
  <2> HIDE DEF late
  <2>3. /\ att \in AttemptRow /\ att.state = late.attempt.state /\ att.result = report
        /\ att.lease_deadline = late.attempt.lease_deadline
    BY <1>3, <2>1, DbFields DEF AttemptRow
  <2> HIDE DEF att
  <2>4. /\ t \in Db /\ t.order = late.order /\ t.parent = late.parent /\ t.attempt = att
        /\ retry_scheduled(t) = retry_scheduled(late)
    BY ZenonT(60), <2>1, <2>3, AttemptChange
  <2> HIDE DEF t
  <2>5. Columns(t) /\ LiveTogether(t) /\ ParentOk(t) /\ Keeps(t)
    BY ZenonT(60), <2>1, <2>3, <2>4 DEF Sound, Columns, LiveTogether, ParentOk, ParentEnded, Keeps
  <2>6. ReceiptIsTrue(t) /\ SuccessIsFinished(t) /\ RetryIsProven(t)
    BY ZenonT(60), <1>3, <2>1, <2>3, <2>4
       DEF Sound, ReceiptIsTrue, Evidence, SuccessIsFinished, RetryIsProven, Keeps
  <2>7. Sound(t)
    BY <2>4, <2>5, <2>6 DEF Sound
  <2>8. QED
    BY ZenonT(60), <2>2, <2>5, <2>7, StoredRows
<1>6. Sound(db') /\ Keeps(db')
  BY Zenon, <1>1, <1>2, <1>3, <1>4, <1>5, RecordedStep
<1>7. QED
  BY Zenon, <1>6, StoredRows DEF Commits, LateResult

\* The sweep adopts a retained receipt, or fences an attempt that is lost.
LEMMA SweepStep ==
  ASSUME Inv, Sweep
  PROVE  Commits
<1>1. CASE SweepAdopts
  <2>1. PICK c \in Circumstances(AwayNow) : db' = Recorded(db, db.attempt.result, c)
    BY ZenonT(60), <1>1 DEF SweepAdopts
  <2>2. c.delay \in 1 .. MaxDelay /\ c.away \in BOOLEAN
    BY ZenonT(60), StoredRows, CircumstanceFields
  <2>3. db.attempt.result \in Report /\ Evidence(db, db.attempt.result)
    BY <1>1, StoredRows, DbFields
       DEF SweepAdopts, HasRetainedReceipt, Handed, ReceiptIsTrue
  <2>4. Sound(db') /\ Keeps(db')
    BY ZenonT(60), <2>1, <2>2, <2>3, RecordedStep
  <2>5. QED
    BY ZenonT(60), <1>1, <2>4, StoredRows DEF Commits, SweepAdopts
<1>2. CASE SweepDead
  <2> DEFINE s == expire_attempt(db)
             e == IF node.superseded THEN CancelRequested ELSE LeaseLapsed
  <2>1. PICK c \in Circumstances(AwayNow) : db' = SettleAndAggregate(s, e, c)
    BY SMTT(60), <1>2 DEF SweepDead
  <2>2. c.delay \in 1 .. MaxDelay /\ c.away \in BOOLEAN
    BY StoredRows, CircumstanceFields
  <2>3. /\ s \in Db /\ Handed(s) /\ NoFalseSuccess(s) /\ Columns(s)
        /\ s.attempt.state # "running"
    BY ExpiredRows
  <2>4. Plain(e) /\ e.kind \in {"cancel-requested", "lease-lapsed"}
    BY SMTT(60), PlainEvents
  <2> HIDE DEF s, e
  <2>5. Settleable(s, e)
    BY ZenonT(60), <2>3, <2>4 DEF Settleable, Plain
  <2>6. Sound(db') /\ Keeps(db')
    BY ZenonT(60), <2>1, <2>2, <2>3, <2>4, <2>5, PlainSettle
  <2>7. QED
    BY SMTT(60), <1>2, <2>6, StoredRows DEF Commits, SweepDead
<1>3. CASE SweepGone
  <2>1. PICK c \in Circumstances(FALSE) : db' = end_unobserved_order(db, c)
    BY Zenon, <1>3 DEF SweepGone
  <2>2. Sound(db') /\ Keeps(db')
    BY Zenon, <2>1, CircumstanceFields, EndUnobservedStep
  <2>3. QED
    BY <1>3, <2>2, StoredRows DEF Commits, SweepGone
<1>4. QED
  BY ZenonT(60), <1>1, <1>2, <1>3 DEF Sweep

\* The rows with an edited parent.
LEMMA ParentEdit ==
  ASSUME NEW x, Handed(x), Columns(x), LiveTogether(x), NEW p \in ParentRow,
         x.order.state \in Terminal => p.state # "live",
         p.state = "succeeded" => x.order.state = "succeeded"
  PROVE  LET t == [x EXCEPT !.parent = p] IN Sound(t) /\ Keeps(t)
<1> DEFINE t == [x EXCEPT !.parent = p]
<1>1. x \in Db
  BY DEF Handed
<1>2. t \in Db /\ t.order = x.order /\ t.attempt = x.attempt /\ t.parent = p
  BY ZenonT(60), <1>1 DEF Db
<1> HIDE DEF t
<1>3. Columns(t) /\ LiveTogether(t) /\ ParentOk(t) /\ Keeps(t)
  BY ZenonT(60), <1>2 DEF Columns, LiveTogether, ParentOk, ParentEnded, Keeps, Handed
<1>4. ReceiptIsTrue(t) /\ SuccessIsFinished(t) /\ RetryIsProven(t)
  BY ZenonT(60), <1>2 DEF Handed, ReceiptIsTrue, Evidence, SuccessIsFinished, RetryIsProven, retry_scheduled
<1>5. QED
  BY ZenonT(60), <1>2, <1>3, <1>4 DEF Sound, t

\* An order that does not run, settled by a request under the caller's own parent.
LEMMA IdleSettle ==
  ASSUME NEW s, Handed(s), Columns(s), LiveTogether(s), s.order.state # "running",
         NEW e, Plain(e), e.kind \in {"cancel-requested", "reported"},
         e.kind = "reported" => e.fence = 0,
         NEW c, c.delay \in 1 .. MaxDelay, c.away \in BOOLEAN
  PROVE  LET t == Settle(s, e, c) IN
         Handed(t) /\ Columns(t) /\ LiveTogether(t) /\ t.parent = s.parent
         /\ t.order.state # "running"
<1>1. Settleable(s, e)
  BY ZenonT(60) DEF Settleable, Handed, LiveTogether, Plain
<1>2. Settled(s, Settle(s, e, c), e)
  BY ZenonT(60), <1>1, SettleContract
<1>3. Told(e)
  BY DEF Plain, Told
<1>4. QED
  BY ZenonT(60), <1>2, <1>3, SettledIsHanded DEF Settled

\* A cancellation flags the parent and settles an order that is not running.
LEMMA RequestCancelStep ==
  ASSUME Inv, RequestCancel
  PROVE  Commits
<1> DEFINE e == Reported("cancelled", 0, FALSE, NoEffect)
<1>1. PICK c \in Circumstances(AwayNow) :
        \/ db' = Flagged(db)
        \/ db' = Flagged(Settle(db, e, c)) /\ db.order.state = "queued"
  BY Zenon DEF RequestCancel
<1>2. c.delay \in 1 .. MaxDelay /\ c.away \in BOOLEAN
  BY StoredRows, CircumstanceFields
<1>3. Plain(e) /\ e.kind = "reported" /\ e.fence = 0
  BY ZenonT(60), PlainEvents
<1> HIDE DEF e
<1>4. PICK x : /\ db' = Flagged(x) /\ x.parent = db.parent
               /\ Handed(x) /\ Columns(x) /\ LiveTogether(x)
  BY ZenonT(60), <1>1, <1>2, <1>3, StoredRows, IdleSettle
<1>5. x \in Db /\ db.parent \in ParentRow
  BY ZenonT(60), <1>4, StoredRows, DbFields DEF Handed
<1>6. db.parent.state = "live"
  BY ZenonT(60) DEF RequestCancel, ParentEnded
<1> DEFINE state == IF x.order.state \in Terminal THEN "cancelled" ELSE db.parent.state
           p == [db.parent EXCEPT !.cancel_deadline = CANCEL_WINDOW, !.state = state]
<1>7. state \in {"live", "cancelled"} /\ (x.order.state \in Terminal => state = "cancelled")
  BY <1>6
<1>8. db' = [x EXCEPT !.parent = p]
  BY Zenon, <1>4, <1>5 DEF Flagged, Db
<1> HIDE DEF state
<1>9. p \in ParentRow /\ p.state = state
  BY Zenon, <1>5, <1>7, Constants, Timers DEF ParentRow, Terminal
<1> HIDE DEF p
<1>10. Sound(db') /\ Keeps(db')
  BY SMTT(60), <1>4, <1>7, <1>8, <1>9, ParentEdit
<1>11. QED
  BY Zenon, <1>10, StoredRows DEF Commits, RequestCancel

\* set_parent_state as an edit of the parent.
LEMMA SetParentStep ==
  ASSUME NEW x, Handed(x), Columns(x), LiveTogether(x), NoFalseSuccess(x),
         NEW state \in {"failed", "cancelled"}
  PROVE  LET t == set_parent_state(x, state) IN Sound(t) /\ Keeps(t)
<1> DEFINE t == set_parent_state(x, state)
<1>1. x \in Db
  BY ZenonT(60) DEF Handed
<1>2. /\ t \in Db /\ t.order = x.order /\ t.attempt = x.attempt
      /\ t.parent.state = IF ParentEnded(x) THEN x.parent.state ELSE state
  BY ZenonT(60), <1>1, SetParentFields DEF Terminal
<1> HIDE DEF t
<1>3. Columns(t) /\ LiveTogether(t) /\ ParentOk(t) /\ Keeps(t)
  BY ZenonT(60), <1>2 DEF Columns, LiveTogether, ParentOk, ParentEnded, Keeps, Handed, NoFalseSuccess
<1>4. ReceiptIsTrue(t) /\ SuccessIsFinished(t) /\ RetryIsProven(t)
  BY ZenonT(60), <1>2 DEF Handed, ReceiptIsTrue, Evidence, SuccessIsFinished, RetryIsProven,
     retry_scheduled
<1>5. QED
  BY <1>2, <1>3, <1>4 DEF Sound, t

\* An abandoned transfer ends with its parent.
LEMMA AbandonTransferStep ==
  ASSUME Inv, AbandonTransfer
  PROVE  Commits
<1>1. PICK c \in Circumstances(AwayNow) :
        db' = set_parent_state(Settle(db, CancelRequested, c), "cancelled")
  BY ZenonT(60) DEF AbandonTransfer
<1>2. c.delay \in 1 .. MaxDelay /\ c.away \in BOOLEAN
  BY StoredRows, CircumstanceFields
<1> DEFINE x == Settle(db, CancelRequested, c)
<1>3. db.order.state \notin {"running"} \cup Terminal
  BY ZenonT(60) DEF AbandonTransfer, Parked, Terminal
<1>4. Handed(x) /\ Columns(x) /\ LiveTogether(x) /\ x.parent = db.parent
  BY ZenonT(60), <1>2, <1>3, StoredRows, PlainEvents, IdleSettle
<1> HIDE DEF x
<1>5. NoFalseSuccess(x)
  BY ZenonT(60), <1>3, <1>4, StoredRows DEF NoFalseSuccess, Terminal
<1>6. Sound(db') /\ Keeps(db')
  BY SMTT(60), <1>1, <1>4, <1>5, SetParentStep DEF x
<1>7. QED
  BY ZenonT(60), <1>6, StoredRows DEF Commits, AbandonTransfer

\* Taking the retry from an order leaves it waiting without a clock.

(***************************************************************************)
(* Newer intent, which withdraws the order.                                *)
(***************************************************************************)
\* Taking the retry from an order leaves it waiting without a clock.
LEMMA WithdrawRetryRows ==
  ASSUME NEW s, Handed(s), Columns(s), LiveTogether(s)
  PROVE  LET t == withdraw_retry(s) IN
         /\ Handed(t) /\ Columns(t) /\ LiveTogether(t) /\ t.parent = s.parent
         /\ t.order.state = s.order.state
<1> DEFINE o == [s.order EXCEPT !.next_action_at = NoTime]
           u == [s EXCEPT !.order = o]
           t == withdraw_retry(s)
<1>1. s \in Db /\ s.order \in OrderRow
  BY DbFields DEF Handed
<1>2. /\ o \in OrderRow /\ o.state = s.order.state /\ o.next_action_at = NoTime
      /\ o.current_attempt = s.order.current_attempt
  BY SMTT(60), <1>1, Timers DEF OrderRow
<1>3. t = s \/ t = u
  BY <1>1 DEF withdraw_retry, Db
<1> HIDE DEF o, t
<1>4. u \in Db /\ u.order = o /\ u.attempt = s.attempt /\ u.parent = s.parent
  BY ZenonT(60), <1>1, <1>2 DEF Db
<1> HIDE DEF u
<1>5. Handed(u)
  BY ZenonT(60), <1>2, <1>4
     DEF Handed, Keeps, ReceiptIsTrue, Evidence, SuccessIsFinished, RetryIsProven, retry_scheduled
<1>6. Columns(u) /\ LiveTogether(u) /\ u.order.state = s.order.state
  BY ZenonT(60), <1>2, <1>4 DEF Columns, LiveTogether
<1>7. QED
  BY ZenonT(60), <1>3, <1>4, <1>5, <1>6 DEF t

\* The order and its job after newer intent withdrew them.
LEMMA SupersededRows ==
  ASSUME Inv, NEW c, c.delay \in 1 .. MaxDelay, c.away \in BOOLEAN
  PROVE  Sound(Superseded(db, c)) /\ Keeps(Superseded(db, c))
<1> DEFINE parked == kind = "transfer" /\ db.order.state \in Parked
                       /\ db.order.current_attempt > 0
           x == IF parked THEN Settle(db, CancelRequested, c) ELSE db
           w == withdraw_retry(x)
           y == EndedIfNeverRan(w, c)
<1>1. /\ Handed(x) /\ Columns(x) /\ LiveTogether(x) /\ x.parent = db.parent
      /\ NoFalseSuccess(x)
  <2>1. CASE parked
    <3>1. db.order.state \notin {"running"} \cup Terminal
      BY <2>1 DEF Parked, Terminal
    <3>2. x = Settle(db, CancelRequested, c)
      BY ZenonT(60), <2>1
    <3>3. Handed(x) /\ Columns(x) /\ LiveTogether(x) /\ x.parent = db.parent
      BY ZenonT(60), <3>1, <3>2, StoredRows, PlainEvents, IdleSettle
    <3> HIDE DEF x
    <3>4. QED
      BY ZenonT(60), <3>1, <3>3, StoredRows DEF NoFalseSuccess, Terminal
  <2>2. CASE ~parked
    BY ZenonT(60), <2>2, StoredRows
  <2>3. QED
    BY ZenonT(60), <2>1, <2>2
<1>2. Superseded(db, c) = IF ParentEnded(db) THEN x ELSE SupersededParent(y)
  BY DEF Superseded
<1> HIDE DEF x
<1>3. /\ Handed(w) /\ Columns(w) /\ LiveTogether(w) /\ w.parent = x.parent
  BY <1>1, WithdrawRetryRows
<1> HIDE DEF w
<1>4. /\ Handed(y) /\ Columns(y) /\ LiveTogether(y) /\ y.parent = db.parent
  <2>1. CASE w.order.state = "queued" /\ w.order.current_attempt = 0
    <3>1. y = Settle(w, CancelRequested, c)
      BY ZenonT(60), <2>1 DEF EndedIfNeverRan
    <3>2. Handed(y) /\ Columns(y) /\ LiveTogether(y) /\ y.parent = w.parent
      <4>1. w.order.state # "running"
        BY <2>1
      <4>2. Plain(CancelRequested) /\ CancelRequested.kind = "cancel-requested"
        BY PlainEvents
      <4>3. /\ CancelRequested.kind \in {"cancel-requested", "reported"}
            /\ CancelRequested.kind # "reported"
        BY <4>2
      <4>4. QED
        BY <1>3, <3>1, <4>1, <4>2, <4>3, IdleSettle, ZenonT(60)
    <3>3. QED
      BY ZenonT(60), <1>1, <1>3, <3>2
  <2>2. CASE ~(w.order.state = "queued" /\ w.order.current_attempt = 0)
    BY ZenonT(60), <1>1, <1>3, <2>2 DEF EndedIfNeverRan
  <2>3. QED
    BY ZenonT(60), <2>1, <2>2
<1> HIDE DEF y
<1>5. CASE ParentEnded(db)
  <2>1. ParentOk(x)
    BY <1>1, <1>5 DEF ParentOk, ParentEnded, NoFalseSuccess
  <2>2. QED
    BY ZenonT(60), <1>1, <1>2, <1>5, <2>1 DEF Sound, Handed
<1>6. CASE ~ParentEnded(db)
  <2>1. y.parent.state = "live" /\ y \in Db /\ y.parent \in ParentRow
    BY ZenonT(60), <1>4, <1>6, StoredRows, DbFields DEF ParentEnded, Handed
  <2>2. CASE y.order.state \in {"running"} \cup Parked
    <3> DEFINE v == IF y.parent.cancel_deadline = NoTime THEN CANCEL_WINDOW
                    ELSE y.parent.cancel_deadline
               p == [y.parent EXCEPT !.cancel_deadline = v]
    <3>1. SupersededParent(y) = [y EXCEPT !.parent = p]
      BY ZenonT(60), <2>1, <2>2 DEF SupersededParent, Db
    <3>2. v \in Timer
      BY <2>1, Constants, Timers DEF ParentRow
    <3> HIDE DEF v
    <3>3. p \in ParentRow /\ p.state = "live"
      BY ZenonT(60), <2>1, <3>2 DEF ParentRow
    <3> HIDE DEF p
    <3>4. y.order.state \notin Terminal
      BY ZenonT(60), <2>2 DEF Parked, Terminal
    <3>5. LET t == [y EXCEPT !.parent = p] IN Sound(t) /\ Keeps(t)
      BY ZenonT(60), <1>4, <3>3, <3>4, ParentEdit
    <3>6. QED
      BY ZenonT(60), <1>2, <1>6, <3>1, <3>5
  <2>3. CASE y.order.state \notin {"running"} \cup Parked
    <3> DEFINE state == IF y.order.state = "failed" \/ y.parent.sibling_failed
                        THEN "failed" ELSE "cancelled"
    <3>1. SupersededParent(y) = set_parent_state(y, state)
      BY <2>3 DEF SupersededParent
    <3>2. state \in {"failed", "cancelled"}
      OBVIOUS
    <3> HIDE DEF state
    <3>3. NoFalseSuccess(y)
      BY ZenonT(60), <2>1 DEF NoFalseSuccess
    <3>4. LET t == set_parent_state(y, state) IN Sound(t) /\ Keeps(t)
      BY ZenonT(60), <1>4, <3>2, <3>3, SetParentStep
    <3>5. QED
      BY ZenonT(60), <1>2, <1>6, <3>1, <3>4
  <2>4. QED
    BY ZenonT(60), <2>2, <2>3
<1>7. QED
  BY ZenonT(60), <1>5, <1>6

\* Newer intent abandons, ends or flags the order it supersedes.
LEMMA SupersedeStep ==
  ASSUME Inv, Supersede
  PROVE  Commits
<1>1. PICK c \in Circumstances(AwayNow) : db' = Superseded(db, c)
  BY DEF Supersede
<1>2. c.delay \in 1 .. MaxDelay /\ c.away \in BOOLEAN
  BY ZenonT(60), StoredRows, CircumstanceFields
<1>3. Sound(db') /\ Keeps(db')
  BY SMTT(60), <1>1, <1>2, SupersededRows
<1>4. node' \in Node
  BY Zenon, StoredRows DEF Supersede, Node
<1>5. QED
  BY ZenonT(60), <1>3, <1>4 DEF Commits, Supersede

\* A claim of newer intent ends the order whose cancellation window closed.
LEMMA SuccessorClaimsStep ==
  ASSUME Inv, SuccessorClaims
  PROVE  Commits
<1>1. PICK c \in Circumstances(FALSE) :
        \/ db' = SettleAndAggregate(db, CancelRequested, c)
        \/ db' = SettleAndAggregate(expire_attempt(db), CancelRequested, c)
  BY Zenon DEF SuccessorClaims
<1>2. c.delay \in 1 .. MaxDelay /\ c.away \in BOOLEAN
  BY Zenon, CircumstanceFields
<1>3. Settleable(db, CancelRequested) /\ Settleable(expire_attempt(db), CancelRequested)
  BY ZenonT(60), StoredRows, ExpiredRows, PlainEvents DEF Settleable, LiveTogether, Plain
<1>4. Sound(db') /\ Keeps(db')
  BY ZenonT(60), <1>1, <1>2, <1>3, StoredRows, ExpiredRows, PlainEvents, PlainSettle
<1>5. QED
  BY <1>4, StoredRows DEF Commits, SuccessorClaims

\* A sibling fails, and the job is aggregated again.
LEMMA SiblingFailsStep ==
  ASSUME Inv, SiblingFails
  PROVE  Commits
<1> DEFINE p == [db.parent EXCEPT !.sibling_failed = TRUE]
           x == [db EXCEPT !.parent = p]
<1>1. PICK c \in Circumstances(AwayNow) : db' = _aggregate_parent(x, c)
  BY StoredRows DEF SiblingFails, Db
<1>2. c.delay \in 1 .. MaxDelay /\ c.away \in BOOLEAN
  BY StoredRows, CircumstanceFields
<1>3. p \in ParentRow /\ p.state = db.parent.state
  BY Zenon, StoredRows, DbFields DEF ParentRow
<1> HIDE DEF p
<1>4. Sound(x) /\ Keeps(x)
  BY ZenonT(60), <1>3, StoredRows, ParentEdit DEF Sound, ParentOk, ParentEnded
<1>5. x \in Db /\ Columns(x) /\ LiveTogether(x) /\ NoFalseSuccess(x) /\ Handed(x)
  BY ZenonT(60), <1>4 DEF Sound, ParentOk, NoFalseSuccess, Handed
<1> HIDE DEF x
<1>6. Followed(x, _aggregate_parent(x, c), CancelRequested) /\ Told(CancelRequested)
  BY ZenonT(60), <1>2, <1>5, AggregateContract, PlainEvents DEF Plain, Told
<1>7. Sound(db') /\ Keeps(db')
  BY ZenonT(60), <1>1, <1>5, <1>6, FollowedIsSound
<1>8. QED
  BY <1>7, StoredRows DEF Commits, SiblingFails

(***************************************************************************)
(* The reconciler pass, the executor and the clock.                        *)
(***************************************************************************)
\* The fields of a pass in flight.
LEMMA PassFields ==
  ASSUME Inv, pass \notin {Idle, Down}
  PROVE  /\ pass.step \in {"save", "ask"} /\ pass.before \in Row /\ pass.after \in Row
         /\ pass.age \in 0 .. MaxDelay /\ pass.delay \in 1 .. MaxDelay
         /\ pass.before.attempt \in Nat /\ pass.after.attempt \in Nat
<1>1. pass \in [step : {"save", "ask"}, before : Row, after : Row, command : Command,
                moving : BOOLEAN, age : 0 .. MaxDelay, delay : 1 .. MaxDelay]
  BY DEF Inv, TypeOK, Pass
<1>2. /\ pass.step \in {"save", "ask"} /\ pass.before \in Row /\ pass.after \in Row
      /\ pass.age \in 0 .. MaxDelay /\ pass.delay \in 1 .. MaxDelay
  BY <1>1
<1>3. QED
  BY <1>2 DEF Row

\* The row of an earlier read, in terms of now.
LEMMA AgedFields ==
  ASSUME NEW r \in Row, NEW age \in 0 .. MaxDelay
  PROVE  LET x == AgedRow(r, age) IN
         /\ x \in Row /\ x.state = r.state /\ x.attempt = r.attempt
         /\ x.observe_count = r.observe_count
<1> DEFINE l == Aged(r.lease_deadline, age)
           n == Aged(r.next_action_at, age)
           d == Aged(r.recovery_deadline, age)
<1>1. l \in Timer /\ n \in Timer /\ d \in Timer
  BY TimerMath DEF Row
<1>2. AgedRow(r, age) = [r EXCEPT !.lease_deadline = l, !.next_action_at = n,
                                  !.recovery_deadline = d]
  BY ZenonT(60) DEF AgedRow
<1> HIDE DEF l, n, d
<1>3. QED
  BY Zenon, <1>1, <1>2 DEF Row

\* The unlocked read: what the core decides of a row that waits.
LEMMA PassReadStep ==
  ASSUME Inv, PassRead
  PROVE  Inv'
<1> DEFINE r == lifecycle(db, AwayNow)
<1>1. PICK delay \in Delays :
        LET d == transition(r, Tick, adapter(delay)) IN
        /\ Decides(r, d)
        /\ pass' = [step |-> IF d.row # r THEN "save" ELSE "ask",
                    before |-> r, after |-> d.row, command |-> d.command,
                    moving |-> Moving(db, AwayNow), age |-> 0, delay |-> delay]
  BY ZenonT(60) DEF PassRead
<1> DEFINE a == adapter(delay)
           d == transition(r, Tick, a)
<1>2. db.order.state \notin {"running"} \cup Terminal
  BY SMTT(60), StoredRows DEF PassRead, HasDueRow, Due, Parked, Columns, NoTime, Terminal
<1>3. delay \in 1 .. MaxDelay
  BY SMTT(60), OrderAssumption
<1>4. /\ a \in Adapter /\ a.deadline = NoTime /\ a.actions = {}
      /\ a.irreversible <=> kind = "job"
  BY ZenonT(60), <1>3, AdapterType
<1>5. /\ r \in Row /\ r.state = CoreState(db)
      /\ r.attempt = db.order.current_attempt /\ r.observe_count = db.order.observe_count
      /\ r.effect = "established" <=> db.order.state = "succeeded"
      /\ r.effect = "none" => db.order.current_attempt = 0
  BY ZenonT(60), StoredRows, LifecycleFields
<1>6. /\ r.state \notin {"running"} \cup Terminal
      /\ r.state = "observing" => r.observe_count > 0
  BY SMTT(60), <1>2, <1>5, StoredRows, CoreStateFacts
<1>7. Plain(Tick) /\ Tick.kind = "tick"
  BY SMTT(60), PlainEvents
<1> HIDE DEF r, a
<1>8. Lawful(r, a, d, SaysNone(Tick), SaysEstablished(Tick))
  BY ZenonT(60), <1>4, <1>5, <1>7, TransitionIsLawful DEF Plain
<1>9. Seated(d.row)
  BY ZenonT(60), <1>4, <1>5, <1>6, <1>7, TransitionSeats DEF OrderEvent, Plain
<1> HIDE DEF d
<1>10. /\ d.row \in Row /\ d.command \in Command /\ d.row.attempt = r.attempt
       /\ d.row.effect # "established" /\ d.row.state \notin {"running", "succeeded"}
       /\ d.row.state = "observing" => d.row.observe_count > 0
       /\ d.command \in {"observe", "stop"} => d.row.state = "observing"
  BY ZenonT(60), <1>2, <1>5, <1>6, <1>7, <1>8, <1>9 DEF Lawful, Seated, Plain, Terminal
<1>11. kind = "job" /\ r.attempt > 0 =>
         /\ d.row.effect # "none"
         /\ d.row.state \in Ready => r.state \in Ready
  BY SMTT(60), <1>4, <1>5, <1>7, <1>8, StoredRows DEF Lawful, Plain
<1> DEFINE step == IF d.row # r THEN "save" ELSE "ask"
           moving == Moving(db, AwayNow)
<1>12. /\ pass' = [step |-> step, before |-> r, after |-> d.row, command |-> d.command,
                   moving |-> moving, age |-> 0, delay |-> delay]
       /\ Decides(r, d)
  BY SMTT(60), <1>1 DEF d, a
<1>13. step \in {"save", "ask"} /\ moving \in BOOLEAN /\ 0 \in 0 .. MaxDelay
  BY SMTT(60), StoredRows, Constants DEF Moving
<1>14. step = "ask" => d.row.state = "observing"
  BY <1>10, <1>12 DEF Decides, Asks
<1> HIDE DEF step, moving
<1>16. pass' \in Pass
  <2>1. pass' \in [step : {"save", "ask"}, before : Row, after : Row, command : Command,
                   moving : BOOLEAN, age : 0 .. MaxDelay, delay : 1 .. MaxDelay]
    BY ZenonT(60), <1>3, <1>5, <1>10, <1>12, <1>13
  <2>2. QED
    BY SMTT(60), <2>1 DEF Pass
<1>17. UNCHANGED <<kind, db, node, exec>>
  BY DEF PassRead
<1>18. /\ pass'.before = r /\ pass'.after = d.row /\ pass'.step = step
       /\ pass'.command = d.command
  BY SMTT(60), <1>12
<1>19. db.order.current_attempt \in Nat
  BY SMTT(60), StoredRows, Constants
<1>20. CarriedIsProven'
  BY SMTT(60), <1>5, <1>6, <1>10, <1>11, <1>14, <1>17, <1>18, <1>19 DEF CarriedIsProven, Asks
<1>21. QED
  BY ZenonT(60), <1>16, <1>17, <1>20
     DEF Inv, TypeOK, NoOverlap, Sound, ReceiptIsTrue, Evidence, SuccessIsFinished,
         RetryIsProven, Columns, LiveTogether, ParentOk, ParentEnded, retry_scheduled

\* same_order compares everything but the lease clock.
LEMMA SameOrderFields ==
  ASSUME NEW r \in Row, NEW b \in Row, same_order(r, b)
  PROVE  r.state = b.state /\ r.attempt = b.attempt
<1> DEFINE x == [r EXCEPT !.lease_deadline = NoTime]
           y == [b EXCEPT !.lease_deadline = NoTime]
<1>1. x.state = r.state /\ x.attempt = r.attempt
  BY DEF Row
<1>2. y.state = b.state /\ y.attempt = b.attempt
  BY DEF Row
<1>3. x = y
  BY DEF same_order
<1> HIDE DEF x, y
<1>4. QED
  BY <1>1, <1>2, <1>3

\* The save under the locks: the order is still the one decided about.
LEMMA PassSaveStep ==
  ASSUME Inv, PassSave
  PROVE  Inv' /\ Keeps(db')
<1> DEFINE b == AgedRow(pass.before, pass.age)
           x == AgedRow(pass.after, pass.age)
           s == apply(db, b, x)
           r == lifecycle(db, AwayNow)
<1>1. pass \notin {Idle, Down}
  BY DEF PassSave, Idle, Down
<1>2. /\ pass.before \in Row /\ pass.after \in Row /\ pass.age \in 0 .. MaxDelay
      /\ pass.step \in {"save", "ask"}
  BY SMTT(60), <1>1, PassFields
<1>3. /\ pass.before.state \notin {"running"} \cup Terminal
      /\ pass.after.state \notin {"running", "succeeded"}
      /\ pass.after.state = "observing" => pass.after.observe_count > 0
      /\ Asks(pass) => pass.after.state = "observing"
      /\ kind = "job" /\ pass.before.attempt > 0 /\ pass.after.state \in Ready
           => pass.before.state \in Ready \/ exec[pass.before.attempt] \in Over
  BY SMTT(60), <1>1 DEF Inv, CarriedIsProven
<1>4. /\ b \in Row /\ b.state = pass.before.state /\ b.attempt = pass.before.attempt
      /\ x \in Row /\ x.state = pass.after.state
      /\ x.observe_count = pass.after.observe_count
  BY SMTT(60), <1>2, AgedFields
<1>5. /\ UNCHANGED <<kind, node, exec>>
      /\ pass' \in {pass, Idle} \/ (Asks(pass) /\ pass' = [pass EXCEPT !.step = "ask"])
      /\ \/ db' = db
         \/ /\ same_order(r, b) /\ db' # db
            /\ \E c \in Circumstances(AwayNow) : db' = _aggregate_parent(s, c)
  BY SMTT(60) DEF PassSave, StillDecided
<1>6. /\ r \in Row /\ r.state = CoreState(db) /\ r.attempt = db.order.current_attempt
  BY SMTT(60), StoredRows, LifecycleFields
<1> HIDE DEF b, x, r
<1>7. ASSUME same_order(r, b), NEW c \in Circumstances(AwayNow), db' = _aggregate_parent(s, c)
      PROVE  Sound(db') /\ Keeps(db')
  <2>1. r.state = b.state /\ r.attempt = b.attempt
    BY SMTT(60), <1>4, <1>6, <1>7, SameOrderFields
  <2>2. db.order.state \notin {"running"} \cup Terminal /\ db.attempt.state # "running"
    BY ZenonT(60), <1>3, <1>4, <1>6, <2>1, StoredRows, CoreStateFacts DEF LiveTogether
  <2>3. /\ s \in Db /\ s.parent = db.parent
        /\ s.order.state = _stored(db, x).state
        /\ s.order.next_action_at = _stored(db, x).next_action_at
        /\ s.order.observe_count = IF x.state = "observing" THEN x.observe_count ELSE 0
        /\ s.order.current_attempt = db.order.current_attempt
        /\ s.attempt \in {db.attempt, lapse(db.attempt)}
    <3>1. x.state # "running" /\ db \in Db
      BY ZenonT(60), <1>3, <1>4, StoredRows
    <3>2. QED
      BY ZenonT(60), <1>4, <3>1, ApplyFields
  <2> HIDE DEF s
  <2>4. /\ s.order.state # "running"
        /\ s.order.state \in Terminal =>
             x.state = s.order.state /\ s.order.next_action_at = NoTime
        /\ s.order.state = "queued" => db.order.current_attempt = 0
        /\ s.order.state = "backoff" => x.state \in Ready
        /\ s.order.state = "observing" => x.state = "observing"
    BY SMTT(30), <1>3, <1>4, <2>3, StoredRows, StoredFields
  <2>5. /\ s.attempt.state # "running" /\ s.attempt.result = db.attempt.result
        /\ s.attempt.lease_deadline = db.attempt.lease_deadline
    BY ZenonT(60), <2>2, <2>3, StoredRows, DbFields, LapseFields
  <2>6. Columns(s) /\ LiveTogether(s) /\ NoFalseSuccess(s) /\ Keeps(s)
    BY ZenonT(60), <2>2, <2>3, <2>4, <2>5, StoredRows
       DEF Columns, LiveTogether, NoFalseSuccess, Keeps, Terminal
  <2>7. ReceiptIsTrue(s) /\ SuccessIsFinished(s)
    BY ZenonT(60), <1>3, <1>4, <2>3, <2>4, <2>5, StoredRows
       DEF Handed, ReceiptIsTrue, Evidence, SuccessIsFinished, Terminal
  <2>8. RetryIsProven(s)
    <3>1. SUFFICES ASSUME kind = "job", db.order.current_attempt > 0, retry_scheduled(s)
                   PROVE  exec[db.order.current_attempt] \in Over
      BY SMTT(60), <2>3 DEF RetryIsProven
    <3>2. s.order.state = "backoff" /\ x.state \in Ready
      BY SMTT(60), <1>3, <1>4, <2>3, <2>4, <3>1 DEF retry_scheduled
    <3>3. pass.before.state \in Ready \/ exec[pass.before.attempt] \in Over
      <4>1. pass.before.attempt = db.order.current_attempt
        BY ZenonT(60), <1>4, <1>6, <2>1
      <4>2. pass.before.attempt > 0 /\ pass.after.state \in Ready
        BY ZenonT(60), <1>4, <3>1, <3>2, <4>1
      <4>3. QED
        BY ZenonT(60), <1>3, <3>1, <4>2
    <3>4. pass.before.state \in Ready => retry_scheduled(db)
      <4>1. CoreState(db) = pass.before.state
        BY ZenonT(60), <1>4, <1>6, <2>1
      <4>2. CoreState(db) # "queued"
        BY SMTT(60), <3>1, StoredRows, CoreStateFacts DEF Columns
      <4>3. QED
        BY ZenonT(60), <4>1, <4>2, StoredRows, CoreStateFacts DEF Ready
    <3>5. QED
      BY ZenonT(60), <1>4, <1>6, <2>1, <3>1, <3>3, <3>4, StoredRows DEF Handed, RetryIsProven
  <2>9. Handed(s)
    BY SMTT(60), <2>3, <2>6, <2>7, <2>8 DEF Handed
  <2>10. Followed(s, _aggregate_parent(s, c), CancelRequested) /\ Told(CancelRequested)
    BY ZenonT(60), <2>3, <2>6, StoredRows, CircumstanceFields, AggregateContract, PlainEvents
       DEF Plain, Told
  <2>11. QED
    BY SMTT(60), <1>7, <2>9, <2>10, FollowedIsSound
<1>8. Sound(db') /\ Keeps(db')
  BY ZenonT(60), <1>5, <1>7, StoredRows
<1>9. node' \in Node
  BY SMTT(60), <1>5, StoredRows
<1>10. pass' \in Pass /\ CarriedIsProven'
  <2>1. CASE pass' = pass
    BY ZenonT(60), <1>5, <1>8, <1>9, <2>1, RowsStep DEF Inv, TypeOK
  <2>2. CASE pass' = Idle
    BY ZenonT(60), <2>2 DEF CarriedIsProven, Pass
  <2>3. CASE Asks(pass) /\ pass' = [pass EXCEPT !.step = "ask"]
    <3>1. pass \in [step : {"save", "ask"}, before : Row, after : Row, command : Command,
                    moving : BOOLEAN, age : 0 .. MaxDelay, delay : 1 .. MaxDelay]
      BY <1>1 DEF Inv, TypeOK, Pass
    <3>2. /\ pass' \in Pass /\ pass'.before = pass.before /\ pass'.after = pass.after
          /\ pass'.command = pass.command /\ pass'.step = "ask"
      BY ZenonT(60), <2>3, <3>1 DEF Pass
    <3>3. QED
      BY ZenonT(60), <1>1, <1>3, <1>5, <1>8, <2>3, <3>2 DEF Inv, CarriedIsProven, Asks, Keeps
  <2>4. QED
    BY ZenonT(60), <1>5, <2>1, <2>2, <2>3
<1>11. QED
  BY SMTT(60), <1>5, <1>8, <1>9, <1>10, RowsStep

\* The answer to the command the pass carries: evidence only where a receipt
\* of the same attempt is.
LEMMA PassAskStep ==
  ASSUME Inv, PassAsk
  PROVE  Inv'
<1> DEFINE answer == IF pass.command = "stop"
                     THEN IF StopConfirmed(db) THEN "stopped" ELSE "unknown"
                     ELSE IF db.order.current_attempt # pass.after.attempt THEN "unknown"
                     ELSE observation(db)
           a == adapter(pass.delay)
           e == Observed(answer)
           d == transition(pass.after, e, a)
<1>1. pass \notin {Idle, Down}
  BY DEF PassAsk, Idle, Down
<1>2. /\ pass.before \in Row /\ pass.after \in Row /\ pass.delay \in 1 .. MaxDelay
      /\ pass.before.attempt \in Nat
  BY ZenonT(60), <1>1, PassFields
<1>3. /\ pass.after.effect # "established" /\ pass.after.attempt = pass.before.attempt
      /\ pass.before.attempt <= db.order.current_attempt
      /\ pass.after.state = "observing" /\ pass.after.observe_count > 0
      /\ kind = "job" /\ pass.before.attempt > 0 /\ pass.after.effect = "none"
           => exec[pass.before.attempt] \in Over
  BY ZenonT(60), <1>1 DEF Inv, CarriedIsProven, PassAsk
<1>4. UNCHANGED <<kind, db, node, exec>> /\ pass' = AfterAnswer(d)
  BY SMTT(60) DEF PassAsk
<1>5. /\ answer \in {"none", "stopped", "unknown"}
      /\ answer = "none" => /\ db.attempt.result = "pending"
                            /\ db.order.current_attempt = pass.after.attempt
  BY SMTT(60) DEF observation
<1> HIDE DEF answer
<1>6. /\ WellFormed(e) /\ e.kind = "observed" /\ ~SaysEstablished(e)
      /\ SaysNone(e) => answer = "none"
  BY SMTT(60), <1>5, Literals DEF Observed, WellFormed, SaysEstablished, SaysNone, Effect
<1>7. SaysNone(e) => exec[pass.before.attempt] \in Over
  BY ZenonT(60), <1>3, <1>5, <1>6, StoredRows DEF Handed, ReceiptIsTrue, Evidence, Finished, Over
<1>8. /\ a \in Adapter /\ a.deadline = NoTime /\ a.actions = {}
      /\ a.irreversible <=> kind = "job"
  BY ZenonT(60), <1>2, AdapterType
<1> HIDE DEF e, a
<1>9. Lawful(pass.after, a, d, SaysNone(e), SaysEstablished(e))
  BY ZenonT(60), <1>2, <1>6, <1>8, TransitionIsLawful
<1>10. Seated(d.row)
  BY ZenonT(60), <1>2, <1>3, <1>6, <1>8, TransitionSeats DEF OrderEvent
<1> HIDE DEF d
<1>11. /\ d.row \in Row /\ d.command \in Command /\ d.row.attempt = pass.after.attempt
       /\ d.row.effect # "established" /\ d.row.state \notin {"running", "succeeded"}
       /\ d.row.state = "observing" => d.row.observe_count > 0
       /\ d.command \in {"observe", "stop"} => d.row.state = "observing"
  BY ZenonT(60), <1>3, <1>6, <1>9, <1>10 DEF Lawful, Seated
<1>12. kind = "job" /\ pass.before.attempt > 0 =>
         /\ d.row.effect = "none" => exec[pass.before.attempt] \in Over
         /\ d.row.state \in Ready => exec[pass.before.attempt] \in Over
  BY ZenonT(60), <1>2, <1>3, <1>7, <1>8, <1>9 DEF Lawful, Ready
<1>13. pass' \in Pass /\ CarriedIsProven'
  <2>1. CASE d.row = pass.after
    BY ZenonT(60), <1>4, <2>1 DEF AfterAnswer, CarriedIsProven, Pass
  <2>2. CASE d.row # pass.after
    <3>1. pass \in [step : {"save", "ask"}, before : Row, after : Row, command : Command,
                    moving : BOOLEAN, age : 0 .. MaxDelay, delay : 1 .. MaxDelay]
      BY <1>1 DEF Inv, TypeOK, Pass
    <3>2. pass' = [pass EXCEPT !.step = "save", !.before = pass.after,
                               !.after = d.row, !.command = d.command]
      BY <1>4, <2>2 DEF AfterAnswer
    <3>3. /\ pass' \in Pass /\ pass'.before = pass.after /\ pass'.after = d.row
          /\ pass'.command = d.command /\ pass'.step = "save"
      BY Zenon, <1>2, <1>11, <3>1, <3>2 DEF Pass
    <3>4. QED
      BY ZenonT(60), <1>3, <1>4, <1>11, <1>12, <3>3 DEF CarriedIsProven, Asks, Terminal
  <2>3. QED
    BY <2>1, <2>2
<1>14. QED
  BY ZenonT(60), <1>4, <1>13
     DEF Inv, TypeOK, NoOverlap, Sound, ReceiptIsTrue, Evidence, SuccessIsFinished,
         RetryIsProven, Columns, LiveTogether, ParentOk, ParentEnded, retry_scheduled

\* Time passes for rows and carried decisions alike; a clock that is not set
\* stays unset.
LEMMA ElapseStep ==
  ASSUME Inv, Elapse
  PROVE  Inv' /\ Keeps(db')
<1> DEFINE o == LaterOrder(db.order)
           att == LaterAttempt(db.attempt)
           p == [db.parent EXCEPT !.cancel_deadline = Elapsed(db.parent.cancel_deadline)]
<1>1. db.order \in OrderRow /\ db.attempt \in AttemptRow /\ db.parent \in ParentRow
  BY SMTT(60), StoredRows, DbFields
<1>2. db' = [db EXCEPT !.order = o, !.attempt = att, !.parent = p]
  BY StoredRows DEF Elapse, Later, Db
<1>3. /\ o \in OrderRow /\ o.state = db.order.state
      /\ o.next_action_at = Elapsed(db.order.next_action_at)
      /\ o.observe_count = db.order.observe_count
      /\ o.current_attempt = db.order.current_attempt
  BY Zenon, <1>1, Timers DEF LaterOrder, OrderRow
<1>4. /\ att \in AttemptRow /\ att.state = db.attempt.state
      /\ att.result = db.attempt.result
      /\ att.lease_deadline = Elapsed(db.attempt.lease_deadline)
  BY Zenon, <1>1, Timers DEF LaterAttempt, AttemptRow
<1>5. p \in ParentRow /\ p.state = db.parent.state
  BY <1>1, Timers DEF ParentRow
<1> HIDE DEF o, att, p
<1>6. db' \in Db /\ db'.order = o /\ db'.attempt = att /\ db'.parent = p
  BY Zenon, <1>2, <1>3, <1>4, <1>5, StoredRows DEF Db
<1>7. \A x \in Timer : (Elapsed(x) = NoTime <=> x = NoTime) /\ Elapsed(x) <= x
  BY SMTT(30), Constants DEF Elapsed, Timer, NoTime
<1>8. /\ db.order.next_action_at \in Timer /\ db.attempt.lease_deadline \in Timer
      /\ Elapsed(db.attempt.lease_deadline) \in Timer
  BY ZenonT(60), StoredRows, DbFields, Timers
<1>9. Columns(db')
  <2>1. att.lease_deadline <= LEASE_BOUND
    BY SMTT(60), <1>4, <1>7, <1>8, StoredRows, Constants DEF Columns, Timer, NoTime
  <2>2. QED
    BY ZenonT(60), <1>3, <1>6, <1>7, <1>8, <2>1, StoredRows DEF Columns
<1>10. retry_scheduled(db') => retry_scheduled(db)
  BY ZenonT(60), <1>3, <1>6, <1>7, <1>8 DEF retry_scheduled
<1>11. LiveTogether(db') /\ ParentOk(db') /\ Keeps(db')
  BY ZenonT(60), <1>3, <1>4, <1>5, <1>6 DEF Inv, Sound, LiveTogether, ParentOk, ParentEnded, Keeps
<1>12. ReceiptIsTrue(db') /\ SuccessIsFinished(db') /\ RetryIsProven(db')
  BY ZenonT(60), <1>3, <1>4, <1>6, <1>10
     DEF Inv, Sound, ReceiptIsTrue, Evidence, SuccessIsFinished, RetryIsProven
<1>13. Sound(db')
  BY ZenonT(60), <1>6, <1>9, <1>11, <1>12 DEF Sound
<1>14. UNCHANGED <<kind, node, exec>> /\ pass' = LaterPass
  BY DEF Elapse
<1>15. pass' \in Pass /\ CarriedIsProven'
  <2>1. CASE pass \in {Idle, Down}
    BY ZenonT(60), <1>14, <2>1 DEF LaterPass, CarriedIsProven, Pass
  <2>2. CASE pass \notin {Idle, Down}
    <3> DEFINE age == MinOf(pass.age + 1, MaxDelay)
    <3>1. pass \in [step : {"save", "ask"}, before : Row, after : Row, command : Command,
                    moving : BOOLEAN, age : 0 .. MaxDelay, delay : 1 .. MaxDelay]
      BY <2>2 DEF Inv, TypeOK, Pass
    <3>2. age \in 0 .. MaxDelay
      BY <2>2, PassFields, Constants DEF MinOf
    <3>3. pass' = [pass EXCEPT !.age = age]
      BY <1>14, <2>2, <3>1 DEF LaterPass
    <3> HIDE DEF age
    <3>4. /\ pass' \in Pass /\ pass'.before = pass.before /\ pass'.after = pass.after
          /\ pass'.command = pass.command /\ pass'.step = pass.step
      BY ZenonT(60), <3>1, <3>2, <3>3 DEF Pass
    <3>5. QED
      BY ZenonT(60), <1>3, <1>6, <1>14, <2>2, <3>4 DEF Inv, CarriedIsProven, Asks
  <2>3. QED
    BY <2>1, <2>2
<1>16. QED
  BY ZenonT(60), <1>11, <1>13, <1>14, <1>15, StoredRows, RowsStep

\* An executor that is over or finished stays so.
LEMMA ExecutorStep ==
  ASSUME Inv, Executor
  PROVE  Inv' /\ Keeps(db')
<1>1. PICK a \in Attempts, x \in {"launched", "declined", "exited", "killed"} :
        /\ exec[a] \in {"issued", "launched"} /\ exec' = [exec EXCEPT ![a] = x]
        /\ UNCHANGED <<kind, db, node, pass>>
  BY DEF Executor, Launch, Decline, Exit, Kill
<1>2. exec \in [Attempts -> ExecState]
  BY DEF Inv, TypeOK
<1>3. exec' \in [Attempts -> ExecState]
  BY SMTT(60), <1>1, <1>2 DEF ExecState
<1>4. \A b : /\ exec[b] \in Over => exec'[b] = exec[b]
             /\ exec[b] \in Finished => exec'[b] = exec[b]
  BY SMTT(60), <1>1, <1>2 DEF Over, Finished
<1>5. TypeOK'
  BY ZenonT(60), <1>1, <1>3 DEF Inv, TypeOK
<1>6. Sound(db)'
  BY ZenonT(60), <1>1, <1>4
     DEF Inv, Sound, ReceiptIsTrue, Evidence, SuccessIsFinished,
         RetryIsProven, Columns, LiveTogether, ParentOk, ParentEnded, retry_scheduled
<1>7. NoOverlap'
  BY ZenonT(60), <1>1, <1>4 DEF Inv, NoOverlap, Over
<1>8. CarriedIsProven'
  BY ZenonT(60), <1>1, <1>4 DEF Inv, CarriedIsProven, Asks
<1>9. QED
  BY ZenonT(60), <1>1, <1>5, <1>6, <1>7, <1>8 DEF Inv, Keeps

\* A step that leaves the rows, the executor and the pass alone, or ends the pass.
LEMMA QuietStep ==
  ASSUME Inv, UNCHANGED <<kind, db, exec>>, node' \in Node, pass' \in {pass, Idle, Down}
  PROVE  Inv' /\ Keeps(db')
<1>1. Sound(db') /\ Keeps(db')
  BY StoredRows
<1>2. CASE pass' = pass
  BY ZenonT(60), <1>1, <1>2, RowsStep
<1>3. CASE pass' \in {Idle, Down}
  <2>1. pass' \in Pass /\ CarriedIsProven'
    BY <1>3 DEF CarriedIsProven, Pass
  <2>2. QED
    BY ZenonT(60), <1>1, <2>1, RowsStep
<1>4. QED
  BY ZenonT(60), <1>2, <1>3

(***************************************************************************)
(* Invariance.                                                             *)
(***************************************************************************)
\* A new order, and a transfer that an older ingress kept, start sound.
LEMMA InitHolds ==
  ASSUME Init
  PROVE  Inv
<1> DEFINE o == [NewOrder.order EXCEPT !.state = "backoff", !.current_attempt = 1,
                              !.next_action_at = WAIT_STEP,
                              !.recovery_deadline = RECOVERY_BUDGET]
           att == [NewOrder.attempt EXCEPT !.state = "lapsed", !.lease_deadline = 0,
                                           !.result = "done"]
<1>0. NewOrder.order \in OrderRow /\ NewOrder.attempt \in AttemptRow /\ NewOrder \in Db
  BY SMTT(60), Constants, Timers, Literals
     DEF NewOrder, Db, OrderRow, AttemptRow, ParentRow, AttemptState
<1>1. KeptByOldIngress = [NewOrder EXCEPT !.order = o, !.attempt = att]
  BY <1>0 DEF KeptByOldIngress, Db
<1>2. /\ KeptByOldIngress \in Db
      /\ KeptByOldIngress.order.state = "backoff" /\ KeptByOldIngress.attempt.state = "lapsed"
      /\ KeptByOldIngress.order.current_attempt = 1 /\ KeptByOldIngress.attempt.result = "done"
      /\ KeptByOldIngress.attempt.lease_deadline = 0 /\ KeptByOldIngress.parent.state = "live"
  <2>1. /\ o \in OrderRow /\ o.state = "backoff" /\ o.current_attempt = 1
    <3>1. 1 \in 0 .. MaxAttempts /\ WAIT_STEP \in Timer /\ RECOVERY_BUDGET \in Timer
      BY Constants, Timers
    <3>2. QED
      BY Zenon, <1>0, <3>1, Literals DEF OrderRow
  <2>2. /\ att \in AttemptRow /\ att.state = "lapsed" /\ att.result = "done"
        /\ att.lease_deadline = 0
    BY ZenonT(60), <1>0, Timers DEF AttemptRow, AttemptState, Report
  <2>3. NewOrder.parent.state = "live"
    BY SMTT(30) DEF NewOrder
  <2> HIDE DEF o, att
  <2>4. QED
    BY Zenon, <1>0, <1>1, <2>1, <2>2, <2>3 DEF Db
<1>3. TypeOK
  BY SMTT(60), <1>0, <1>2, Constants DEF Init, TypeOK, Node, Pass, Attempts, ExecState
<1>4. Sound(db)
  <2>1. CASE db = NewOrder
    BY SMTT(30), <1>0, <2>1, Constants
       DEF NewOrder, Sound, Columns, LiveTogether, ParentOk, ParentEnded, ReceiptIsTrue,
           Evidence, SuccessIsFinished, RetryIsProven, NoTime, Terminal
  <2>2. CASE kind = "transfer" /\ db = KeptByOldIngress
             /\ exec = [a \in Attempts |-> IF a = 1 THEN "exited" ELSE "none"]
    <3>1. exec[1] = "exited"
      BY SMTT(60), <2>2, Constants DEF Attempts
    <3>2. QED
      BY SMTT(60), <1>2, <2>2, <3>1, Constants
         DEF Sound, Columns, LiveTogether, ParentOk, ParentEnded, ReceiptIsTrue,
             Evidence, SuccessIsFinished, RetryIsProven, Terminal, Finished
  <2>3. QED
    BY ZenonT(60), <2>1, <2>2 DEF Init
<1>5. NoOverlap
  <2>1. NewOrder.order.current_attempt = 0
    BY SMTT(60) DEF NewOrder
  <2>2. QED
    BY SMTT(60), <1>2, <2>1 DEF Init, NoOverlap, Attempts
<1>6. CarriedIsProven
  BY ZenonT(60) DEF Init, CarriedIsProven
<1>7. QED
  BY ZenonT(60), <1>3, <1>4, <1>5, <1>6 DEF Inv

\* Every step keeps the invariant and the outcome of an ended order.
LEMMA NextKeeps ==
  ASSUME Inv, [Next]_vars
  PROVE  Inv' /\ (db.order.state \in Terminal => db'.order.state = db.order.state)
<1>1. ASSUME Commits, UNCHANGED pass PROVE Inv' /\ Keeps(db')
  BY <1>1, RowsStep DEF Commits
<1>2. CASE ClaimFailsSpentBudget
  BY Zenon, <1>1, <1>2, ClaimFailsSpentBudgetStep DEF ClaimFailsSpentBudget, Keeps
<1>3. CASE ClaimLapsedRunning
  BY Zenon, <1>1, <1>3, ClaimLapsedRunningStep DEF ClaimLapsedRunning, Keeps
<1>4. CASE ClaimParkedRecovery
  BY Zenon, <1>1, <1>4, ClaimParkedRecoveryStep DEF ClaimParkedRecovery, Keeps
<1>5. CASE ClaimGpuWait
  BY Zenon, <1>1, <1>5, ClaimGpuWaitStep DEF ClaimGpuWait, Keeps
<1>6. CASE ClaimStart
  <2>1. UNCHANGED pass
    BY <1>6 DEF ClaimStart
  <2>2. QED
    BY Zenon, <1>1, <1>6, <2>1, ClaimDecides, ClaimIssues DEF Keeps
<1>7. CASE Heartbeat
  BY Zenon, <1>1, <1>7, HeartbeatStep DEF Heartbeat, Keeps
<1>8. CASE \E report \in Reports : ReportResult(report)
  BY Zenon, <1>1, <1>8, ReportResultStep DEF ReportResult, Keeps
<1>9. CASE \E report \in Reports : LateResult(report)
  BY Zenon, <1>1, <1>9, LateResultStep DEF LateResult, Keeps
<1>10. CASE Sweep
  BY ZenonT(60), <1>1, <1>10, SweepStep DEF Sweep, SweepAdopts, SweepDead, SweepGone, Keeps
<1>11. CASE PassRead
  BY ZenonT(60), <1>11, PassReadStep DEF PassRead
<1>12. CASE PassSave
  BY ZenonT(60), <1>12, PassSaveStep DEF Keeps
<1>13. CASE PassAsk
  BY <1>13, PassAskStep DEF PassAsk
<1>14. CASE WorkerStop \/ WorkerStart
  BY Zenon, <1>14, StoredRows, QuietStep DEF WorkerStop, WorkerStart, Keeps
<1>15. CASE RequestCancel
  BY ZenonT(60), <1>1, <1>15, RequestCancelStep DEF RequestCancel, Keeps
<1>16. CASE AbandonTransfer
  BY SMTT(60), <1>1, <1>16, AbandonTransferStep DEF AbandonTransfer, Keeps
<1>17. CASE Supersede
  BY SMTT(60), <1>1, <1>17, SupersedeStep DEF Supersede, Keeps
<1>18. CASE SuccessorClaims
  BY Zenon, <1>1, <1>18, SuccessorClaimsStep DEF SuccessorClaims, Keeps
<1>19. CASE SiblingFails
  BY SMTT(60), <1>1, <1>19, SiblingFailsStep DEF SiblingFails, Keeps
<1>20. CASE Revoke \/ Depart \/ Contact
  <2>1. node' \in Node /\ UNCHANGED <<kind, db, exec, pass>>
    BY ZenonT(60), <1>20, StoredRows DEF Revoke, Depart, Contact, Node
  <2>2. QED
    BY <2>1, QuietStep DEF Keeps
<1>21. CASE Executor
  BY <1>21, ExecutorStep DEF Keeps
<1>22. CASE Elapse
  BY <1>22, ElapseStep DEF Keeps
<1>23. CASE UNCHANGED vars
  BY ZenonT(60), <1>23, StoredRows, QuietStep DEF vars, Keeps
<1>24. QED
  BY ZenonT(60), <1>2, <1>3, <1>4, <1>5, <1>6, <1>7, <1>8, <1>9, <1>10, <1>11, <1>12, <1>13, <1>14,
     <1>15, <1>16, <1>17, <1>18, <1>19, <1>20, <1>21, <1>22, <1>23
     DEF Next, Claim, PassStep, Withdraw

\* Only a claim that starts an attempt counts one up, and it needs current
\* intent, an enrolled Spark and a live job nobody asked to cancel.
LEMMA OnlyAuthorityIssues ==
  ASSUME Inv, [Next]_vars, Withdrawn
  PROVE  db'.order.current_attempt = db.order.current_attempt
<1>1. ~ClaimStart
  BY ZenonT(60) DEF ClaimStart, ClaimAuthority, Withdrawn
<1>2. CASE Claim
  BY ZenonT(60), <1>1, <1>2, ClaimFailsSpentBudgetStep, ClaimLapsedRunningStep,
     ClaimParkedRecoveryStep,
     ClaimGpuWaitStep DEF Claim, Commits, Keeps
<1>3. CASE Heartbeat
  BY SMTT(60), <1>3, HeartbeatStep DEF Commits, Keeps
<1>4. CASE \E report \in Reports : ReportResult(report) \/ LateResult(report)
  BY SMTT(60), <1>4, ReportResultStep, LateResultStep DEF Commits, Keeps
<1>5. CASE Sweep
  BY <1>5, SweepStep DEF Commits, Keeps
<1>6. CASE PassStep
  BY Zenon, <1>6, PassSaveStep DEF PassStep, PassRead, PassAsk, Keeps
<1>7. CASE Withdraw \/ SiblingFails
  BY ZenonT(60), <1>7, RequestCancelStep, AbandonTransferStep, SupersedeStep, SuccessorClaimsStep,
     SiblingFailsStep DEF Withdraw, Commits, Keeps
<1>8. CASE WorkerStop \/ WorkerStart \/ Revoke \/ Depart \/ Contact
  BY SMTT(60), <1>8 DEF WorkerStop, WorkerStart, Revoke, Depart, Contact
<1>9. CASE Executor \/ Elapse
  BY SMTT(60), <1>9, ExecutorStep, ElapseStep DEF Keeps
<1>10. CASE UNCHANGED vars
  BY <1>10 DEF vars
<1>11. QED
  BY ZenonT(60), <1>2, <1>3, <1>4, <1>5, <1>6, <1>7, <1>8, <1>9, <1>10 DEF Next

\* The invariant of the queue, for every kind, bound, budget and lease.
THEOREM Invariance == Spec => []Inv
<1>1. Init => Inv
  BY SMTT(60), InitHolds
<1>2. Inv /\ [Next]_vars => Inv'
  BY NextKeeps
<1>3. QED
  BY <1>1, <1>2, PTL DEF Spec

\* In every committed state the order, its attempt and its parent job agree with
\* each other and with what was executed.
THEOREM RowsAlwaysAgree == Spec => []RowsAgree
<1>1. Inv => RowsAgree
  BY SMTT(60) DEF Inv, Sound, RowsAgree, ClaimMatchesOrder, LiveTogether, ParentFollowsOrder,
         ParentOk, SuccessIsFinished, SuccessIsReal, Finished
<1>2. QED
  BY <1>1, Invariance, PTL

\* A job is never issued while an earlier attempt of it may still launch or run,
\* however leases lapse, results come late and passes are interrupted.
THEOREM AttemptsDoNotOverlap == Spec => []NoOverlap
<1>1. Inv => NoOverlap
  BY DEF Inv
<1>2. QED
  BY <1>1, Invariance, PTL

\* An ended order keeps its outcome whatever comes after it.
THEOREM OutcomesAreFinal == Spec => EndedStaysEnded
<1>1. Inv /\ [Next]_vars =>
        [db.order.state \in Terminal => db'.order.state = db.order.state]_vars
  BY NextKeeps
<1>2. QED
  BY <1>1, Invariance, PTL DEF Spec, EndedStaysEnded

\* A withdrawn order is never issued again.
THEOREM WithdrawnStaysUnissued == Spec => WithdrawnIsNotIssued
<1>1. Inv /\ [Next]_vars =>
        [Withdrawn => db'.order.current_attempt = db.order.current_attempt]_vars
  BY OnlyAuthorityIssues
<1>2. QED
  BY <1>1, Invariance, PTL DEF Spec, WithdrawnIsNotIssued
=============================================================================
