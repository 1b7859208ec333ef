------------------------- MODULE ResultJournalProofs -------------------------
(***************************************************************************)
(* What the agent's journal keeps for any number of orders, beside the     *)
(* lane or on it, and any number of restarts: no order is dispatched       *)
(* twice, and what is recorded of it is so.                                *)
(***************************************************************************)
EXTENDS ResultJournal, WellFoundedInduction, TLAPS

Row == [state : {"none", "running", "completed"}, claim : BOOLEAN,
        result : Results, acknowledged : BOOLEAN, settled : BOOLEAN,
        rejection : {"none", "held", "due"}, ended : BOOLEAN]
Task == [at : {"idle", "executing", "launched", "deliver", "sending", "refused"},
         fence : 0 .. N, result : Results, acknowledged : BOOLEAN]

\* A row with a result exactly when it is completed.
Good(r) == r \in Row /\ (r.state = "completed" <=> r.result # "none")

\* A task with a request in flight, or its refusal still to be settled.
Flying(t) == t.at \in {"sending", "refused"}

\* What is recorded of an order is so, and it was not dispatched without a row.
RowOk(f) ==
    /\ rows[f].settled => rows[f].state = "completed" /\ told[f]
    /\ rows[f].state = "none" => launches[f] = 0 /\ effect[f] = "none"
    /\ launches[f] <= 1
    /\ rows[f].result = "definite" => effect[f] # "running"
    /\ rows[f].ended =>
         /\ rows[f].state = "completed"
         /\ effect[f] # "running" \/ (due[f] = "spent" /\ f \notin JobRuns)

\* An order in execution has no result, and is dispatched once.
ExecOk(f) ==
    Executing(f) => /\ rows[f].state = "running"
                    /\ Executor(f).at = "executing" => launches[f] = 0

\* The lane: while it has a request in flight the pass has none.  A refusal of
\* what the row still says was answered.
LaneOk ==
    /\ ~lane.acknowledged
    /\ lane.at \in {"executing", "launched"} => lane.fence \in Fences \ OffLane
    /\ Flying(lane) => lane.fence \in Fences /\ lane.result # "none" /\ ~Flying(pass)
    /\ /\ lane.at = "refused"
       /\ rows[lane.fence].result = lane.result
       /\ rows[lane.fence].rejection # "none"
       => told[lane.fence]

\* An order beside the lane sends what its row says, or what it could not keep.
BesideOk(f) ==
    /\ ~beside[f].acknowledged
    /\ beside[f].at # "idle" => beside[f].fence = f
    /\ Flying(beside[f]) => /\ beside[f].result # "none"
                            /\ rows[f].result \in {"none", beside[f].result}
    /\ beside[f].at = "refused" /\ rows[f].result = beside[f].result => told[f]

\* The pass sends what the row says: no result is replaced meanwhile.
PassOk ==
    /\ Flying(pass) => /\ pass.fence \in Fences /\ pass.result # "none"
                       /\ rows[pass.fence].result = pass.result
    /\ pass.at = "refused" => told[pass.fence]

\* Nothing runs while the agent is down.
DownOk == ~up => lane = Idle /\ pass = Idle /\ \A f \in OffLane : beside[f] = Idle

\* The types, with a result exactly in a completed row.
Typed ==
    /\ rows \in [Fences -> Row] /\ \A f \in Fences : Good(rows[f])
    /\ cursor \in 0 .. N /\ look \in 0 .. N
    /\ due \in [Fences -> {"live", "past", "spent"}]
    /\ effect \in [Fences -> {"none", "running", "gone"}]
    /\ launches \in [Fences -> 0 .. 2] /\ told \in [Fences -> BOOLEAN]
    /\ lane \in Task /\ pass \in Task /\ beside \in [OffLane -> Task]
    /\ up \in BOOLEAN /\ crashes \in 0 .. MaxCrashes

\* The inductive invariant.
Inv ==
    /\ Typed /\ LaneOk /\ PassOk /\ DownOk
    /\ \A f \in Fences : RowOk(f) /\ ExecOk(f)
    /\ \A f \in OffLane : BesideOk(f)

(***************************************************************************)
(* The statements of the journal.                                          *)
(***************************************************************************)
\* finish records once: a definite result stays, a new one is unsettled.
LEMMA FinishFacts ==
  ASSUME NEW r, Good(r), r.state # "none", NEW result \in {"unknown", "definite"}
  PROVE  LET x == finish(r, result) IN
         /\ Good(x) /\ x.state = "completed" /\ x.ended = r.ended
         /\ r.result = "definite" => x = r
         /\ r.result = "none" => x.result = result
         /\ x.result = r.result => x = r
         /\ x # r => x.result = result /\ ~x.settled /\ x.rejection = "none"
BY ZenonT(60) DEF Good, Row, Results, finish, Recorded

\* begin keeps the marks of its fence.
LEMMA BegunFacts ==
  ASSUME NEW r, Good(r), r.state = "none"
  PROVE  LET x == Begun(r) IN
         /\ Good(x) /\ x.state = "running" /\ x.result = r.result
         /\ x.settled = r.settled /\ x.ended = r.ended /\ x.rejection = r.rejection
BY Zenon DEF Good, Row, Results, Begun

\* An answer changes neither the outcome nor what was observed.
LEMMA AnswerFacts ==
  ASSUME NEW r, Good(r), NEW result \in Results \ {"none"}
  PROVE  /\ LET x == acknowledge(r) IN
            /\ Good(x) /\ x.state = r.state /\ x.result = r.result /\ x.ended = r.ended
            /\ x.settled = r.settled /\ (x.rejection # "none" => x.rejection = r.rejection)
         /\ LET x == mark_reconciled(r) IN
            /\ Good(x) /\ x.state = r.state /\ x.result = r.result /\ x.ended = r.ended
            /\ x.rejection = r.rejection /\ (x.settled => r.settled \/ r.state = "completed")
         /\ LET x == reject_result(r) IN
            /\ Good(x) /\ x.state = r.state /\ x.result = r.result /\ x.ended = r.ended
            /\ x.settled = r.settled
         /\ LET x == discard_rejected_result(r, result) IN
            /\ Good(x) /\ x.state = r.state /\ x.result = r.result /\ x.ended = r.ended
            /\ x.rejection = r.rejection
            /\ x.settled => \/ r.settled
                            \/ r.rejection # "none" /\ r.result = result
                                 /\ r.state = "completed"
<1>1. LET x == acknowledge(r) IN
        /\ Good(x) /\ x.state = r.state /\ x.result = r.result /\ x.ended = r.ended
        /\ x.settled = r.settled /\ (x.rejection # "none" => x.rejection = r.rejection)
  BY Zenon DEF Good, Row, acknowledge
<1>2. LET x == mark_reconciled(r) IN
        /\ Good(x) /\ x.state = r.state /\ x.result = r.result /\ x.ended = r.ended
        /\ x.rejection = r.rejection /\ (x.settled => r.settled \/ r.state = "completed")
  BY Zenon DEF Good, Row, mark_reconciled
<1>3. LET x == reject_result(r) IN
        /\ Good(x) /\ x.state = r.state /\ x.result = r.result /\ x.ended = r.ended
        /\ x.settled = r.settled
  BY DEF Good, Row, reject_result
<1>4. LET x == discard_rejected_result(r, result) IN
        /\ Good(x) /\ x.state = r.state /\ x.result = r.result /\ x.ended = r.ended
        /\ x.rejection = r.rejection
        /\ x.settled => \/ r.settled
                        \/ r.rejection # "none" /\ r.result = result /\ r.state = "completed"
  BY Zenon DEF Good, Row, discard_rejected_result
<1>5. QED
  BY <1>1, <1>2, <1>3, <1>4

\* Only an order kept without its claim is recovered.
LEMMA RecoverFacts ==
  ASSUME NEW r, Good(r)
  PROVE  LET x == recover_interrupted(r) IN
         /\ Good(x) /\ x.ended = r.ended /\ x.settled = r.settled
         /\ r.state = "completed" => x = r
         /\ r.state = "none" => x = r
         /\ x.state = "none" => r.state = "none"
         /\ x.result # r.result => r.state = "running" /\ x.result = "unknown"
BY Zenon DEF Good, Row, Results, recover_interrupted

\* A request is offered, or the task is done.
LEMMA DeliverFacts ==
  ASSUME NEW row, NEW f \in Fences, NEW result \in Results \ {"none"}
  PROVE  LET t == deliver_result(row, f, result) IN
         /\ t \in Task /\ ~t.acknowledged
         /\ t = Idle \/ (t.at = "sending" /\ t.fence = f /\ t.result = result)
BY ResultJournalAssumption DEF deliver_result, Idle, At, Task, Fences, Results

\* The idle task, and a task that starts to execute.
LEMMA TaskFacts ==
  /\ Idle \in Task /\ Idle.at = "idle" /\ Idle.fence = 0 /\ ~Idle.acknowledged
  /\ [Idle EXCEPT !.at = "deliver"] \in Task
  /\ [Idle EXCEPT !.at = "deliver"].at = "deliver"
  /\ \A f \in Fences : LET t == At("executing", f, "none") IN
       t \in Task /\ t.at = "executing" /\ t.fence = f /\ ~t.acknowledged
<1>1. 0 \in 0 .. N /\ \A f \in Fences : f \in 0 .. N
  BY ResultJournalAssumption DEF Fences
<1>2. Idle \in Task /\ Idle.at = "idle" /\ Idle.fence = 0 /\ ~Idle.acknowledged
  BY <1>1 DEF Idle, Task, Results
<1>3. /\ [Idle EXCEPT !.at = "deliver"] \in Task
      /\ [Idle EXCEPT !.at = "deliver"].at = "deliver"
  BY Zenon, <1>1 DEF Idle, Task, Results
<1>4. \A f \in Fences : LET t == At("executing", f, "none") IN
        t \in Task /\ t.at = "executing" /\ t.fence = f /\ ~t.acknowledged
  BY <1>1 DEF At, Task, Results
<1>5. QED
  BY <1>2, <1>3, <1>4, Zenon

\* The least of the orders that wait is one of them.
LEMMA MinIsMember ==
  ASSUME NEW S \in SUBSET Fences, S # {}
  PROVE  Min(S) \in S
<1> DEFINE R == {ss \in Nat \X Nat : ss[1] < ss[2]}
<1>1. IsWellFoundedOn(R, Nat)
  BY NatLessThanWellFounded DEF OpToRel
<1>2. S \subseteq Nat
  BY ResultJournalAssumption DEF Fences
<1>3. \A m, n \in Nat : m < n => <<m, n>> \in R
  OBVIOUS
<1> HIDE DEF R
<1>4. PICK x \in S : \A y \in S : ~(<<y, x>> \in R)
  BY Zenon, <1>1, <1>2, WFMin
<1>5. ASSUME NEW y \in S PROVE x =< y
  <2>1. x \in Nat /\ y \in Nat
    BY <1>2
  <2>2. ~(y < x)
    BY <1>3, <1>4, <2>1, Zenon
  <2>3. QED
    BY <2>1, <2>2, SMT
<1>6. QED
  BY <1>5 DEF Min

(***************************************************************************)
(* The answers of the Controller.                                          *)
(***************************************************************************)
\* Rows rs and answers td in which every outcome is the stored one, and a
\* settled delivery was answered.
SameOutcome(rs, td) ==
    /\ rs \in [Fences -> Row] /\ td \in [Fences -> BOOLEAN]
    /\ \A g \in Fences :
         /\ Good(rs[g]) /\ rs[g].state = rows[g].state /\ rs[g].result = rows[g].result
         /\ rs[g].ended = rows[g].ended
         /\ told[g] => td[g]
         /\ rs[g].settled => rs[g].state = "completed" /\ td[g]

\* An answered, lost or settled request of task t: only the pass, which sends
\* what the row says, settles a delivery that was accepted before.
LEMMA SettleFacts ==
  ASSUME Typed, \A g \in Fences : RowOk(g),
         NEW t \in Task, t.fence \in Fences, t.result # "none", NEW rs, NEW td,
         t.acknowledged => rows[t.fence].result = t.result,
         \/ /\ t.at = "sending"
            /\ rs = [rows EXCEPT ![t.fence] =
                       IF t.acknowledged THEN mark_reconciled(@) ELSE acknowledge(@)]
            /\ td = [told EXCEPT ![t.fence] = @ \/ rows[t.fence].result = t.result]
         \/ /\ rs = [rows EXCEPT ![t.fence] = discard_rejected_result(@, t.result)]
            /\ td = told
            /\ rows[t.fence].result = t.result /\ rows[t.fence].rejection # "none"
                 => told[t.fence]
         \/ rs = rows /\ td = told
  PROVE  /\ SameOutcome(rs, td)
         /\ \A g \in Fences : rs[g].rejection # "none" => rows[g].rejection # "none"
<1> DEFINE f == t.fence
<1>1. /\ Good(rows[f]) /\ t.result \in Results \ {"none"} /\ RowOk(f)
      /\ rows \in [Fences -> Row] /\ told \in [Fences -> BOOLEAN]
  BY ZenonT(60) DEF Typed, Task
<1>2. CASE /\ rs = [rows EXCEPT ![f] =
                      IF t.acknowledged THEN mark_reconciled(@) ELSE acknowledge(@)]
           /\ td = [told EXCEPT ![f] = @ \/ rows[f].result = t.result]
  <2>1. \A g \in Fences : g # f => rs[g] = rows[g] /\ td[g] = told[g]
    BY <1>1, <1>2
  <2>2. /\ rs[f] = IF t.acknowledged THEN mark_reconciled(rows[f]) ELSE acknowledge(rows[f])
        /\ td[f] = (told[f] \/ rows[f].result = t.result)
    BY ZenonT(60), <1>1, <1>2
  <2>3. /\ Good(rs[f]) /\ rs[f].state = rows[f].state /\ rs[f].result = rows[f].result
        /\ rs[f].ended = rows[f].ended
        /\ rs[f].rejection # "none" => rows[f].rejection # "none"
        /\ rs[f].settled => rows[f].settled \/ (t.acknowledged /\ rows[f].state = "completed")
    BY SMTT(60), <1>1, <2>2, AnswerFacts
  <2>4. rs \in [Fences -> Row] /\ td \in [Fences -> BOOLEAN]
    BY <1>1, <1>2, <2>2, <2>3 DEF Good
  <2>5. rs[f].settled => rs[f].state = "completed" /\ td[f]
    BY ZenonT(60), <1>1, <2>2, <2>3 DEF RowOk
  <2>6. QED
    BY SMTT(60), <2>1, <2>2, <2>3, <2>4, <2>5 DEF SameOutcome, Typed, RowOk
<1>3. CASE /\ rs = [rows EXCEPT ![f] = discard_rejected_result(@, t.result)] /\ td = told
           /\ rows[f].result = t.result /\ rows[f].rejection # "none" => told[f]
  <2>1. \A g \in Fences : g # f => rs[g] = rows[g]
    BY <1>1, <1>3
  <2>2. rs[f] = discard_rejected_result(rows[f], t.result)
    BY ZenonT(60), <1>1, <1>3
  <2>3. /\ Good(rs[f]) /\ rs[f].state = rows[f].state /\ rs[f].result = rows[f].result
        /\ rs[f].ended = rows[f].ended /\ rs[f].rejection = rows[f].rejection
        /\ rs[f].settled => rows[f].settled \/ (told[f] /\ rows[f].state = "completed")
    BY SMTT(60), <1>1, <1>3, <2>2, AnswerFacts
  <2>4. rs \in [Fences -> Row]
    BY ZenonT(60), <1>1, <1>3, <2>2, <2>3 DEF Good
  <2>5. rs[f].settled => rs[f].state = "completed" /\ told[f]
    BY <1>1, <2>3 DEF RowOk
  <2>6. ASSUME NEW g \in Fences
        PROVE  /\ Good(rs[g]) /\ rs[g].state = rows[g].state /\ rs[g].result = rows[g].result
               /\ rs[g].ended = rows[g].ended
               /\ rs[g].settled => rs[g].state = "completed" /\ told[g]
               /\ rs[g].rejection # "none" => rows[g].rejection # "none"
    <3>1. CASE g = f
      BY <2>3, <2>5, <3>1
    <3>2. CASE g # f
      BY <2>1, <3>2 DEF Typed, RowOk
    <3>3. QED
      BY <3>1, <3>2
  <2>7. QED
    BY <1>1, <1>3, <2>4, <2>6, Zenon DEF SameOutcome
<1>4. CASE rs = rows /\ td = told
  BY <1>4 DEF SameOutcome, Typed, RowOk
<1>5. QED
  BY <1>2, <1>3, <1>4

\* A refusal is recorded, and counts as an answer to what the row says.
LEMMA RefuseFacts ==
  ASSUME Typed, \A g \in Fences : RowOk(g),
         NEW f \in Fences, NEW result, NEW rs, NEW td,
         rs = [rows EXCEPT ![f] = reject_result(rows[f])],
         td = [told EXCEPT ![f] = told[f] \/ rows[f].result = result]
  PROVE  /\ SameOutcome(rs, td)
         /\ rows[f].result = result => td[f]
         /\ \A g \in Fences : g # f => rs[g] = rows[g]
<1>1. /\ Good(rows[f]) /\ "unknown" \in Results \ {"none"} /\ RowOk(f)
      /\ rows \in [Fences -> Row] /\ told \in [Fences -> BOOLEAN]
  BY DEF Typed, Results
<1>2. \A g \in Fences : g # f => rs[g] = rows[g] /\ td[g] = told[g]
  BY <1>1
<1>3. rs[f] = reject_result(rows[f]) /\ td[f] = (told[f] \/ rows[f].result = result)
  BY <1>1
<1>4. /\ Good(rs[f]) /\ rs[f].state = rows[f].state /\ rs[f].result = rows[f].result
      /\ rs[f].ended = rows[f].ended /\ rs[f].settled = rows[f].settled
  BY <1>1, <1>3, AnswerFacts
<1>5. rs \in [Fences -> Row] /\ td \in [Fences -> BOOLEAN]
  BY <1>1, <1>3, <1>4 DEF Good
<1>6. ASSUME NEW g \in Fences
      PROVE  /\ Good(rs[g]) /\ rs[g].state = rows[g].state /\ rs[g].result = rows[g].result
             /\ rs[g].ended = rows[g].ended
             /\ told[g] => td[g]
             /\ rs[g].settled => rs[g].state = "completed" /\ td[g]
  <2>1. CASE g = f
    BY <1>1, <1>3, <1>4, <2>1 DEF RowOk
  <2>2. CASE g # f
    BY <1>2, <2>2 DEF Typed, RowOk
  <2>3. QED
    BY <2>1, <2>2
<1>7. QED
  BY Zenon, <1>2, <1>3, <1>5, <1>6 DEF SameOutcome

\* Rows with the same outcomes stay true.
LEMMA AnsweredRows ==
  ASSUME Inv, SameOutcome(rows', told'), UNCHANGED <<due, effect, launches>>
  PROVE  /\ \A g \in Fences : RowOk(g)'
         /\ \A g \in Fences : Good(rows'[g])
         /\ rows' \in [Fences -> Row] /\ told' \in [Fences -> BOOLEAN]
BY DEF Inv, SameOutcome, RowOk

\* And every task that is left alone keeps what it says of them.
LEMMA TasksKept ==
  ASSUME Inv, SameOutcome(rows', told'), UNCHANGED <<due, effect, launches>>
  PROVE  /\ pass' = pass => PassOk'
         /\ \A f \in OffLane : beside'[f] = beside[f] => BesideOk(f)'
         /\ \A f \in Fences : Executor(f)' = Executor(f) \/ ~Executing(f)' => ExecOk(f)'
<1>1. pass' = pass => PassOk'
  BY DEF Inv, SameOutcome, PassOk, Flying
<1>2. \A f \in OffLane : beside'[f] = beside[f] => BesideOk(f)'
  BY ResultJournalAssumption DEF Inv, SameOutcome, BesideOk, Flying
<1>3. \A f \in Fences : Executor(f)' = Executor(f) \/ ~Executing(f)' => ExecOk(f)'
  BY DEF Inv, SameOutcome, ExecOk, Executing
<1>4. QED
  BY <1>1, <1>2, <1>3

\* The lane's result is answered, refused or not answered.
LEMMA LaneAnswerStep ==
  ASSUME Inv, LaneAnswer
  PROVE  Inv'
<1>1. /\ Flying(lane) /\ lane.fence \in Fences /\ lane.result # "none" /\ ~Flying(pass)
      /\ ~lane.acknowledged /\ lane \in Task /\ Typed /\ \A g \in Fences : RowOk(g)
  BY DEF Inv, LaneOk, Typed, LaneAnswer, Settle, Lost, Flying
<1>2. /\ SameOutcome(rows', told') /\ lane' \in Task /\ ~lane'.acknowledged
      /\ lane'.at \notin {"executing", "launched"}
      /\ Flying(lane') => lane'.fence = lane.fence /\ lane'.result = lane.result
      /\ /\ lane'.at = "refused"
         /\ rows'[lane'.fence].result = lane'.result
         => told'[lane'.fence]
  <2>1. CASE (Settle(lane) \/ Lost(lane)) /\ lane' = Idle
    <3>1. SameOutcome(rows', told')
      BY ZenonT(60), <1>1, <2>1, SettleFacts
         DEF Inv, LaneOk, Settle, Lost, Accepted, Heard, Discard
    <3>2. QED
      BY <2>1, <3>1, TaskFacts DEF Flying
  <2>2. CASE lane.at = "sending" /\ Refused(lane) /\ lane' = [lane EXCEPT !.at = "refused"]
    <3>1. /\ SameOutcome(rows', told')
          /\ rows[lane.fence].result = lane.result => told'[lane.fence]
      <4>1. PICK f \in Fences : f = lane.fence
        BY <1>1
      <4>2. /\ rows' = [rows EXCEPT ![f] = reject_result(rows[f])]
            /\ told' = [told EXCEPT ![f] = told[f] \/ rows[f].result = lane.result]
        BY <1>1, <2>2, <4>1 DEF Refused, Heard
      <4>3. Typed /\ (\A g \in Fences : RowOk(g)) /\ f \in Fences
        BY <1>1
      <4>4. /\ SameOutcome(rows', told')
            /\ rows[f].result = lane.result => told'[f]
            /\ \A g \in Fences : g # f => rows'[g] = rows[g]
        BY <4>2, <4>3, RefuseFacts, ZenonT(60)
      <4>5. QED
        BY <1>1, <4>1, <4>4
    <3>2. /\ lane' \in Task /\ lane'.fence = lane.fence /\ lane'.result = lane.result
          /\ lane'.at = "refused" /\ ~lane'.acknowledged
      BY <1>1, <2>2 DEF Task
    <3>3. QED
      BY <1>1, <3>1, <3>2 DEF SameOutcome, Flying
  <2>3. QED
    BY <2>1, <2>2 DEF LaneAnswer
<1>3. /\ UNCHANGED <<cursor, look, beside, pass, due, effect, launches, up, crashes>> /\ up
  BY DEF LaneAnswer, world
<1>4. Typed' /\ \A g \in Fences : RowOk(g)'
  BY <1>1, <1>2, <1>3, AnsweredRows DEF Typed
<1>5. LaneOk'
  BY <1>1, <1>2, <1>3 DEF LaneOk, Flying
<1>6. PassOk' /\ \A f \in OffLane : BesideOk(f)'
  BY <1>2, <1>3, TasksKept
<1>7. \A f \in Fences : ExecOk(f)'
  BY <1>2, <1>3, TasksKept DEF Executor, Executing
<1>8. QED
  BY <1>3, <1>4, <1>5, <1>6, <1>7 DEF Inv, DownOk

\* So is the result of an order beside the lane.
LEMMA BesideAnswerStep ==
  ASSUME Inv, NEW f \in OffLane, BesideAnswer(f)
  PROVE  Inv'
<1> DEFINE t == beside[f]
<1>1. /\ Flying(t) /\ t.fence = f /\ f \in Fences /\ t.result # "none"
      /\ rows[f].result \in {"none", t.result}
      /\ ~t.acknowledged /\ t \in Task /\ Typed /\ \A g \in Fences : RowOk(g)
  BY ResultJournalAssumption
     DEF Inv, BesideOk, Typed, BesideAnswer, Settle, Lost, Flying
<1>2. UNCHANGED <<cursor, look, lane, pass, due, effect, launches, up, crashes>> /\ up
  BY DEF BesideAnswer, world
<1>3. /\ SameOutcome(rows', told') /\ beside' \in [OffLane -> Task]
      /\ \A g \in OffLane : g # f => beside'[g] = beside[g]
      /\ ~beside'[f].acknowledged /\ beside'[f].at \in {"idle", "refused"}
      /\ beside'[f].at = "refused" =>
           /\ beside'[f].fence = f /\ beside'[f].result = t.result
           /\ rows[f].result = t.result => told'[f]
      /\ \/ rows'[f].rejection # "none" => rows[f].rejection # "none"
         \/ rows[f].result = t.result => told'[f]
      /\ \A g \in Fences : g # f /\ rows'[g].rejection # "none" => rows[g].rejection # "none"
  <2>1. CASE (Settle(t) \/ Lost(t)) /\ beside' = [beside EXCEPT ![f] = Idle]
    <3>1. /\ SameOutcome(rows', told')
          /\ \A g \in Fences : rows'[g].rejection # "none" => rows[g].rejection # "none"
      <4>1. t.at = "refused" /\ rows[f].result = t.result /\ rows[f].rejection # "none" => told[f]
        BY <1>1 DEF Inv, BesideOk
      <4>2. \/ /\ t.at = "sending"
               /\ rows' = [rows EXCEPT ![t.fence] =
                            IF t.acknowledged THEN mark_reconciled(@) ELSE acknowledge(@)]
               /\ told' = [told EXCEPT ![t.fence] = @ \/ rows[t.fence].result = t.result]
            \/ /\ rows' = [rows EXCEPT ![t.fence] = discard_rejected_result(@, t.result)]
               /\ told' = told
               /\ rows[t.fence].result = t.result /\ rows[t.fence].rejection # "none"
                    => told[t.fence]
            \/ rows' = rows /\ told' = told
        BY <1>1, <2>1, <4>1, Zenon DEF Settle, Lost, Accepted, Heard, Discard
      <4>3. QED
        BY <1>1, <4>2, SettleFacts, ZenonT(60)
    <3>2. beside' \in [OffLane -> Task] /\ beside'[f] = Idle
          /\ \A g \in OffLane : g # f => beside'[g] = beside[g]
      BY <1>1, <2>1, TaskFacts DEF Typed
    <3>3. QED
      BY <1>1, <3>1, <3>2, TaskFacts
  <2>2. CASE t.at = "sending" /\ Refused(t) /\ beside' = [beside EXCEPT ![f].at = "refused"]
    <3>1. /\ SameOutcome(rows', told')
          /\ rows[f].result = t.result => told'[f]
          /\ \A g \in Fences : g # f => rows'[g] = rows[g]
      <4>1. /\ rows' = [rows EXCEPT ![f] = reject_result(rows[f])]
            /\ told' = [told EXCEPT ![f] = told[f] \/ rows[f].result = t.result]
        BY <1>1, <2>2 DEF Refused, Heard
      <4>2. Typed /\ (\A g \in Fences : RowOk(g)) /\ f \in Fences
        BY <1>1
      <4>3. QED
        BY <4>1, <4>2, RefuseFacts, ZenonT(60)
    <3>2. beside' = [beside EXCEPT ![f] = [t EXCEPT !.at = "refused"]]
      BY <1>1, <2>2 DEF Typed
    <3>3. /\ [t EXCEPT !.at = "refused"] \in Task /\ [t EXCEPT !.at = "refused"].fence = f
          /\ [t EXCEPT !.at = "refused"].result = t.result
          /\ [t EXCEPT !.at = "refused"].at = "refused"
          /\ ~[t EXCEPT !.at = "refused"].acknowledged
      BY <1>1 DEF Task
    <3>4. beside' \in [OffLane -> Task] /\ beside'[f] = [t EXCEPT !.at = "refused"]
          /\ \A g \in OffLane : g # f => beside'[g] = beside[g]
      BY <1>1, <3>2, <3>3 DEF Typed
    <3>5. QED
      BY <3>1, <3>3, <3>4
  <2>3. QED
    BY <2>1, <2>2 DEF BesideAnswer
<1> HIDE DEF t
<1>4. Typed' /\ \A g \in Fences : RowOk(g)'
  BY <1>1, <1>2, <1>3, AnsweredRows DEF Typed
<1>5. LaneOk'
  BY SMTT(60), <1>1, <1>2, <1>3 DEF Inv, LaneOk, Flying, SameOutcome
<1>6. PassOk' /\ \A g \in OffLane : g # f => BesideOk(g)'
  BY SMTT(60), <1>2, <1>3, TasksKept
<1>7. BesideOk(f)'
  BY ZenonT(60), <1>1, <1>3 DEF BesideOk, Flying, SameOutcome
<1>8. \A g \in Fences : ExecOk(g)'
  BY <1>2, <1>3, TasksKept DEF Executor, Executing
<1>9. QED
  BY <1>2, <1>4, <1>5, <1>6, <1>7, <1>8 DEF Inv, DownOk

\* The pass settles what the row still says.
LEMMA PassAnswerStep ==
  ASSUME Inv, PassAnswer \/ PassLost
  PROVE  Inv'
<1>1. /\ Flying(pass) /\ pass.fence \in Fences /\ pass.result # "none" /\ ~Flying(lane)
      /\ rows[pass.fence].result = pass.result
      /\ pass \in Task /\ Typed /\ \A g \in Fences : RowOk(g)
  BY DEF Inv, PassOk, Typed, PassAnswer, PassLost, Passing, Settle, Lost, Flying
<1>2. UNCHANGED <<cursor, look, lane, beside, due, effect, launches, up, crashes>> /\ up
  BY DEF PassAnswer, PassLost, Passing, world
<1>3. /\ SameOutcome(rows', told') /\ pass' \in Task
      /\ Flying(pass') => /\ pass'.fence = pass.fence /\ pass'.result = pass.result
                          /\ told'[pass.fence]
  <2>1. CASE (Settle(pass) \/ Lost(pass)) /\ pass' \in {Idle, [Idle EXCEPT !.at = "deliver"]}
    <3>1. SameOutcome(rows', told')
      BY <1>1, <2>1, SettleFacts
         DEF Inv, PassOk, Settle, Lost, Accepted, Heard, Discard
    <3>2. QED
      BY Zenon, <2>1, <3>1, TaskFacts DEF Flying
  <2>2. CASE pass.at = "sending" /\ Refused(pass) /\ pass' = [pass EXCEPT !.at = "refused"]
    <3>1. /\ SameOutcome(rows', told') /\ told'[pass.fence]
      <4>1. PICK f \in Fences : f = pass.fence
        BY <1>1
      <4>2. /\ rows' = [rows EXCEPT ![f] = reject_result(rows[f])]
            /\ told' = [told EXCEPT ![f] = told[f] \/ rows[f].result = pass.result]
        BY Zenon, <1>1, <2>2, <4>1 DEF Refused, Heard
      <4>3. Typed /\ (\A g \in Fences : RowOk(g)) /\ f \in Fences
        BY <1>1
      <4>4. /\ SameOutcome(rows', told')
            /\ rows[f].result = pass.result => told'[f]
            /\ \A g \in Fences : g # f => rows'[g] = rows[g]
        BY <4>2, <4>3, RefuseFacts, ZenonT(60)
      <4>5. QED
        BY <1>1, <4>1, <4>4
    <3>2. /\ pass' \in Task /\ pass'.fence = pass.fence /\ pass'.result = pass.result
      BY <1>1, <2>2 DEF Task
    <3>3. QED
      BY <3>1, <3>2
  <2>3. QED
    BY <2>1, <2>2 DEF PassAnswer, PassLost
<1>4. Typed' /\ \A g \in Fences : RowOk(g)'
  BY <1>1, <1>2, <1>3, AnsweredRows DEF Typed
<1>5. LaneOk'
  BY <1>1, <1>2 DEF Inv, LaneOk, Flying
<1>6. PassOk'
  BY <1>1, <1>3 DEF PassOk, Flying, SameOutcome
<1>7. /\ \A f \in OffLane : BesideOk(f)'
      /\ \A f \in Fences : ExecOk(f)'
  BY <1>2, <1>3, TasksKept DEF Executor
<1>8. QED
  BY <1>2, <1>4, <1>5, <1>6, <1>7 DEF Inv, DownOk

(***************************************************************************)
(* The steps that leave the rows alone.                                    *)
(***************************************************************************)
\* A crash ends every task of the agent.
LEMMA CrashStep ==
  ASSUME Inv, Crash
  PROVE  Inv'
<1>1. /\ UNCHANGED <<rows, due, effect, launches, told>> /\ up' = FALSE /\ crashes' \in 0 .. MaxCrashes
      /\ lane' = Idle /\ pass' = Idle /\ beside' = [f \in OffLane |-> Idle]
      /\ cursor' \in 0 .. N /\ look' \in 0 .. N
  BY ResultJournalAssumption DEF Crash, Inv, Typed
<1>2. Typed'
  <2>1. beside' \in [OffLane -> Task]
    BY <1>1, TaskFacts
  <2>2. QED
    BY Zenon, <1>1, <2>1, TaskFacts DEF Inv, Typed
<1>3. LaneOk' /\ PassOk' /\ DownOk'
  BY <1>1, TaskFacts DEF LaneOk, PassOk, DownOk, Flying
<1>4. \A f \in OffLane : BesideOk(f)'
  BY <1>1, TaskFacts DEF BesideOk, Flying
<1>5. \A f \in Fences : RowOk(f)' /\ ExecOk(f)'
  BY <1>1, TaskFacts DEF Inv, RowOk, ExecOk, Executing, Executor
<1>6. QED
  BY <1>2, <1>3, <1>4, <1>5 DEF Inv

\* An effect is dispatched by the executor of a row without a result.
LEMMA LaunchStep ==
  ASSUME Inv, NEW f \in Fences, Launch(f)
  PROVE  Inv'
<1>1. /\ UNCHANGED <<rows, cursor, look, due, told, pass, up, crashes>> /\ up
      /\ effect' = [effect EXCEPT ![f] = "running"]
      /\ launches' = [launches EXCEPT ![f] = @ + 1]
  BY DEF Launch, journal
<1>2. /\ launches[f] = 0 /\ rows[f].state = "running" /\ Typed /\ RowOk(f) /\ Good(rows[f])
  BY DEF Launch, Inv, ExecOk, Typed
<1>3. /\ launches' \in [Fences -> 0 .. 2] /\ launches'[f] = 1 /\ effect'[f] = "running"
      /\ effect' \in [Fences -> {"none", "running", "gone"}]
      /\ \A g \in Fences : g # f => launches'[g] = launches[g] /\ effect'[g] = effect[g]
  BY <1>1, <1>2 DEF Typed
<1>4. \A g \in Fences : RowOk(g)'
  BY <1>1, <1>2, <1>3 DEF Inv, RowOk, Good
<1>5. CASE f \in OffLane
  <2>1. /\ lane' = lane /\ beside' = [beside EXCEPT ![f] = [beside[f] EXCEPT !.at = "launched"]]
        /\ beside[f] \in Task /\ beside[f].fence = f /\ beside[f].at = "executing"
        /\ ~beside[f].acknowledged
    BY <1>2, <1>5 DEF Launch, Executing, Executor, Typed, Inv, BesideOk
  <2>2. LET t == [beside[f] EXCEPT !.at = "launched"] IN
        t \in Task /\ t.at = "launched" /\ t.fence = f /\ ~t.acknowledged
    BY <2>1 DEF Task
  <2>3. /\ beside' \in [OffLane -> Task] /\ beside'[f].at = "launched" /\ beside'[f].fence = f
        /\ ~beside'[f].acknowledged
        /\ \A g \in OffLane : g # f => beside'[g] = beside[g]
    BY <1>2, <1>5, <2>1, <2>2 DEF Typed
  <2>4. Typed'
    BY <1>1, <1>2, <1>3, <2>1, <2>3 DEF Typed
  <2>5. LaneOk' /\ PassOk' /\ DownOk'
    BY SMTT(60), <1>1, <2>1 DEF Inv, LaneOk, PassOk, DownOk, Flying
  <2>6. \A g \in OffLane : BesideOk(g)'
    BY <1>1, <2>3 DEF Inv, BesideOk, Flying
  <2>7. \A g \in Fences : ExecOk(g)'
    BY SMTT(60), <1>1, <1>2, <1>3, <2>1, <2>3 DEF Inv, ExecOk, Executing, Executor
  <2>8. QED
    BY <1>4, <2>4, <2>5, <2>6, <2>7 DEF Inv
<1>6. CASE f \notin OffLane
  <2>1. /\ beside' = beside /\ lane' = [lane EXCEPT !.at = "launched"]
        /\ lane \in Task /\ lane.fence = f /\ lane.at = "executing" /\ ~lane.acknowledged
    BY <1>2, <1>6 DEF Launch, Executing, Executor, Typed, Inv, LaneOk
  <2>2. lane' \in Task /\ lane'.at = "launched" /\ lane'.fence = f /\ ~lane'.acknowledged
    BY <2>1 DEF Task
  <2>3. Typed'
    BY SMTT(60), <1>1, <1>2, <1>3, <2>1, <2>2 DEF Typed
  <2>4. LaneOk' /\ PassOk' /\ DownOk'
    BY SMTT(60), <1>1, <1>6, <2>1, <2>2 DEF Inv, LaneOk, PassOk, DownOk, Flying
  <2>5. \A g \in OffLane : BesideOk(g)'
    BY <1>1, <2>1 DEF Inv, BesideOk, Flying
  <2>6. \A g \in Fences : ExecOk(g)'
    BY <1>1, <1>2, <1>3, <1>6, <2>1, <2>2 DEF Inv, ExecOk, Executing, Executor
  <2>7. QED
    BY <1>4, <2>3, <2>4, <2>5, <2>6 DEF Inv
<1>7. QED
  BY <1>5, <1>6

\* An effect that ends leaves the records true.
LEMMA EffectEndsStep ==
  ASSUME Inv, NEW f \in Fences, EffectEnds(f)
  PROVE  Inv'
<1>1. /\ UNCHANGED <<rows, cursor, look, due, launches, told, lane, beside, pass, up, crashes>>
      /\ effect' \in [Fences -> {"none", "running", "gone"}]
      /\ \A g \in Fences : effect'[g] = effect[g] \/ (effect'[g] = "gone" /\ effect[g] = "running")
  BY SMTT(60) DEF EffectEnds, journal, tasks, Inv, Typed
<1>2. Typed' /\ LaneOk' /\ PassOk' /\ DownOk'
  BY ZenonT(60), <1>1 DEF Inv, Typed, LaneOk, PassOk, DownOk, Flying
<1>3. /\ \A g \in Fences : RowOk(g)' /\ ExecOk(g)'
      /\ \A g \in OffLane : BesideOk(g)'
  BY <1>1 DEF Inv, RowOk, ExecOk, Executing, Executor, BesideOk, Flying
<1>4. QED
  BY <1>2, <1>3 DEF Inv

\* A deadline passes; a spent budget stays spent.
LEMMA ElapseStep ==
  ASSUME Inv, NEW f \in Fences, Elapse(f)
  PROVE  Inv'
<1>1. /\ UNCHANGED <<rows, cursor, look, effect, launches, told, lane, beside, pass, up, crashes>>
      /\ due' \in [Fences -> {"live", "past", "spent"}]
      /\ \A g \in Fences : due[g] = "spent" => due'[g] = "spent"
  BY SMTT(60) DEF Elapse, journal, tasks, Inv, Typed
<1>2. Typed' /\ LaneOk' /\ PassOk' /\ DownOk'
  BY SMTT(60), <1>1 DEF Inv, Typed, LaneOk, PassOk, DownOk, Flying
<1>3. /\ \A g \in Fences : RowOk(g)' /\ ExecOk(g)'
      /\ \A g \in OffLane : BesideOk(g)'
  BY <1>1 DEF Inv, RowOk, ExecOk, Executing, Executor, BesideOk, Flying
<1>4. QED
  BY <1>2, <1>3 DEF Inv

\* The pass turns to the delivery of the next retained result.
LEMMA DeliveryStep ==
  ASSUME Inv, Deliver \/ NextDelivery
  PROVE  Inv'
<1>1. /\ UNCHANGED <<rows, look, told, lane, beside, due, effect, launches, up, crashes>>
      /\ up /\ ~Flying(lane)
  BY DEF Deliver, NextDelivery, journal, world, Passing, Flying
<1>2. /\ cursor' \in 0 .. N /\ pass' \in Task
      /\ Flying(pass') => /\ pass'.fence \in Fences /\ pass'.result # "none"
                          /\ rows[pass'.fence].result = pass'.result
                          /\ pass'.at = "sending"
  <2>1. CASE Deliver
    BY SMTT(60), <2>1, TaskFacts DEF Deliver, journal, Inv, Typed, Flying
  <2>2. CASE NextDelivery
    <3> DEFINE waiting == {f \in Fences : Retained(f) /\ f > cursor}
    <3>1. CASE waiting = {}
      BY SMTT(60), <2>2, <3>1, TaskFacts, ResultJournalAssumption DEF NextDelivery, Flying
    <3>2. CASE waiting # {}
      <4> DEFINE f == Min(waiting)
                 t == [at |-> "sending", fence |-> f, result |-> rows[f].result,
                       acknowledged |-> rows[f].acknowledged]
      <4>1. f \in Fences /\ Retained(f)
        BY SMTT(60), <3>2, MinIsMember
      <4>2. cursor' = f /\ (pass' = pass \/ pass' = t) /\ pass.at = "deliver"
        BY <2>2, <3>2 DEF NextDelivery
      <4> HIDE DEF f, waiting
      <4>3. rows[f] \in Row /\ rows[f].result # "none" /\ f \in 0 .. N
        BY SMTT(60), <4>1, ResultJournalAssumption DEF Inv, Typed, Good, Retained, Fences
      <4>4. t \in Task /\ t.fence = f /\ t.result = rows[f].result /\ t.at = "sending"
        BY SMTT(60), <4>3 DEF Task, Row
      <4> HIDE DEF t
      <4>5. QED
        BY <4>1, <4>2, <4>3, <4>4 DEF Inv, Typed, Flying
    <3>3. QED
      BY <3>1, <3>2
  <2>3. QED
    BY <2>1, <2>2
<1>3. Typed' /\ LaneOk' /\ PassOk' /\ DownOk'
  BY ZenonT(60), <1>1, <1>2 DEF Inv, Typed, LaneOk, PassOk, DownOk, Flying
<1>4. /\ \A g \in Fences : RowOk(g)' /\ ExecOk(g)'
      /\ \A g \in OffLane : BesideOk(g)'
  BY <1>1 DEF Inv, RowOk, ExecOk, Executing, Executor, BesideOk, Flying
<1>5. QED
  BY <1>3, <1>4 DEF Inv

(***************************************************************************)
(* The steps that write a row.                                             *)
(***************************************************************************)
\* One statement on one row: the other rows and their answers stay.
LEMMA WriteFacts ==
  ASSUME Typed, NEW f \in Fences, NEW row, Good(row), Write(f, row)
  PROVE  /\ rows' \in [Fences -> Row] /\ rows'[f] = row
         /\ \A g \in Fences : Good(rows'[g])
         /\ \A g \in Fences : g # f => rows'[g] = rows[g] /\ told'[g] = told[g]
         /\ told' \in [Fences -> BOOLEAN]
         /\ told'[f] = (told[f] /\ row.result = rows[f].result)
BY DEF Typed, Good, Write

\* A start of the agent makes what was begun without a claim unknown.
LEMMA StartUpStep ==
  ASSUME Inv, StartUp
  PROVE  Inv'
<1>1. /\ UNCHANGED <<cursor, look, due, effect, launches, lane, beside, pass, crashes>> /\ up'
      /\ rows' = [f \in Fences |-> recover_interrupted(rows[f])]
      /\ told' = [f \in Fences |-> told[f] /\ rows'[f].result = rows[f].result]
      /\ lane = Idle /\ pass = Idle /\ \A f \in OffLane : beside[f] = Idle
      /\ Typed /\ \A f \in Fences : Good(rows[f]) /\ RowOk(f)
  BY SMTT(60) DEF StartUp, Inv, DownOk, tasks, Typed
<1>2. \A f \in Fences :
        /\ Good(rows'[f]) /\ rows'[f].ended = rows[f].ended
        /\ rows'[f].settled = rows[f].settled
        /\ rows[f].state \in {"completed", "none"} => rows'[f] = rows[f]
        /\ rows'[f].state = "none" => rows[f].state = "none"
        /\ rows'[f].result # rows[f].result => rows'[f].result = "unknown"
        /\ told'[f] = (told[f] /\ rows'[f].result = rows[f].result)
  BY SMTT(60), <1>1, RecoverFacts
<1>3. rows' \in [Fences -> Row] /\ told' \in [Fences -> BOOLEAN]
  BY <1>1, <1>2 DEF Good
<1>4. Typed'
  BY <1>1, <1>2, <1>3 DEF Typed
<1>5. LaneOk' /\ PassOk' /\ DownOk' /\ \A f \in OffLane : BesideOk(f)'
  BY <1>1, TaskFacts DEF LaneOk, PassOk, DownOk, BesideOk, Flying
<1>6. \A f \in Fences : ExecOk(f)'
  BY ZenonT(60), <1>1, TaskFacts DEF ExecOk, Executing, Executor
<1>7. ASSUME NEW f \in Fences PROVE RowOk(f)'
  <2>1. rows[f].settled => rows'[f] = rows[f] /\ told'[f]
    BY Zenon, <1>1, <1>2 DEF RowOk
  <2>2. rows'[f].state = "none" => rows[f].state = "none"
    BY <1>2
  <2>3. rows'[f].result = "definite" => rows[f].result = "definite"
    BY SMTT(60), <1>2
  <2>4. rows[f].ended => rows'[f] = rows[f]
    BY SMTT(60), <1>1, <1>2 DEF RowOk
  <2>5. rows'[f].ended = rows[f].ended /\ rows'[f].settled = rows[f].settled /\ RowOk(f)
    BY <1>1, <1>2
  <2>6. QED
    BY <1>1, <2>1, <2>2, <2>3, <2>4, <2>5 DEF RowOk
<1>8. QED
  BY SMTT(60), <1>4, <1>5, <1>6, <1>7 DEF Inv

\* A claim takes an order into custody before it runs, or replays its row.
LEMMA ClaimStep ==
  ASSUME Inv, NEW f \in Fences, Claim(f)
  PROVE  Inv'
<1>1. /\ UNCHANGED <<cursor, look, due, effect, launches, up, crashes>> /\ up /\ pass' = Idle
      /\ lane = Idle /\ Typed /\ Good(rows[f]) /\ \A g \in Fences : RowOk(g)
  BY DEF Claim, world, Inv, Typed
<1>2. PassOk' /\ DownOk'
  BY <1>1, TaskFacts DEF PassOk, DownOk, Flying
<1>3. CASE BeginExecute(f)
  <2> DEFINE t == At("executing", f, "none")
  <2>1. /\ rows[f].state = "none" /\ Write(f, Begun(rows[f]))
        /\ IF f \in OffLane THEN beside' = [beside EXCEPT ![f] = t] /\ UNCHANGED lane
           ELSE lane' = t /\ UNCHANGED beside
    BY <1>3 DEF BeginExecute, Execute
  <2>2. t \in Task /\ t.at = "executing" /\ t.fence = f /\ ~t.acknowledged
    BY SMTT(60), TaskFacts
  <2> HIDE DEF t
  <2>3. /\ rows' \in [Fences -> Row] /\ \A g \in Fences : Good(rows'[g])
        /\ \A g \in Fences : g # f => rows'[g] = rows[g]
        /\ rows'[f].state = "running" /\ rows'[f].result = rows[f].result
        /\ rows'[f].settled = rows[f].settled /\ rows'[f].ended = rows[f].ended
        /\ rows'[f].rejection = rows[f].rejection
        /\ \A g \in Fences : told'[g] = told[g]
        /\ told' \in [Fences -> BOOLEAN]
    <3>1. /\ Good(Begun(rows[f])) /\ Begun(rows[f]).state = "running"
          /\ Begun(rows[f]).result = rows[f].result /\ Begun(rows[f]).settled = rows[f].settled
          /\ Begun(rows[f]).ended = rows[f].ended
          /\ Begun(rows[f]).rejection = rows[f].rejection
      BY ZenonT(60), <1>1, <2>1, BegunFacts
    <3>2. /\ rows' \in [Fences -> Row] /\ rows'[f] = Begun(rows[f])
          /\ \A g \in Fences : Good(rows'[g])
          /\ \A g \in Fences : g # f => rows'[g] = rows[g] /\ told'[g] = told[g]
          /\ told' \in [Fences -> BOOLEAN] /\ told'[f] = told[f]
      <4>1. told'[f] = (told[f] /\ Begun(rows[f]).result = rows[f].result)
        BY ZenonT(60), <1>1, <2>1, <3>1, WriteFacts
      <4>2. told'[f] = told[f]
        BY <1>1, <3>1, <4>1 DEF Typed
      <4>3. QED
        BY ZenonT(60), <1>1, <2>1, <3>1, <4>2, WriteFacts
    <3>3. QED
      BY ZenonT(60), <3>1, <3>2
  <2>4. \A g \in Fences : RowOk(g)'
    BY <1>1, <2>1, <2>3 DEF RowOk
  <2>5. /\ lane' \in Task /\ beside' \in [OffLane -> Task] /\ ~lane'.acknowledged
        /\ lane'.at \in {"idle", "executing"}
        /\ lane'.at = "executing" => f \notin OffLane /\ lane'.fence = f
        /\ \A g \in OffLane : beside'[g] = beside[g] \/ (g = f /\ beside'[g] = t)
    BY <1>1, <2>1, <2>2, TaskFacts DEF Typed
  <2>6. Typed'
    BY SMTT(60), <1>1, <2>3, <2>5, TaskFacts DEF Typed
  <2>7. LaneOk'
    BY ZenonT(60), <2>5 DEF LaneOk, Flying
  <2>8. \A g \in OffLane : BesideOk(g)'
    <3>1. ASSUME NEW g \in OffLane PROVE rows'[g].result = rows[g].result /\ told'[g] = told[g]
      BY <2>3, ResultJournalAssumption
    <3>2. ASSUME NEW g \in OffLane PROVE BesideOk(g)
      BY ZenonT(60) DEF Inv
    <3>3. QED
      BY ZenonT(60), <2>2, <2>5, <3>1, <3>2 DEF BesideOk, Flying
  <2>9. \A g \in Fences : ExecOk(g)'
    BY SMTT(60), <1>1, <2>1, <2>2, <2>3, <2>5 DEF Inv, ExecOk, Executing, Executor, RowOk
  <2>10. QED
    BY <1>2, <2>4, <2>6, <2>7, <2>8, <2>9 DEF Inv
<1>4. CASE BeginKnown(f) \/ BeginRefused(f)
  <2>1. /\ UNCHANGED <<rows, told, beside>>
        /\ lane' \in Task /\ ~lane'.acknowledged /\ lane'.at \in {"idle", "sending"}
        /\ lane'.at = "sending" => lane'.fence = f /\ lane'.result # "none"
    <3>1. rows[f].result \in Results
      BY SMTT(60), <1>1 DEF Good, Row
    <3>2. \A result \in Results \ {"none"} :
            LET t == deliver_result(rows[f], f, result) IN
            /\ t \in Task /\ ~t.acknowledged
            /\ t = Idle \/ (t.at = "sending" /\ t.fence = f /\ t.result = result)
      BY DeliverFacts
    <3>3. \/ lane' = Idle
          \/ \E result \in Results \ {"none"} : lane' = deliver_result(rows[f], f, result)
      BY <1>4, <3>1 DEF BeginKnown, BeginRefused, Uncertain, Results
    <3>4. UNCHANGED <<rows, told, beside>>
      BY <1>4 DEF BeginKnown, BeginRefused
    <3>5. QED
      BY SMTT(60), <3>2, <3>3, <3>4, TaskFacts
  <2>2. Typed'
    BY <1>1, <2>1, TaskFacts DEF Typed
  <2>3. LaneOk'
    BY ZenonT(60), <1>1, <2>1, TaskFacts DEF LaneOk, Flying
  <2>4. /\ \A g \in Fences : RowOk(g)' /\ ExecOk(g)'
        /\ \A g \in OffLane : BesideOk(g)'
    BY <1>1, <2>1 DEF Inv, RowOk, ExecOk, Executing, Executor, BesideOk, Flying
  <2>5. QED
    BY <1>2, <2>2, <2>3, <2>4 DEF Inv
<1>5. QED
  BY <1>3, <1>4 DEF Claim

\* An executor returns: its order had no result yet.
LEMMA ExecutedStep ==
  ASSUME Inv, NEW f \in Fences, Executed(f)
  PROVE  Inv'
<1>1. /\ UNCHANGED <<cursor, look, due, effect, launches, up, crashes>> /\ up
      /\ Typed /\ Good(rows[f]) /\ \A g \in Fences : RowOk(g)
      /\ rows[f].state = "running" /\ rows[f].result = "none"
      /\ ~rows[f].settled /\ ~rows[f].ended
  BY SMTT(60) DEF Executed, world, Inv, Typed, Good, ExecOk, RowOk, Row
<1>2. PICK result \in Truthful(f), kept \in BOOLEAN, offered \in BOOLEAN :
        LET row == IF kept THEN finish(rows[f], result) ELSE rows[f]
            next == IF offered
                    THEN deliver_result(row, f, IF kept THEN result ELSE "unknown")
                    ELSE Idle
        IN  /\ Write(f, row)
            /\ IF f \in OffLane
               THEN beside' = [beside EXCEPT ![f] = next] /\ UNCHANGED <<lane, pass>>
               ELSE lane' = next /\ pass' = Idle /\ UNCHANGED beside
  BY DEF Executed
<1> DEFINE row == IF kept THEN finish(rows[f], result) ELSE rows[f]
           sent == IF kept THEN result ELSE "unknown"
           next == IF offered THEN deliver_result(row, f, sent) ELSE Idle
<1>3. /\ result \in {"unknown", "definite"} /\ sent \in Results \ {"none"}
      /\ result = "definite" => effect[f] # "running"
  BY ZenonT(60) DEF Truthful, Results
<1>4. /\ Good(row) /\ row.state \in {"running", "completed"} /\ ~row.settled /\ ~row.ended
      /\ row.result \in {"none", sent}
      /\ row.result # "none" => row.rejection = "none"
      /\ row.result = "definite" => effect[f] # "running"
  BY <1>1, <1>3, FinishFacts
<1>5. /\ next \in Task /\ ~next.acknowledged
      /\ next = Idle \/ (next.at = "sending" /\ next.fence = f /\ next.result = sent)
  BY SMTT(60), <1>3, DeliverFacts, TaskFacts
<1>6. /\ Write(f, row)
      /\ IF f \in OffLane
         THEN beside' = [beside EXCEPT ![f] = next] /\ UNCHANGED <<lane, pass>>
         ELSE lane' = next /\ pass' = Idle /\ UNCHANGED beside
  BY ZenonT(60), <1>2
<1> HIDE DEF row, sent, next
<1>7. /\ rows' \in [Fences -> Row] /\ rows'[f] = row /\ \A g \in Fences : Good(rows'[g])
      /\ \A g \in Fences : g # f => rows'[g] = rows[g] /\ told'[g] = told[g]
      /\ told' \in [Fences -> BOOLEAN]
  BY ZenonT(60), <1>1, <1>4, <1>6, WriteFacts
<1>8. \A g \in Fences : RowOk(g)'
  BY SMTT(60), <1>1, <1>4, <1>7 DEF RowOk
<1>9. CASE f \in OffLane
  <2>1. /\ UNCHANGED <<lane, pass>> /\ beside' \in [OffLane -> Task] /\ beside'[f] = next
        /\ \A g \in OffLane : g # f => beside'[g] = beside[g]
    BY SMTT(60), <1>1, <1>5, <1>6, <1>9 DEF Typed
  <2>2. Typed'
    BY ZenonT(60), <1>1, <1>7, <2>1 DEF Typed
  <2>3. PassOk'
    BY ZenonT(60), <1>1, <1>7, <2>1 DEF Inv, PassOk, Flying
  <2>4. LaneOk'
    <3>1. lane.at = "refused" => lane.fence \in Fences /\ lane.result # "none"
      BY SMTT(60) DEF Inv, LaneOk, Flying
    <3>2. /\ lane.at = "refused" /\ rows'[lane.fence].result = lane.result
          /\ rows'[lane.fence].rejection # "none"
          => told'[lane.fence]
      <4>1. CASE lane.fence = f
        BY ZenonT(60), <1>4, <1>7, <3>1, <4>1
      <4>2. CASE lane.fence # f
        BY <1>7, <3>1, <4>2 DEF Inv, LaneOk
      <4>3. QED
        BY SMTT(60), <4>1, <4>2
    <3>3. QED
      BY ZenonT(60), <2>1, <3>2 DEF Inv, LaneOk, Flying
  <2>5. ASSUME NEW g \in OffLane PROVE BesideOk(g)'
    <3>1. CASE g = f
      BY ZenonT(60), <1>3, <1>4, <1>5, <1>7, <2>1, <3>1, TaskFacts DEF BesideOk, Flying
    <3>2. CASE g # f
      BY SMTT(60), <1>7, <2>1, <3>2, ResultJournalAssumption DEF Inv, BesideOk, Flying
    <3>3. QED
      BY <3>1, <3>2
  <2>6. ASSUME NEW g \in Fences PROVE ExecOk(g)'
    <3>1. CASE g = f
      BY ZenonT(60), <1>5, <1>9, <2>1, <3>1, TaskFacts DEF ExecOk, Executing, Executor
    <3>2. CASE g # f
      BY ZenonT(60), <1>1, <1>7, <2>1, <3>2 DEF Inv, ExecOk, Executing, Executor
    <3>3. QED
      BY <3>1, <3>2
  <2>7. QED
    BY ZenonT(60), <1>1, <1>8, <2>2, <2>3, <2>4, <2>5, <2>6 DEF Inv, DownOk
<1>10. CASE f \notin OffLane
  <2>1. lane' = next /\ pass' = Idle /\ UNCHANGED beside
    BY <1>6, <1>10
  <2>2. Typed'
    BY <1>1, <1>5, <1>7, <2>1, TaskFacts DEF Typed
  <2>3. PassOk' /\ LaneOk'
    BY ZenonT(60), <1>3, <1>5, <2>1, TaskFacts DEF PassOk, LaneOk, Flying
  <2>4. \A g \in OffLane : BesideOk(g)'
    BY <1>7, <1>10, <2>1, ResultJournalAssumption DEF Inv, BesideOk, Flying
  <2>5. \A g \in Fences : ExecOk(g)'
    BY <1>1, <1>5, <1>7, <1>10, <2>1, TaskFacts DEF Inv, ExecOk, Executing, Executor
  <2>6. QED
    BY ZenonT(60), <1>1, <1>8, <2>2, <2>3, <2>4, <2>5 DEF Inv, DownOk
<1>11. QED
  BY ZenonT(60), <1>9, <1>10

\* What a probe records of an order that nothing executes.
LEMMA ProbedFacts ==
  ASSUME Typed, NEW f \in Fences, RowOk(f), Observed(f), NEW seen \in Seen(f),
         Probed(f, seen)
  PROVE  /\ rows' \in [Fences -> Row] /\ told' \in [Fences -> BOOLEAN]
         /\ \A g \in Fences : Good(rows'[g])
         /\ \A g \in Fences : g # f => rows'[g] = rows[g] /\ told'[g] = told[g]
         /\ rows'[f].state # "none"
         /\ rows[f].result = "definite" => rows'[f].result = "definite"
         /\ rows'[f].settled => rows'[f].state = "completed" /\ told'[f]
         /\ rows'[f].result = "definite" => effect[f] # "running"
         /\ rows'[f].ended => /\ rows'[f].state = "completed"
                              /\ effect[f] # "running" \/ (due[f] = "spent" /\ f \notin JobRuns)
<1> DEFINE row == CASE seen \in {"definite", "unknown"} -> finish(rows[f], seen)
                    [] seen \in {"absent", "unavailable"} /\ due[f] # "live" ->
                           finish(rows[f], "unknown")
                    [] OTHER -> rows[f]
           new == [row EXCEPT !.ended = @ \/ Ends(f, seen)]
<1>1. /\ Good(rows[f]) /\ rows[f].state # "none" /\ ~rows[f].ended
      /\ rows[f].settled => rows[f].state = "completed" /\ told[f]
      /\ rows[f].result = "definite" => effect[f] # "running"
      /\ told \in [Fences -> BOOLEAN]
  BY DEF Typed, Good, Row, Observed, RowOk
<1>2. Write(f, new)
  BY DEF Probed
<1>3. /\ seen = "definite" => effect[f] # "running"
      /\ seen \in {"definite", "unknown", "absent"} => effect[f] # "running"
      /\ seen \in {"unavailable", "progressing", "definite", "unknown", "absent"}
  BY DEF Seen
<1>4. \/ row = rows[f] /\ ~Ends(f, seen)
      \/ \E result \in {"unknown", "definite"} :
            /\ row = finish(rows[f], result)
            /\ result = "definite" => effect[f] # "running"
  <2>1. CASE seen \in {"definite", "unknown"}
    <3>1. row = finish(rows[f], seen)
      BY <2>1
    <3>2. QED
      BY <1>3, <2>1, <3>1
  <2>2. CASE seen \in {"absent", "unavailable"} /\ due[f] # "live"
    <3>1. row = finish(rows[f], "unknown")
      BY <2>2
    <3>2. QED
      BY <3>1
  <2>3. CASE /\ ~(seen \in {"definite", "unknown"})
             /\ ~(seen \in {"absent", "unavailable"} /\ due[f] # "live")
    <3>1. row = rows[f]
      BY <2>3
    <3>2. ~Ends(f, seen)
      BY <2>3 DEF Ends
    <3>3. QED
      BY <3>1, <3>2
  <2>4. QED
    BY <2>1, <2>2, <2>3
<1>5. Ends(f, seen) => effect[f] # "running" \/ (due[f] = "spent" /\ f \notin JobRuns)
  BY <1>3 DEF Ends
<1>6. /\ Good(row) /\ row.state # "none" /\ ~row.ended
      /\ Ends(f, seen) => row.state = "completed"
      /\ rows[f].result = "definite" => row.result = "definite"
      /\ row.settled => row.state = "completed" /\ row.result = rows[f].result /\ told[f]
      /\ row.result = "definite" => effect[f] # "running"
  BY <1>1, <1>4, FinishFacts
<1> HIDE DEF row
<1>7. /\ Good(new) /\ new.state = row.state /\ new.result = row.result
      /\ new.settled = row.settled /\ (new.ended => Ends(f, seen))
  <2>1. Ends(f, seen) \in BOOLEAN
    BY ZenonT(60) DEF Ends
  <2>2. QED
    BY <1>6, <2>1 DEF Good, Row
<1> HIDE DEF new
<1>8. /\ rows' \in [Fences -> Row] /\ rows'[f] = new
      /\ \A g \in Fences : Good(rows'[g])
      /\ \A g \in Fences : g # f => rows'[g] = rows[g] /\ told'[g] = told[g]
      /\ told' \in [Fences -> BOOLEAN]
      /\ told'[f] = (told[f] /\ new.result = rows[f].result)
  BY ZenonT(60), <1>2, <1>7, WriteFacts
<1>9. rows'[f].settled => rows'[f].state = "completed" /\ told'[f]
  BY ZenonT(60), <1>6, <1>7, <1>8
<1>10. rows'[f].ended => /\ rows'[f].state = "completed"
                         /\ effect[f] # "running" \/ (due[f] = "spent" /\ f \notin JobRuns)
  BY ZenonT(60), <1>5, <1>6, <1>7, <1>8
<1>11. /\ rows'[f].state # "none"
       /\ rows[f].result = "definite" => rows'[f].result = "definite"
       /\ rows'[f].result = "definite" => effect[f] # "running"
  BY <1>6, <1>7, <1>8
<1>12. QED
  BY <1>8, <1>9, <1>10, <1>11, Zenon

\* The order a pass probes next is one that is observed.
LEMMA NextObserved ==
  ASSUME \E f \in Fences : Observed(f)
  PROVE  Next_observed \in Fences /\ Observed(Next_observed)
<1> DEFINE later == {f \in Fences : Observed(f) /\ f > look}
           every == {f \in Fences : Observed(f)}
<1>1. later # {} => Min(later) \in later
  BY MinIsMember
<1>2. Min(every) \in every
  BY MinIsMember
<1>3. Next_observed = IF later # {} THEN Min(later) ELSE Min(every)
  BY DEF Next_observed
<1>4. QED
  BY <1>1, <1>2, <1>3

\* A pass probes an order that nothing executes, or leaves it to its executor.
LEMMA ReobserveStep ==
  ASSUME Inv, Reobserve
  PROVE  Inv'
<1> DEFINE o == Next_observed
<1>1. /\ UNCHANGED <<cursor, lane, beside, due, effect, launches, up, crashes>> /\ up
      /\ look' = o /\ pass' = [Idle EXCEPT !.at = "deliver"]
      /\ lane.at \in {"idle", "executing", "launched"}
      /\ \/ Owned(o) /\ UNCHANGED <<rows, told>>
         \/ ~Owned(o) /\ \E seen \in Seen(o) : Probed(o, seen)
      /\ Typed /\ \A g \in Fences : RowOk(g)
  BY DEF Reobserve, Passing, world, Inv
<1>2. o \in Fences /\ Observed(o) /\ o \in 0 .. N
  BY NextObserved, ResultJournalAssumption DEF Reobserve, Fences
<1> HIDE DEF o
<1>3. PassOk' /\ LaneOk' /\ DownOk'
  BY <1>1, TaskFacts DEF Inv, PassOk, LaneOk, DownOk, Flying
<1>4. CASE Owned(o) /\ UNCHANGED <<rows, told>>
  <2>1. Typed'
    BY SMTT(60), <1>1, <1>2, <1>4, TaskFacts DEF Typed
  <2>2. /\ \A g \in Fences : RowOk(g)' /\ ExecOk(g)'
        /\ \A g \in OffLane : BesideOk(g)'
    BY <1>1, <1>4 DEF Inv, RowOk, ExecOk, Executing, Executor, BesideOk, Flying
  <2>3. QED
    BY <1>3, <2>1, <2>2 DEF Inv
<1>5. CASE ~Owned(o) /\ \E seen \in Seen(o) : Probed(o, seen)
  <2>1. /\ rows' \in [Fences -> Row] /\ told' \in [Fences -> BOOLEAN]
        /\ \A g \in Fences : Good(rows'[g])
        /\ \A g \in Fences : g # o => rows'[g] = rows[g] /\ told'[g] = told[g]
        /\ rows'[o].state # "none"
        /\ rows'[o].settled => rows'[o].state = "completed" /\ told'[o]
        /\ rows'[o].result = "definite" => effect[o] # "running"
        /\ rows'[o].ended => /\ rows'[o].state = "completed"
                             /\ effect[o] # "running" \/ (due[o] = "spent" /\ o \notin JobRuns)
    BY <1>1, <1>2, <1>5, ProbedFacts
  <2>2. Typed'
    BY <1>1, <1>2, <2>1, TaskFacts DEF Typed
  <2>3. \A g \in Fences : RowOk(g)'
    BY SMTT(60), <1>1, <2>1 DEF RowOk
  <2>4. \A g \in OffLane : BesideOk(g)'
    BY SMTT(60), <1>1, <1>5, <2>1, ResultJournalAssumption DEF Inv, BesideOk, Flying, Owned
  <2>5. \A g \in Fences : ExecOk(g)'
    BY <1>1, <1>5, <2>1 DEF Inv, ExecOk, Executing, Executor, Owned
  <2>6. QED
    BY <1>3, <2>2, <2>3, <2>4, <2>5 DEF Inv
<1>6. QED
  BY <1>1, <1>4, <1>5

\* The hold on a refused result passes.
LEMMA CoolDownStep ==
  ASSUME Inv, NEW f \in Fences, CoolDown(f)
  PROVE  Inv'
<1>1. /\ UNCHANGED <<cursor, look, due, effect, launches, lane, beside, pass, up, crashes>>
      /\ told' = told /\ rows' = [rows EXCEPT ![f].rejection = "due"]
      /\ rows[f].rejection = "held" /\ Typed /\ Good(rows[f])
      /\ \A g \in Fences : RowOk(g)
  BY DEF CoolDown, tasks, world, Inv, Typed
<1> DEFINE new == [rows[f] EXCEPT !.rejection = "due"]
<1>2. rows' = [rows EXCEPT ![f] = new]
  BY <1>1 DEF Typed
<1>3. /\ Good(new) /\ new.state = rows[f].state /\ new.result = rows[f].result
      /\ new.settled = rows[f].settled /\ new.ended = rows[f].ended
  BY <1>1 DEF Good, Row
<1> HIDE DEF new
<1>4. /\ rows' \in [Fences -> Row] /\ rows'[f] = new
      /\ \A g \in Fences : g # f => rows'[g] = rows[g]
  BY <1>1, <1>2, <1>3 DEF Typed, Good
<1>5. SameOutcome(rows', told')
  BY <1>1, <1>3, <1>4 DEF SameOutcome, Typed, RowOk
<1>6. Typed' /\ \A g \in Fences : RowOk(g)'
  BY <1>1, <1>5, AnsweredRows DEF Typed
<1>7. LaneOk'
  BY <1>1, <1>3, <1>4 DEF Inv, LaneOk, Flying
<1>8. /\ PassOk' /\ \A g \in OffLane : BesideOk(g)'
      /\ \A g \in Fences : ExecOk(g)'
  BY <1>1, <1>5, TasksKept DEF Executor
<1>9. QED
  BY <1>1, <1>6, <1>7, <1>8 DEF Inv, DownOk

(***************************************************************************)
(* The theorems.                                                           *)
(***************************************************************************)
\* An empty journal, or one an older agent left, is as the invariant says.
LEMMA InitHolds == Init => Inv
<1> SUFFICES ASSUME Init PROVE Inv
  OBVIOUS
<1>1. /\ NoRow \in Row /\ Good(NoRow) /\ NoRow.state = "none" /\ NoRow.result = "none"
      /\ ~NoRow.settled /\ ~NoRow.ended
  BY DEF NoRow, Row, Results, Good
<1>2. /\ Good([NoRow EXCEPT !.state = "running"])
      /\ [NoRow EXCEPT !.state = "running"].state = "running"
      /\ [NoRow EXCEPT !.state = "running"].result = "none"
      /\ ~[NoRow EXCEPT !.state = "running"].settled
      /\ ~[NoRow EXCEPT !.state = "running"].ended
  BY Zenon DEF NoRow, Row, Results, Good
<1>3. 1 \in Fences
  BY ResultJournalAssumption DEF Fences
<1>4. /\ rows \in [Fences -> Row]
      /\ \A f \in Fences : /\ Good(rows[f]) /\ rows[f].state \in {"none", "running"}
                           /\ rows[f].result = "none" /\ ~rows[f].settled /\ ~rows[f].ended
  <2>1. CASE rows = [f \in Fences |-> NoRow]
    BY <1>1, <2>1
  <2>2. CASE rows = [[f \in Fences |-> NoRow] EXCEPT ![1].state = "running"]
    <3> DEFINE r == [NoRow EXCEPT !.state = "running"]
    <3>1. rows = [[f \in Fences |-> NoRow] EXCEPT ![1] = r]
      BY <1>3, <2>2
    <3>2. \A f \in Fences : rows[f] = IF f = 1 THEN r ELSE NoRow
      BY <1>3, <3>1
    <3>3. Good(r) /\ r.state = "running" /\ r.result = "none" /\ ~r.settled /\ ~r.ended
      BY <1>2
    <3> HIDE DEF r
    <3>4. rows \in [Fences -> Row]
      BY Zenon, <1>1, <3>1, <3>3 DEF Good
    <3>5. QED
      BY <1>1, <3>2, <3>3, <3>4
  <2>3. QED
    BY <2>1, <2>2 DEF Init
<1>5. /\ cursor = 0 /\ look = 0 /\ due = [f \in Fences |-> "live"]
      /\ effect \in [Fences -> {"none", "running", "gone"}]
      /\ \A f \in Fences : rows[f].state = "none" => effect[f] = "none"
      /\ launches \in [Fences -> 0 .. 2]
      /\ \A f \in Fences : launches[f] = IF rows[f].state = "running" THEN 1 ELSE 0
      /\ told = [f \in Fences |-> FALSE] /\ lane = Idle /\ pass = Idle
      /\ beside = [f \in OffLane |-> Idle] /\ up = FALSE /\ crashes = 0
  BY SMTT(60) DEF Init
<1>6. Typed
  <2>1. /\ due \in [Fences -> {"live", "past", "spent"}] /\ told \in [Fences -> BOOLEAN]
        /\ cursor \in 0 .. N /\ look \in 0 .. N /\ crashes \in 0 .. MaxCrashes
    BY <1>5, ResultJournalAssumption
  <2>2. lane \in Task /\ pass \in Task /\ beside \in [OffLane -> Task] /\ up \in BOOLEAN
    BY Zenon, <1>5, TaskFacts
  <2>3. QED
    BY ZenonT(60), <1>4, <1>5, <2>1, <2>2 DEF Typed
<1>7. LaneOk /\ PassOk /\ DownOk
  BY SMTT(60), <1>5, TaskFacts DEF LaneOk, PassOk, DownOk, Flying
<1>8. \A f \in Fences : RowOk(f)
  BY <1>4, <1>5 DEF RowOk
<1>9. \A f \in Fences : ExecOk(f)
  BY <1>5, TaskFacts DEF ExecOk, Executing, Executor
<1>10. \A f \in OffLane : BesideOk(f)
  BY <1>5, TaskFacts DEF BesideOk, Flying
<1>11. QED
  BY <1>6, <1>7, <1>8, <1>9, <1>10 DEF Inv

\* Every step keeps the invariant.
LEMMA NextKeeps == Inv /\ [Next]_vars => Inv'
<1> SUFFICES ASSUME Inv, [Next]_vars PROVE Inv'
  OBVIOUS
<1>1. CASE StartUp BY <1>1, StartUpStep
<1>2. CASE Crash BY <1>2, CrashStep
<1>3. CASE LaneAnswer BY <1>3, LaneAnswerStep
<1>4. CASE Reobserve BY <1>4, ReobserveStep
<1>5. CASE Deliver \/ NextDelivery BY <1>5, DeliveryStep
<1>6. CASE PassAnswer \/ PassLost BY <1>6, PassAnswerStep
<1>7. ASSUME NEW f \in Fences, Claim(f) PROVE Inv' BY <1>7, ClaimStep
<1>8. ASSUME NEW f \in Fences, Launch(f) PROVE Inv' BY SMTT(60), <1>8, LaunchStep
<1>9. ASSUME NEW f \in Fences, EffectEnds(f) PROVE Inv' BY <1>9, EffectEndsStep
<1>10. ASSUME NEW f \in Fences, Executed(f) PROVE Inv' BY <1>10, ExecutedStep
<1>11. ASSUME NEW f \in Fences, Elapse(f) PROVE Inv' BY <1>11, ElapseStep
<1>12. ASSUME NEW f \in Fences, CoolDown(f) PROVE Inv' BY <1>12, CoolDownStep
<1>13. ASSUME NEW f \in OffLane, BesideAnswer(f) PROVE Inv' BY ZenonT(60), <1>13, BesideAnswerStep
<1>14. CASE UNCHANGED vars
  BY ZenonT(60), <1>14 DEF vars, journal, tasks, Inv, Typed, LaneOk, PassOk, DownOk, RowOk, ExecOk,
               Executing, Executor, BesideOk, Flying
<1>15. QED
  BY ZenonT(60), <1>1, <1>2, <1>3, <1>4, <1>5, <1>6, <1>7, <1>8, <1>9, <1>10, <1>11, <1>12, <1>13,
     <1>14 DEF Next

\* No step replaces a definite result.
LEMMA DefiniteKept ==
  ASSUME Inv, [Next]_vars, NEW f \in Fences, rows[f].result = "definite"
  PROVE  rows'[f].result = "definite"
<1>1. /\ Good(rows[f]) /\ rows[f].state = "completed" /\ rows \in [Fences -> Row]
      /\ "unknown" \in Results \ {"none"}
  BY DEF Inv, Typed, Good, Results
<1>2. ASSUME NEW g, NEW x, rows' = [rows EXCEPT ![g] = x],
             g = f => x.result = "definite"
      PROVE  rows'[f].result = "definite"
  BY <1>1, <1>2
<1>3. ASSUME NEW t, Accepted(t) \/ Refused(t) PROVE rows'[f].result = "definite"
  <2>1. rows' = [rows EXCEPT ![t.fence] =
                   IF t.acknowledged THEN mark_reconciled(rows[t.fence])
                   ELSE acknowledge(rows[t.fence])]
        \/ rows' = [rows EXCEPT ![t.fence] = reject_result(rows[t.fence])]
    BY <1>3 DEF Accepted, Refused
  <2>2. /\ mark_reconciled(rows[f]).result = "definite"
        /\ acknowledge(rows[f]).result = "definite"
        /\ reject_result(rows[f]).result = "definite"
    BY SMTT(60), <1>1, AnswerFacts
  <2>3. CASE t.fence = f
    BY <1>2, <2>1, <2>2, <2>3
  <2>4. CASE t.fence # f
    BY <1>2, <2>1, <2>4
  <2>5. QED
    BY <2>3, <2>4
<1>4. ASSUME NEW t, Discard(t) PROVE rows'[f].result = "definite"
  <2>1. rows' = [rows EXCEPT ![t.fence] = discard_rejected_result(rows[t.fence], t.result)]
    BY <1>4 DEF Discard
  <2>2. discard_rejected_result(rows[f], t.result).result = "definite"
    BY <1>1 DEF discard_rejected_result, Good, Row
  <2>3. QED
    BY <1>2, <2>1, <2>2
<1>5. ASSUME NEW t, Settle(t) \/ Lost(t) \/ Refused(t) PROVE rows'[f].result = "definite"
  BY <1>3, <1>4, <1>5 DEF Settle, Lost
<1>6. CASE LaneAnswer \/ PassAnswer \/ PassLost
  BY <1>5, <1>6 DEF LaneAnswer, PassAnswer, PassLost
<1>7. ASSUME NEW g \in OffLane, BesideAnswer(g) PROVE rows'[f].result = "definite"
  BY ZenonT(60), <1>5, <1>7 DEF BesideAnswer
<1>8. CASE StartUp
  <2>1. rows'[f] = recover_interrupted(rows[f])
    BY <1>8 DEF StartUp
  <2>2. QED
    BY ZenonT(60), <1>1, <2>1, RecoverFacts
<1>9. CASE Crash \/ Deliver \/ NextDelivery \/ UNCHANGED vars
  BY <1>9 DEF Crash, Deliver, NextDelivery, vars, journal
<1>10. ASSUME NEW g \in Fences, Launch(g) \/ EffectEnds(g) \/ Elapse(g)
       PROVE  rows'[f].result = "definite"
  BY <1>10 DEF Launch, EffectEnds, Elapse, journal
<1>11. ASSUME NEW g \in Fences, Claim(g) PROVE rows'[f].result = "definite"
  <2>1. CASE BeginExecute(g)
    BY ZenonT(60), <1>1, <1>2, <2>1 DEF BeginExecute, Write
  <2>2. CASE BeginKnown(g) \/ BeginRefused(g)
    BY <2>2 DEF BeginKnown, BeginRefused
  <2>3. QED
    BY ZenonT(60), <1>11, <2>1, <2>2 DEF Claim
<1>12. ASSUME NEW g \in Fences, Executed(g) PROVE rows'[f].result = "definite"
  <2>1. Executing(g) /\ ExecOk(g)
    BY <1>12 DEF Executed, Inv
  <2>2. g # f
    BY <1>1, <2>1 DEF ExecOk
  <2>3. PICK x : rows' = [rows EXCEPT ![g] = x]
    BY Zenon, <1>12 DEF Executed, Write
  <2>4. QED
    BY ZenonT(60), <1>2, <2>2, <2>3
<1>13. CASE Reobserve
  <2>1. CASE UNCHANGED rows
    BY <2>1
  <2>2. CASE \E seen \in Seen(Next_observed) : Probed(Next_observed, seen)
    <3> DEFINE o == Next_observed
    <3>1. o \in Fences /\ Observed(o) /\ Typed /\ RowOk(o)
      BY <1>13, NextObserved DEF Reobserve, Inv
    <3>2. PICK seen \in Seen(o) : Probed(o, seen)
      BY ZenonT(60), <2>2
    <3> HIDE DEF o
    <3>3. /\ f # o => rows'[f] = rows[f]
          /\ rows[o].result = "definite" => rows'[o].result = "definite"
      BY <3>1, <3>2, ProbedFacts
    <3>4. QED
      BY <3>3
  <2>3. QED
    BY <1>13, <2>1, <2>2 DEF Reobserve
<1>14. ASSUME NEW g \in Fences, CoolDown(g) PROVE rows'[f].result = "definite"
  BY <1>1, <1>14 DEF CoolDown, Row
<1>15. QED
  BY <1>6, <1>7, <1>8, <1>9, <1>10, <1>11, <1>12, <1>13, <1>14, ZenonT(60) DEF Next

\* The inductive invariant holds in every reachable state of the journal and
\* of the tasks that write it, for any set of orders and any number of restarts.
THEOREM Invariance == Spec => []Inv
<1>1. QED
  BY InitHolds, NextKeeps, PTL DEF Spec

\* begin puts an order into custody before anything runs, and answers busy or
\* replays a known one: no order is ever dispatched twice, through every crash
\* and every repeated claim.
THEOREM DispatchedOnce == Spec => []LaunchedOnce
<1>1. Inv => LaunchedOnce
  BY DEF Inv, RowOk, LaunchedOnce
<1>2. QED
  BY <1>1, Invariance, PTL

\* What the journal says is so: finish and recover_interrupted record a definite
\* result only of an effect that is over, acknowledge, mark_reconciled and
\* discard_rejected_result settle only what was answered, and end_observation
\* gives up only for a reason.
THEOREM RecordsAreTrue == Spec => []OutcomesAreTrue
<1>1. Inv => OutcomesAreTrue
  <2> SUFFICES ASSUME Inv PROVE OutcomesAreTrue
    OBVIOUS
  <2>1. TypeOK
    BY SMTT(60) DEF Inv, Typed, Good, Row, Task, TypeOK
  <2>2. SettledIsAnswered /\ DefiniteIsTrue /\ ObservedToTheEnd
    BY DEF Inv, RowOk, SettledIsAnswered, DefiniteIsTrue, ObservedToTheEnd
  <2>3. QED
    BY <2>1, <2>2 DEF OutcomesAreTrue
<1>2. QED
  BY <1>1, Invariance, PTL

\* finish answers stale to a late executor or probe: once definite, the result
\* of an order never changes.
THEOREM ResultsAreFinal == Spec => DefiniteIsFinal
<1>1. Inv /\ [Next]_vars =>
        [\A f \in Fences : rows[f].result = "definite" => rows'[f].result = "definite"]_vars
  BY DefiniteKept
<1>2. QED
  BY <1>1, Invariance, PTL DEF Spec, DefiniteIsFinal
=============================================================================
