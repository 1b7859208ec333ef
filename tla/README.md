# A TLA+ verification of vonk-forge

vonk-forge is a Python *controller* (an API and a worker over one PostgreSQL
database) that drives *Sparks*, GPU machines on which a Rust *agent* polls the
controller for work over mutual TLS. This directory models how work is decided,
issued, executed, observed, cancelled and ended, and the protocols around it:
the gateway's routes, the artifact store, certificates and the agent's own
upgrade. TLC checks the models on small instances; TLAPS proves the central
rules for every value of the constants.

Paths are relative to the repository's root; `vc/` stands for
`control/src/vonk_control/`, `agent/` for `rust/crates/vonk-agent/src/` and
`helper/` for `rust/crates/vonk-agent-helper/src/`.

## 1. The system

| Part | State | What makes it hard | Module |
|---|---|---|---|
| Lifecycle core, `vc/lifecycle/core.py`, `reconciler.py` | one row: state, attempt, fence, lease, clock, deadlines, counts, cancel flag, effect | late and repeated reports, work that may have happened, cancels nobody answers | `LifecycleCore`, `LifecycleRow` |
| Agent order, `vc/agent_jobs/`, `vc/lifecycle/agent_operation.py`, `vc/agent_operation_facts.py` | order, attempt, parent job, contact of the Spark | a pass that decides from unlocked reads, lapsed leases, late receipts, absent Sparks, worker restarts | `AgentOrder` |
| Agent queue, `vc/agent_jobs/claim.py` | all orders of a Spark | orders that exclude, stop or wait for each other | `AgentQueue` |
| Durable jobs, `vc/jobs.py`, `vc/optimistic.py`, `vc/lifecycle/job.py` | job, attempts, versions, row lock | a worker that lost its lease, lost commits, racing requests | `DurableJobs`, `JobBoard` |
| Worker loop, `vc/worker.py`, `vc/coordinator_failures.py` | rotation, failure rows | a source that always fails or hangs | `WorkerLoop` |
| Due-wait backstop, `vc/due_waits.py` | cursors, retry times | starvation, rows that come and go during a pass | `DueWaits` |
| Agent journal, `agent/state.rs`, `agent/executor/` | accepted orders, results, settlements | a restart in the middle of an action, lost and refused answers | `ResultJournal`, `JournalRepair` |
| Package activation, `helper/package_rollback/`, `packaging/debian/preinst` | transaction, receipt, installed files | power failure between any two steps, recovery unit against watchdog | `PackageActivation` |
| Agent upgrades, `vc/agent_upgrades/` | rollouts over orders | an agent that replaces itself | `AgentUpgrades` |
| Artifact store, `vc/artifact_blob_store.py`, `vc/artifact_jobs/` | reservations, temporary files, objects, references | shared quota, retention against uploads, processes that die | `BlobStore` |
| Route publication, `vc/recipe_routes/`, `vc/route_runtime.py` | claim, live marker, publication record | activation and record are two steps, publishers overtake each other | `RoutePublication` |
| Certificate rotation, `vc/enrollment/`, `vc/local_ca.py`, `agent/rotation.rs` | certificate rows, intent, authority's journal, agent's files | lost answers on three sides, requests served long after they were given up | `CertificateRotation` |

The core is used by all kinds of work: each kind projects its tables onto a
lifecycle row through an adapter, feeds events to one pure transition function
and stores what it decides. Agent orders are the kind all the others end in,
because only they reach a Spark. Orders, queue and upgrades use the operators of
`LifecycleCore` itself.

## 2. Modules

**Conventions.** Definitions keep the source's names (`_retry`, `settle`,
`adopt_observation_receipt`, ...). An action is a whole transaction or a whole
journal statement with every write it makes. Where the code reads, waits and
writes, there are several actions and everything else interleaves. An instant is
the number of clock steps until it: 0 once it has passed, `NoTime` (-1) for
`None`; the clock action counts every instant down. Backoff, jitter and
Retry-After only choose a delay, so a delay is chosen from a set. Faults (deaths,
lost answers, failed calls) are actions, bounded by a constant. A definition
`Bug_X` before `X` is a plausible slip in `X`; no specification uses one, they
document what each property guards against.

**LifecycleCore** is the transition function, event by event, as operators on a
row; `transition` is its dispatcher, `settle` the loop of `reconciler.py`.
`retry_count`, reasons and request keys influence only delays and texts and are
left out. **LifecycleRow** puts one row of any kind under it (`Irreversible`,
`Actions`, `Deadlines`) and adds what the core cannot see: `world[a]` is what
attempt `a` really did. Reports, observations and confirmed stops are truthful
about `world` but come late, again, or never. A row starts as just submitted or as
adopted from an older release, waiting for an operator.

**AgentOrder** has the committed rows `db` (order, current attempt, parent job),
the Spark as the controller knows it (`node`), what each attempt did (`exec`) and
the worker (`pass`). Claim, heartbeat, result, sweeps, cancels and supersession
run in one transaction under the locks of node, parent and order, so each is one
action. The reconciler pass is not atomic: `PassRead` reads and decides without a
lock, `PassSave` re-reads under the locks and saves only if `same_order` still
holds, `PassAsk` answers the command from the rows of that moment, and
`WorkerStop` may come between any two. A deadline that `order_recovery_deadline`
computes as "a budget from now" names another instant at each read; two such
reads never compare as the same order (`Moving`). `order_recovery_deadline` does
not start the window again at a revocation, a detail of
`owner_liveness._spark_return` that no property depends on.

**AgentQueue** has the orders of one Spark beside each other, the poll that
chooses among them and every way it leaves the head of the queue. An order keeps
only what the queue decides from, and the reconciler pass is one step here
(`AgentOrder` has its interleavings). A full disk or an unhealthy GPU is an input
of the poll (`Unfit`).

**DurableJobs** has one request key, its job and attempt rows, callers and
workers. Every transaction is a read and a commit with other processes between
them; claims hold a row lock, renewals and outcomes go through the optimistic
boundary with its second decision. **JobBoard** is what the service promises:
the same calls as single steps, without versions, locks or attempt rows. The
refinement mapping is in `DurableJobs` (`ImplementsBoard`).

**WorkerLoop** and **DueWaits** are the two schedulers: what a source or a row
does with its turn is open.

**ResultJournal** has the agent's journal with all its writers: the claim lane,
the orders beside it, and the pass that probes interrupted orders and delivers
retained results. `effect`, `launches` and `told` are what really happened. A probe
sees an effect that runs as running; the probes of a distribution and of a build
cleanup look at what is on disk alone (`agent/executor/operation_observation.rs:198`,
`:338`), and of these it is assumed that what is on disk is complete only once the
effect is over.
**JournalRepair** is the replacement of a damaged journal over a directory whose
renames survive a power loss only after a synchronization (which is assumed not
to fail). **PackageActivation** is a package of two files that dpkg replaces one
after the other, with the helper, the recovery unit, the watchdog and the agent
as processes of their own. `InstallStarts` is the part of `preinst` that writes the
intent, blocks the agent's start and enables the recovery (`:965-985`) as one step;
its paths that abandon an install (`:1183-1200`) are left out.

**AgentUpgrades** composes rollouts, orders, polls and installs; the Spark's side
is `PackageActivation` reduced to armed, acknowledged and rolled back. A poll is a
handler of the controller: it advances the rollouts by what was known of the Spark
(`advance_node`), then records the contact and tries to claim, again and again. When
the agent is stopped or unreachable its handler goes on with the build and the
receipt of the request (`orphan`); what it issues reaches nobody.

**BlobStore** has uploads, the quota, the reference fence and the retention pass,
one step per removed file. Cancelling a request ends its coroutine and gives up its
fence, not the thread it awaits: `straggler` is that thread, which still reserves,
opens, commits or attaches. **RoutePublication** has two publishers (worker and
API), the claim, the file lock, the live marker, the supervisor with its LiteLLM
child and the Stop that withdraws before it dispatches. Its last look at the live
marker (`withdrawal.py:199`) and the transaction of the dispatch are one step, and a
withdrawal whose Stop was never accepted is restored at any time, not only after the
five minutes of `STOP_DISPATCH_GRACE`. **CertificateRotation**
has several renewal requests served at once, the authority, the sweep, the
operator and the agent's three files; the reads with which a renewal begins
(`rotation.py:89-113` and `:158-176`) are one step.

`MC*` modules instantiate these for TLC. `MCController` and `MCSpark` hold parts
that share no variable: a behaviour moves one part, named by the rigid variable
`part`, and leaves the others as they start.

## 3. Runs

| Run | Config | Asks | Distinct states |
|---|---|---|---|
| `row` | `MCrow` | can any sequence of events replay, invent or revive the work of an irreversible row, and is the clock alone enough to end it? | 19,056 |
| `orders` | `MCorders` | the same for a job, a start and a transfer, with the real handlers, the unlocked pass, outages of the Spark and restarts of the worker | 467,982 |
| `job_outage` | `MCjobOut` | **violated**: finding 1 | - |
| `queue` | `MCqueue` | do the orders of a Spark overlap, undo a Stop or wait for each other for ever? | 45,932 |
| `controller` | `MCcontroller` | is one job given to one worker and ended once, and does nobody starve in the worker loop or the backstop? | 261,385 |
| `spark` | `MCspark` | does a Spark keep its orders, its journal and its package through crashes? | 58,498 |
| `blobs` | `MCblobs` | does the quota hold, is nothing in use removed, is everything else reclaimed? | 371,369 |
| `routes` | `MCroutes` | is what is recorded live, is a Stop dispatched only after its route is gone, does the gateway converge? | 224,745 |
| `rotation` | `MCrotation` | does the agent keep access, is every signature accounted for, does the renewal complete? | 485,021 |
| `upgrades` | `MCupgrade` | is an order done only on the target build or after a rollback, and do two rollouts both end? | 165,200 |
| `upgrade_fleet` | `MCupgradeFleet` | does a rollout to two Sparks end only when both are settled? | 298,065 |
| `upgrade_stale` | `MCupgradeStale` | **violated**: finding 2 | - |

Properties that name several facts (`RowsAgree`, `Consistent`, `InUseIsKept`,
`RecordsAreSound`, ...) are conjunctions of definitions with a comment each, the
module's type invariant among them.

### Bounds

Every bound is a constant of its cfg.

- `row` uses the code's own budgets (8 looks, 6 lost looks, 6 stops), two
  attempts, delays of one or two steps and deadlines of three. Two attempts are
  enough: each property speaks of one earlier attempt and its successor.
- `orders` shrinks the budgets to the least values that keep their cases apart
  (1 look, 2 lost looks, 2 stops). Leases lapse before recovery windows and
  those before custody, and each can pass inside a reconciler pass. The safety
  properties also hold with a recovery budget of 2, custody of 3 and a longest
  delay of 4 (1,911,710 states), and all of them with 2, 2 and 3 (1,433,866).
- `queue` has three plans of three orders chosen so that they meet: a service
  started, stopped by a newer intent and started again; a job under the Stop of a
  newer profile; a build with its cleanup and an upgrade.
- `controller`: two workers and two callers who may ask for different things under
  one key, two attempts, five versions; two sources; three rows in two tables with
  a batch of two, so that a pass can end with rows still due.
- `spark`: one order, beside the lane or on it, and two restarts; three journals
  and three faults; two package requests over each other with two faults, and one
  with four. Instances with two orders were explored once (2,574,536 and
  16.3 million states).
- `blobs`: two uploads of the same bytes for two jobs, a quota that fits one of
  them and part of the next, a pass that takes one expired job and removes one file,
  one fault; the cancellation of an awaited thread is not counted as a fault.
- `routes`: two runs, one stopped while the other ends or its rank fails, two
  faults. `rotation`: two requests at once, three keys, four serials, two faults;
  an instance with two keys, two faults and six serials (48,980 states) passes too.
- `upgrades`: one Spark and two rollouts, one fault and one handler without a Spark;
  the activation window is shorter than the fence and the fence shorter than the
  recovery budget, so that an order is reissued within it, and a heartbeat renews a
  lease that has begun to run out. `DoneRunsOrUndone` was also
  checked with two faults. `upgrade_fleet`: two (symmetric) Sparks, one rollout, one
  fault, no handler without a Spark (`MaxOrphans = 0`).

Deadlock is checked for `queue`, `upgrades` and `upgrade_fleet` (in the latter two
the periodic `heal_rollouts` is always enabled, so it says little). Elsewhere a
finished instance may stop.

`Prompt`: `orders` assumes that a lapsed lease is swept before the clock moves on.
The sweep runs every few seconds and deadlines are minutes to hours. `job_outage`
drops this, as when the controller is down across a deadline.

### Fairness

Nothing is assumed of a person, and nothing of an executor unless named here.

- `LifecycleRow`: a row at its clock is ticked, a lapsed lease is noticed, the
  clock runs.
- `AgentOrder`: the worker's periodic tasks run again while they have work
  (`vc/worker.py`), a stopped worker is started again (the deployment restarts
  it), the clock runs. These are weak fairness with the enabling condition spelled
  out, because TLC cannot compute the ENABLED of these actions in reasonable time.
  `Concludes` states its premises: the worker does not crash for ever, the agent
  stops renewing, the Spark does not stay away.
- `AgentQueue`, `AgentUpgrades`: the agent polls, executors end (they have
  timeouts), the worker sweeps and passes, time goes on. In `AgentUpgrades` a handler
  ends, a planned request is applied, and the conditions that enable polls, decisions
  and the Spark's work are spelled out as well (`CanPoll`, `CanDecide`, `CanWork`).
- `DurableJobs`: some worker looks for work and does not sit in a step, and a claim
  is not broken off for ever (strong fairness: crashes are not bounded).
- `WorkerLoop`, `DueWaits`: the loop goes on; a step that hangs is ended by the
  watchdog.
- `ResultJournal`: the supervisor restarts the agent, executors return, the
  Controller answers a request repeated for ever. Probing and delivery have strong
  fairness because every turn of the lane runs them before it claims.
- `JournalRepair`, `PackageActivation`: processes and enabled units run on and
  boots happen; the controller need not confirm.
- `BlobStore`, `RoutePublication`, `CertificateRotation`: each process comes to its
  next step. `maintain` and `Dispatch` have strong fairness because each pass of the
  worker maintains after it published and an accepted Stop is continued until it is
  dispatched. The rotation's clock runs while no renewal touches the intent.

Where a leads-to can be said as "again and again" it is, because TLC checks that
several times faster: `NoOrderStarves` is the same formula, `LapsedIsClaimedAgain`
a stronger one, and `Concludes` and `RolloutConcludes` carry the action property
that makes the two agree (a cancellation stands while its order is open; a rollout
leaves the queue only for an outcome).

### Premises inside properties

- `ReferencedStays` excludes a Stop receipt that renews an expired job during a
  pass and a reference that the thread of a cancelled request writes without the
  fence (`late`); `EvidenceOutlivesObject` a cancelled clean-up that gives up the fence
  of an upload whose commit still runs; `AbandonedIsReclaimed` a reservation whose
  request was cancelled while its thread reserved (`Leaked`). An upload counts twice between its rename and
  the release of its reservation; an object committed and never attached is not
  reclaimed by design (the pass needs a row as its authority).
- `DoneRunsOrUndone` excludes a package that the watchdog has taken back from the
  Spark (`undone`): that case is finding 2.
- `StoppedLeavesGateway` excludes that nothing is served any more,
  `PendingIsPublished` that a rank fails.
- `StagedCanBeActivated` and `RotationCompletes` exclude a lost pending key, and
  the latter a signing torn in half.
- The liveness part of package activation has one request none of whose
  preparation fails half way; section 4 says what happens otherwise.

## 4. Where code and text disagree

The runs marked *violated* show two disagreements:

1. **An exited job is issued again** (`job_outage`,
   `vc/lifecycle/agent_operation.py:401`). A receipt of undelivered output that
   comes after its custody ended is refused by the adoption but kept, and the
   observation reads it as "nothing ran". The core says such an effect "is never
   repeated".
2. **A rolled back upgrade is counted done** (`upgrade_stale`,
   `vc/agent_upgrades/recovery.py:252`). The candidate polls once and its build is
   recorded, it is never acknowledged and the watchdog restores the source. The next
   poll, of the restored agent, first advances its rollouts by the recorded build:
   `_settle_at_target` counts the parked order done and the rollout succeeds. The
   docstring takes contact for "the authority on what runs", but the contact is the
   one before. `docs/spark-package-upgrade-recovery.md:92-94` says "A successful
   contact alone does not cancel the watchdog or advance the canary. The acknowledged
   root receipt is the final activation gate."

Met while modelling, and shown by instances that are not kept here. The actions
behave this way, and where a property of section 3 would be affected its premise
says so:

- *Core.* `observe_count` counts looks and stops together, so a row observed
  `STOP_BUDGET` times before its cancel ends without one stop. An absent Spark's
  cancelled order does not end while the Spark is away, because its recovery
  deadline is a new instant at each read. An order that waited for a GPU and never
  ran can be observed for ever: its second save is refused.
- *Artifacts.* `confirm_stopped` between the two transactions of the retention pass
  renews a job that is then removed all the same
  (`vc/artifact_jobs/service.py:98`, "full grace"). A request cancelled while it
  attaches gives up the fence and its thread commits the reference all the same, to an
  object that a pass may have removed meanwhile (`vc/artifact_blob_store.py:176`,
  "Exclude new database attachments while references are reconciled"); the pass's own
  transaction is then refused by the foreign key. A request cancelled while it
  reserves leaves a locked reservation that counts against the quota until the process
  ends (`:291`, "a cancel before they were named leaves only files the reconciler
  sweeps"). The pass spares the reservations that were locked when it took the quota
  lock; one released since waits for the next pass.
- *Routes.* With nothing published the maintenance does not compare the live
  marker. Before the first recorded publication a Stop can be dispatched while the
  live bundle lists its run. A claim made after a withdrawal's intent may include
  the withdrawn run (the check before the dispatch catches it). A Stop withdraws
  another run with a stopped rank without recording the health reason.
- *Certificates.* A signing torn between its two transactions stays pending for
  good (`vc/local_ca.py:321` says a replay signs it). A displaced certificate is not
  always revoked first. A request for a key the agent lost can deny the staged
  certificate of its successor.
- *Journal.* A refused result is settled with the refusal, so that its cool-down
  never offers it again (`agent/state.rs:780`).
- *Packages.* `prepare` copies the new source before the transaction that owns it,
  and stops the old watchdog before it can fail: either can strand an older,
  unconfirmed transaction until the next boot or for good.
- *Upgrades.* A contact on the target build ends an order before the activation is
  acknowledged. A superseded rollout's running order is retried when it fails. A newer
  rollout cancels a parked order whose watchdog still runs, and a cancelled order is
  not in flight any more: the newer order is issued and executed although `claim.py:565`
  says "this order waits for it". The helper refuses to install while a transaction is
  armed, so that this order fails and is tried again.

## 5. Proofs

Each theorem holds for every value of the constants that satisfies the named
assumption of its module (`BudgetsAssumption`, `RowAssumption`, `OrderAssumption`,
`DurableJobsAssumption` with `NobodyAssumption`, `ResultJournalAssumption`,
`RouteAssumption`, `BlobAssumption`; the predicates `Assumed` of `JournalRepair` and
`PackageActivation` are hypotheses of their theorems): counters, leases and budgets
are positive, delays lie within the longest one, subsets are subsets. Nothing is assumed of their size, and the
bounds on attempts, faults and restarts are arbitrary numbers. TLC checked each
inductive invariant before it was proved, on the instances named below.

| Theorem | States | Run |
|---|---|---|
| `LifecycleCoreProofs!TransitionIsLawful` | every decision of the core obeys the contract `Lawful` | - |
| `LifecycleRowProofs!NeverReplayed` | `Spec => []NoBlindReplay` | `row` |
| `LifecycleRowProofs!SuccessIsEarned` | `Spec => []SuccessIsReal` | `row` |
| `LifecycleRowProofs!CancelIsKept` | `Spec => CancelIsMonotonic` | `row` |
| `LifecycleRowProofs!EndedRowsAreFinal` | `Spec => EndedIsFinal` | - |
| `AgentOrderProofs!RowsAlwaysAgree` | `Spec => []RowsAgree` | `orders` |
| `AgentOrderProofs!AttemptsDoNotOverlap` | `Spec => []NoOverlap` | `orders` |
| `AgentOrderProofs!OutcomesAreFinal` | `Spec => EndedStaysEnded` | `orders` |
| `AgentOrderProofs!WithdrawnStaysUnissued` | `Spec => WithdrawnIsNotIssued` | `orders` |
| `RecoveryProofs!RowsAreConsistent` | `Spec => []Consistent` | `controller` |
| `RecoveryProofs!ServiceImplementsBoard` | `Spec => ImplementsBoard` | `controller` |
| `RecoveryProofs!RepairedIsWhole` | `Repair!Spec => [](TypeOK /\ NeverTorn)` | `spark` |
| `RecoveryProofs!ReadableIsKept` | `Repair!Spec => KeptWhileReadable` | in `NothingKeptIsLost` |
| `RecoveryProofs!SettledStaysInstalled` | `Package!Spec => [](TypeOK /\ SettledIsInstalled)` | `spark` |
| `RecoveryProofs!WatchdogRestoresItsSource` | `Package!Spec => RestoresItsSource` | in `NothingKeptIsLost` |
| `ResultJournalProofs!DispatchedOnce` | `Spec => []LaunchedOnce` | `spark` |
| `ResultJournalProofs!RecordsAreTrue` | `Spec => []OutcomesAreTrue` | in `OutcomesSound` |
| `ResultJournalProofs!ResultsAreFinal` | `Spec => DefiniteIsFinal` | in `NothingKeptIsLost` |
| `RoutePublicationProofs!CompletionRecordsLive` | `Spec => RecordedIsLive` | `routes` |
| `RoutePublicationProofs!DispatchAfterWithdrawal` | `~Fresh => (Spec => DispatchSeesRouteGone)` | `routes` |
| `BlobStoreProofs!InUseStays` | `Spec => []InUseIsKept` | `blobs` |
| `BlobStoreProofs!EvidenceStays` | `Spec => EvidenceOutlivesObject` | `blobs` |

Each module also has its `Invariance` theorem, `Spec => []Inv` (`IInv` for the row).
`RecoveryProofs` holds what survives a crash: the jobs of the Controller, and, as the
instances `Repair` and `Package`, the agent's journal file and its package.

**The core and a row.** `Lawful` says of a decision: only a claim changes the
attempt and the fence; a cancel request is kept; an irreversible row that was
issued becomes ready again, or counts as never run, only on evidence that it never
ran; an established effect or a success comes from evidence alone; an ended row has
no clock. Each builder and event rule has a lemma, `TransitionIsLawful` joins them,
`SettleIsLawful` composes an event with the answer to its command. `NoBlindReplay`
is not inductive: a row must also be known not to have launched when it is *ready*
(`ReadyNeverRan`) and when it *says* so (`NoneNeverRan`), its fence must be its
attempt's (`Fenced`, so that a stale report is dropped), an established effect must
be real and an ended row must have no clock.

**An order.** `Inv` is the type invariant, `Sound` of the committed rows (claim,
order and parent tell one story; a receipt is true of its attempt; an order that is
ready for another attempt has a last one that is over), `CarriedIsProven` and
`NoOverlap`. `CarriedIsProven` is what makes the unlocked pass safe: if the rows are
still the ones it read, what it decided from them is still proved when it saves.
The argument goes through contracts, each proved once in `AgentOrderContracts`: of a
transition (`TransitionIsLawful`, `TransitionSeats`), of a decision with its
observation (`DecideContract`), of settling it on the rows (`SettleContract`), of the
parent's aggregation (`AggregateContract`) and of both
(`SettleAndAggregateContract`). Each handler has a lemma: those of the claims and
heartbeats follow the contracts, `AgentOrderProofs` has the others, the steps of the
pass and the theorems. `Inv` was checked on the
instance of `orders`, on it with `Prompt = FALSE` (479,602 states) and on a job with
three attempts and `Prompt = FALSE` (2,705,558). The proof does not use `Prompt`:
these four facts do not depend on timing. `AtMostOneLaunch` and `ReissueIsProven`
do (finding 1), so they stay with TLC.

**Durable jobs.** A selected job stays locked and claimable until its claim commits
(`SelectionHolds`), a running job and its attempt run together (`RunTogether`), and
whoever read the version the row still has holds its current attempt
(`FenceHolds`). From these follow the invariant and, step by step, the
refinement of `JobBoard`: a commit is the board's step, every read, lock,
conflict and second decision a stutter. Also checked with three attempts and six
versions (837,660 states).

**The journal's file.** `NeverTorn` speaks of an open journal only; `RepairInv` says what
the directory and the disk hold at each step of a repair. While no repair is announced
on the disk, the log is there exactly when the journal has committed rows, and a crash
brings back the same names (`Clean`). From the announcement to its retirement only a
damaged journal is under a name, and both are durable before the next step.

**The package.** `SettledIsInstalled` is not inductive: whether a step may install
depends on what every unit still intends. `PackageInv` adds that an install past its
arming belongs to the transaction and every unit that works has a request (`Assigned`);
that nothing runs without power, nor beside a unit that has stopped the services
(`StoppedIsQuiet`); that a watchdog that restores has the directory to itself and the
source it captured (`Restores`); that a grant belongs to the agent that runs, which next
to an intent is its candidate, or the recovery is still to come with time to restore
(`Confirms`); and that an intent left beside a settled transaction could only install
the build that is there (`Settles`). Checked on three instances, with requests over each
other, after each other and back to an older build (up to 47,000 states).

**The journal's rows.** An order in execution has a running row and so no result
(`ExecOk`); while the lane has a request in flight the pass has none (`LaneOk`); an
order beside the lane sends what its row says, or what it could not keep
(`BesideOk`); the pass sends what the row still says (`PassOk`); a refusal is kept
only of what the Controller answered; a settled row is completed and was answered
(`RowOk`); nothing runs while the agent is down (`DownOk`). Checked with two orders,
one beside the lane and one on it (13,493,959 states).

**Routes.** A publisher that took the file lock under an older claim keeps the owner
of the newer claim before its effect (`LockOk`). Therefore the bundle placed under
the current claim is live until its completion (`PlacedOk`), so what the completion
records is live. A recorded marker is the one LiteLLM runs (`LiveOk`), so a Stop that
finds its withdrawal recorded finds its run gone. The second theorem is for a
database that has recorded a publication (`Fresh = FALSE`); section 4 says what the
first publication allows. Checked with `Fresh` `FALSE` and `TRUE` (224,745 and
230,058 states).

**Artifacts.** Whoever may still refer to an object under the fence holds it, and a
thread left behind belongs to an upload that is done or cleans up (`FenceOk`); an
upload that runs has its reservation, its bytes and the object it found (`FilesOk`). A
pass excludes the uploads, not the threads: the references it read lack only those in
`late`, so no other job refers under the fence to what it reclaims, and an upload whose
reservation it spares has no commit to come (`PassReads`). A pass that reaches the rows
with nothing left behind has met no bytes a thread could still commit (`PassClears`),
and the database refuses its transaction while a late reference stands (`Restricted`),
so no object comes back after its evidence went. Checked on the instance of `blobs`
with two faults (1,124,968 states).

**Only model-checked.** Liveness and everything under fairness (`ClockSuffices`,
`Concludes`, `NoOrderStarves`, `NobodyStarves`, `Recovers`, `ReclaimedInTheEnd`,
`GatewayConverges`, `RotationCompletes`, `EndedIsRevoked`, `RolloutConcludes`): the
prover has neither fairness nor ENABLED. `BacksOff`, which speaks of a recursive
function, and `FairPass` and `WithinQuota`, which sum over sets: they need induction
over data. `AtMostOneLaunch` and `ReissueIsProven` for the reason above. The safety of
`AgentQueue`, `CertificateRotation` and `AgentUpgrades` has no proof.

## 6. Not modelled

- *Composites and policies*: Run/Switch, fleet profiles, recipe operations and update
  batches. They choose which orders to create; what an order may do is modelled.
- *Data paths*: model cache, image transfer, the agent's executors, artifact
  distribution. Their lifecycle adapters follow the core; the rest is I/O.
- *Admission*: one sum under one row lock; the wait it causes is in `AgentQueue`.
- *Inside modelled parts*: payload validation, damaged rows, the result consumers
  that advance the owners of a parent job, first enrolment, re-enrolment and expired
  certificates, alias ownership and damaged bundles of the routes, signature
  verification and a root operator's dpkg, legacy words and repair manifests of a
  rollout. A renewal served for more than five minutes is a fault (`Lapse`).
- *Declarative or local code*: wire contracts, web console, operator API, helper,
  monitor, setup, packaging.
