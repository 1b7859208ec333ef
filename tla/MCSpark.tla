------------------------------- MODULE MCSpark -------------------------------
(***************************************************************************)
(* What a Spark keeps through its crashes, for TLC: the agent's journal of *)
(* orders and results, the repair of a damaged journal and the activation  *)
(* of a package.  They share no state, so that their interleavings add     *)
(* nothing: a behaviour moves one part and leaves the others as they start.*)
(***************************************************************************)
EXTENDS ResultJournal

VARIABLES dir, disk, damaged, committed, step, losses            \* of JournalRepair
VARIABLES tx, receipt, custody, installed, agent, inst, intent, blocker, rec, dog,
          grant, power, faults                                   \* of PackageActivation
VARIABLE part                                                    \* what moves

\* An order of the lane, observed without a budget of its own; the module's own
\* instance is of an order that runs beside the lane.
Lane == INSTANCE ResultJournal WITH OffLane <- {}, JobRuns <- {1}

Repair == INSTANCE JournalRepair WITH MaxJournals <- 3, MaxFaults <- 3, faults <- losses

\* The next package over a candidate that still awaits its confirmation, with
\* every fault.
Chain == INSTANCE PackageActivation WITH
    Requests <- {1, 2}, Source <- <<0, 1>>, Candidate <- <<1, 2>>,
    PrepareFaults <- TRUE, DEADLINE <- 2, RETRY <- 2, MaxFaults <- 2,
    disk <- installed, up <- power

\* One install, none of whose preparation fails half way.
Single == INSTANCE PackageActivation WITH
    Requests <- {1}, Source <- <<0>>, Candidate <- <<1>>,
    PrepareFaults <- FALSE, DEADLINE <- 2, RETRY <- 2, MaxFaults <- 4,
    disk <- installed, up <- power

ASSUME SparkAssumption == Repair!Assumed /\ Chain!Assumed /\ Single!Assumed

repairVars == <<dir, disk, damaged, committed, step, losses>>
packageVars == <<tx, receipt, custody, installed, agent, inst, intent, blocker, rec, dog,
                 grant, power, faults>>
all == <<part, vars, repairVars, packageVars>>

PartsInit ==
    /\ part \in {"beside", "lane", "repair", "chain", "single"}
    /\ Repair!Init /\ Chain!Init
    /\ IF part = "lane" THEN Lane!Init ELSE Init
    /\ part \notin {"beside", "lane"} => rows[1].state = "none"

Journal(A, B) ==
    /\ (part = "beside" /\ A) \/ (part = "lane" /\ B)
    /\ UNCHANGED <<part, repairVars, packageVars>>
Repairs(A) == part = "repair" /\ A /\ UNCHANGED <<part, vars, packageVars>>
Package(p, A) == part = p /\ A /\ UNCHANGED <<part, vars, repairVars>>

PartsNext ==
    \/ Journal(Next, Lane!Next) \/ Repairs(Repair!Next)
    \/ Package("chain", Chain!Next) \/ Package("single", Single!Next)

\* The fairness of each part's FairSpec.
FairJournal ==
    /\ WF_all(Journal(StartUp, Lane!StartUp)) /\ WF_all(Journal(LaneAnswer, Lane!LaneAnswer))
    /\ SF_all(Journal(Reobserve, Lane!Reobserve)) /\ SF_all(Journal(Deliver, Lane!Deliver))
    /\ SF_all(Journal(NextDelivery, Lane!NextDelivery))
    /\ SF_all(Journal(PassAnswer, Lane!PassAnswer))
    /\ WF_all(Journal(EffectEnds(1), Lane!EffectEnds(1)))
    /\ WF_all(Journal(Executed(1), Lane!Executed(1)))
    /\ WF_all(Journal(Elapse(1), Lane!Elapse(1)))
    /\ WF_all(Journal(CoolDown(1), Lane!CoolDown(1)))
    /\ WF_all(Journal(BesideAnswer(1), FALSE))

FairRepair == WF_all(Repairs(Repair!open_recovered))

FairPackage ==
    /\ WF_all(Package("single", Single!InstallGoesOn))
    /\ WF_all(Package("single", Single!Recovery))
    /\ WF_all(Package("single", Single!Watchdog))
    /\ WF_all(Package("single", Single!Boots))
    /\ WF_all(Package("single", Single!ClockTicks))

PartsSpec == PartsInit /\ [][PartsNext]_all /\ FairJournal /\ FairRepair /\ FairPackage

\* What the journal says of its orders is so, for an order beside the lane and
\* for one of the lane (finish, acknowledge, end_observation).
OutcomesSound == IF part = "lane" THEN Lane!OutcomesAreTrue ELSE OutcomesAreTrue

\* A journal is never used without the log that holds its committed rows, nor
\* beside the log of another, wherever a crash interrupted its repair
\* (open_recovered).
NeverTorn == Repair!TypeOK /\ Repair!NeverTorn

\* A settled transaction has its outcome on the disk: the candidate once it is
\* acknowledged, the captured source once it is rolled back (the helper's
\* install, the recovery unit and the watchdog).
SettledIsInstalled ==
    /\ IF part = "single" THEN Single!TypeOK ELSE Chain!TypeOK
    /\ Chain!SettledIsInstalled

\* No step gives up what is known or kept: a definite result stays definite
\* (finish), a readable journal with committed rows is not moved away
\* (finish_pending), and the watchdog installs nothing but the source its own
\* transaction captured (restore).
NothingKeptIsLost ==
    DefiniteIsFinal /\ Repair!KeptWhileReadable /\ Chain!RestoresItsSource

\* The Spark comes through its crashes: every order comes to a result the
\* Controller answers, a journal is opened again while another can be created,
\* and every package transaction ends acknowledged, restored or recorded as a
\* failed restoration.
Recovers ==
    /\ part \in {"beside", "lane"} => EveryOrderIsAnswered
    /\ part = "repair" => Repair!OpenedAgain
    /\ part = "single" => Single!ActivationConcludes
==============================================================================
